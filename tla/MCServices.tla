----------------------------- MODULE MCServices -----------------------------
\* Small instances of the parts that share no state.
EXTENDS Services

CONSTANTS t1, t2, s1, s2
TwoTokens == {t1, t2}
TwoScenes == {s1, s2}

\* LegacyProvider, ExternalProvider: cameras have numbers, nodes have names.
TwoCameras  == {0, 1}
ThirdCamera == {2}
ThreeNodes  == {"video0", "video1", "video2"}
OneInternal == {"video0"}

\* Webcams of few modes or of all, with pictures of close and of different ratios, depth
\* pictures, modes too slow, and sizes beyond the limits.
Mode(format, w, h, rates) == [fourcc |-> format, size |-> <<w, h>>, rates |-> rates]
Modes == {Mode("MJPEG", 320, 240, {30}), Mode("MJPEG", 640, 360, {30}),
          Mode("MJPEG", 640, 480, {5, 30}), Mode("MJPEG", 1280, 720, {5, 30}),
          Mode("MJPEG", 1280, 960, {5}), Mode("MJPEG", 1600, 896, {5}),
          Mode("MJPEG", 1600, 900, {5}), Mode("MJPEG", 1920, 1080, {2, 5}),
          Mode("MJPEG", 240, 320, {30}), Mode("Z16", 848, 480, {30}),
          Mode("YUYV", 1280, 800, {5})}
SomeWebcams == {S \in SUBSET Modes : Cardinality(S) \in {0, 2, 3, Cardinality(Modes)}}

Limit(w, h, fps) == [size |-> <<w, h>>, fps |-> fps]
Depth == [ignore |-> {}, depthEnabled |-> TRUE, depthFpsLimits |-> <<Limit(1280, 720, 30)>>,
          minStreamSize |-> <<640, 360>>]
Narrow == [ignore |-> {}, fpsLimits |-> <<Limit(1280, 720, 30), Limit(640, 480, 8)>>,
           depthEnabled |-> TRUE, depthFpsLimits |-> <<Limit(1280, 0, 30)>>, orientation |-> 90]
SomeConfigFiles == {[fpsLimits |-> <<>>], Depth, Narrow}

\* Two lists of formats, in tens of pixels: one with pictures of two ratios.
FormatOffers == {<<Mode("MJPEG", 64, 48, {15, 30}), Mode("MJPEG", 128, 72, {10})>>,
                 <<Mode("MJPEG", 192, 108, {5, 15})>>}
OneBufferSize   == {300}
VideoAndStill   == {"video", "still"}

\* GNSS: clients one after the other, and satellites at the borders of the numberings.
TwoClients      == {1, 2}
BorderPrns      == {0, 1, 32, 33, 64, 65, 88, 89, 193, 200, 201, 235, 236}
TwoFences       == {1, 2}
FourConstellations == {1, 2, 3, 7}
TwoIntervals    == {50, 1000}
\* Blacklists of satellites, of constellations, of both, and of one the HAL does not know.
SomeBlacklists ==
  {<<>>, <<<<1, 0>>>>, <<<<1, 2>>>>, <<<<2, 0>>, <<1, 1>>>>, <<<<1, 1>>, <<3, 2>>, <<7, 3>>>>}

\* The receiver's configuration may be missing.
FmFiles == {<<>>, [band |-> 1, low_band |-> 875, high_band |-> 1080,
                   fake_chan |-> <<[freq |-> 9800, rssi_th |-> 10]>>]}
FourStations    == {8750, 9100, 9800, 10800}
SomeStarts      == {0, 9800}
OneDesensed     == {9100}
PamdByFrequency == [f \in FourStations |-> (f - 8650) \div 90]
SomeAfLists     == {<<9100>>, <<9100, 9800, 10800>>}
SomeThresholds  == {-102, 300}
=============================================================================
