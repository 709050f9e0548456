---------------------------- MODULE ExtCamImage ----------------------------
(***************************************************************************)
(* The arithmetic of the external camera's pictures: which of a webcam's   *)
(* formats are offered (class ExternalCameraDevice of                      *)
(* camera/device/3.4/default), which of these produces a set of streams,   *)
(* and how the picture of a stream is cut out of a frame and scaled        *)
(* (configureStreams and the OutputThread of ExternalCameraDeviceSession). *)
(*                                                                         *)
(* A size is <<width, height>>; a mode of the webcam adds its fourcc and   *)
(* its frame rates.  Depth streams, which are copied as they are, have no  *)
(* picture here.                                                           *)
(***************************************************************************)
EXTENDS Integers, FiniteSets, Sequences

Width(s)  == s[1]
Height(s) == s[2]
Area(s)   == s[1] * s[2]
Even(n)   == 2 * (n \div 2)
Last(seq) == seq[Len(seq)]

\* isAspectRatioClose: the ratios differ by less than 0.025.  Ratios are compared as
\* fractions; a float makes no difference for the sizes of cameras.
Cross(s, t)   == Width(s) * Height(t) - Width(t) * Height(s)
Narrower(s, t) == Cross(s, t) < 0
CloseRatio(s, t) ==
  LET c == Cross(s, t) IN 40 * (IF c < 0 THEN -c ELSE c) < Height(s) * Height(t)

---------------------------------------------------------------------------
(* ExternalCameraDevice: the formats that are offered. *)

\* updateFpsList.  prevLimit is made anew for every row, so a row is only compared
\* with {0, 0} and 1000 fps.
AcceptedFpsList(limits) ==
  \A i \in DOMAIN limits :
    Width(limits[i].size) > 0 /\ Height(limits[i].size) > 0 /\ limits[i].fps < 1000

\* The constructor's settings; 7.5 frames per second are 7 for whole rates.
Limit(w, h, fps) == [size |-> <<w, h>>, fps |-> fps]
DefaultConfig ==
  [fpsLimits |-> <<Limit(640, 480, 30), Limit(1280, 720, 7), Limit(1920, 1080, 5)>>,
   depthFpsLimits |-> <<>>, depthEnabled |-> FALSE, minStreamSize |-> <<0, 0>>, orientation |-> 0]

\* loadFromCfg, for a file of some of the settings: without a list of devices to ignore
\* nothing more is read, and a list that is not accepted ends the reading.
LoadFromCfg(file) ==
  LET Set(cfg, keys) == [k \in DOMAIN cfg |-> IF k \in keys \cap DOMAIN file THEN file[k] ELSE cfg[k]]
      Bad(k)         == k \in DOMAIN file /\ ~AcceptedFpsList(file[k])
      first          == Set(DefaultConfig, {"fpsLimits", "depthEnabled"})
  IN  IF "ignore" \notin DOMAIN file \/ Bad("fpsLimits") THEN DefaultConfig
      ELSE IF first.depthEnabled /\ Bad("depthFpsLimits") THEN first
      ELSE Set(first, {"minStreamSize", "orientation"}
                        \cup {k \in {"depthFpsLimits"} : first.depthEnabled})

\* updateFpsBounds: the first limit whose size is not exceeded in the direction that
\* is not cropped; no such limit, no format.
Uncropped(ct, s) == IF ct = "VERTICAL" THEN Width(s) ELSE Height(s)

\* getFrameRateList
FrameRateList(fpsUpperBound, mode) == {r \in mode.rates : r <= fpsUpperBound}

FrameRates(ct, limits, mode) ==
  LET fits == {i \in DOMAIN limits : Uncropped(ct, mode.size) <= Uncropped(ct, limits[i].size)}
  IN  IF fits = {} THEN {}
      ELSE LET first == CHOOSE i \in fits : \A j \in fits : i <= j
           IN  FrameRateList(limits[first].fps, mode)

\* getCandidateSupportedFormatsLocked, up to the trimming.
Candidates(ct, cfg, modes) ==
  {[m EXCEPT !.rates = FrameRates(ct, IF m.fourcc = "Z16" /\ cfg.depthEnabled THEN cfg.depthFpsLimits
                                                                              ELSE cfg.fpsLimits, m)] :
     m \in {x \in modes : /\ x.fourcc \in {"MJPEG", "Z16"}      \* kSupportedFourCCs
                          /\ Height(x.size) <= Width(x.size)
                          /\ Width(x.size) >= Width(cfg.minStreamSize)
                          /\ Height(x.size) >= Height(cfg.minStreamSize)}}

\* trimSupportedFormats: sorted, and only what can be cropped from the largest.
Before(ct, s, t) ==
  LET other(x) == IF ct = "VERTICAL" THEN Height(x) ELSE Width(x)
  IN  \/ Uncropped(ct, s) < Uncropped(ct, t)
      \/ Uncropped(ct, s) = Uncropped(ct, t) /\ other(s) < other(t)

Sorted(ct, fmts) ==
  [i \in 1..Cardinality(fmts) |->
     CHOOSE f \in fmts : Cardinality({g \in fmts : Before(ct, g.size, f.size)}) = i - 1]

\* s can be cropped to the ratio of t, the other way round it cannot.
Larger(ct, s, t)      == IF ct = "VERTICAL" THEN Narrower(s, t) ELSE Narrower(t, s)
Croppable(ct, s, max) == CloseRatio(s, max) \/ Larger(ct, max, s)

Trimmed(ct, fmts) ==
  LET sorted == Sorted(ct, fmts)
  IN  SelectSeq(sorted, LAMBDA f : Croppable(ct, f.size, Last(sorted).size))

OfferedFormats(ct, cfg, modes) ==
  Trimmed(ct, {m \in Candidates(ct, cfg, modes) : m.rates # {}})

\* initSupportedFormatsLocked: "Try to keep largest possible output size"
\* Mutant: the comparison of the two largest sizes is the wrong way round.
SmallerCropping(hori, vert) == IF Area(Last(hori).size) <= Area(Last(vert).size) THEN "HORIZONTAL" ELSE "VERTICAL"
BetterCropping(hori, vert) ==
  LET h == Last(hori).size
      v == Last(vert).size
      covers(s, t) == Width(s) >= Width(t) /\ Height(s) >= Height(t)
  IN  IF h # v /\ covers(h, v) THEN "HORIZONTAL"
      ELSE IF h # v /\ covers(v, h) THEN "VERTICAL"
      ELSE IF Len(hori) > Len(vert) THEN "HORIZONTAL" ELSE "VERTICAL"

SupportedFormats(cfg, modes) ==
  LET hori == OfferedFormats("HORIZONTAL", cfg, modes)
      vert == OfferedFormats("VERTICAL", cfg, modes)
      ct   == IF hori = <<>> THEN "VERTICAL" ELSE IF vert = <<>> THEN "HORIZONTAL"
              ELSE BetterCropping(hori, vert)
  IN  [cropping |-> ct, formats |-> IF ct = "VERTICAL" THEN vert ELSE hori]

\* initOutputCharsKeys: the active array is the last format that no format before it
\* exceeds.  (It starts from a format of no size.)
MaximumFormat(fmts) ==
  LET max[i \in 0..Len(fmts)] ==
        IF i = 0 THEN <<0, 0>>
        ELSE LET m == max[i - 1]
                 s == fmts[i].size
             IN  IF Width(s) >= Width(m) /\ Height(s) >= Height(m) THEN s ELSE m
  IN  max[Len(fmts)]

\* calculateMinFps: webcams often run at half the rate they promise.
FpsRanges(fmts) ==
  LET rates == UNION {fmts[i].rates : i \in DOMAIN fmts} IN {<<r \div 2, r>> : r \in rates}

SlowestFps(fmts) == LET low == {r[1] : r \in FpsRanges(fmts)} IN CHOOSE r \in low : \A q \in low : r <= q

\* initOutputCharskeysByFormat and initAvailableCapabilities: what is told of the
\* formats of one fourcc.
StreamSizes(fmts, fourcc) == {fmts[i].size : i \in {j \in DOMAIN fmts : fmts[j].fourcc = fourcc}}
Capabilities(fmts) ==
  {c \in {"DEPTH_OUTPUT", "BACKWARD_COMPATIBLE"} :
     StreamSizes(fmts, IF c = "DEPTH_OUTPUT" THEN "Z16" ELSE "MJPEG") # {}}

---------------------------------------------------------------------------
(* ExternalCameraDeviceSession::configureStreams: the format for a set of  *)
(* streams.                                                                *)

\* isSupported and isStreamCombinationSupported, for the pictures of a stream.
CombinationSupported(fmts, streams, stalling) ==
  /\ streams # {} /\ \A s \in streams : \E i \in DOMAIN fmts : fmts[i].size = s
  /\ Cardinality(streams \ stalling) <= 2     \* kMaxProcessedStream
  /\ Cardinality(stalling) <= 1               \* kMaxStallStream

\* The stream that is cropped least, and the largest in the direction not cropped.
DesiredRatio(ct, streams) ==
  CHOOSE s \in streams : \A t \in streams : ~Larger(ct, t, s)

LargeEnough(ct, fmts, streams) ==
  {i \in DOMAIN fmts : \A s \in streams : Uncropped(ct, fmts[i].size) >= Uncropped(ct, s)}

\* "Find the smallest format that matches the desired aspect ratio and is wide/high
\* enough"; else the first that can be cropped to it.  The fourcc is not looked at.
NoMode == [fourcc |-> "none", size |-> <<0, 0>>, rates |-> {}]

FormatFor(ct, fmts, streams) ==
  LET ratio == DesiredRatio(ct, streams)
      large == LargeEnough(ct, fmts, streams)
      exact == {i \in large : CloseRatio(fmts[i].size, ratio)}
      close == {i \in large : Larger(ct, fmts[i].size, ratio)}
      best  == IF exact # {} THEN exact ELSE close
  IN  IF best = {} THEN NoMode ELSE fmts[CHOOSE i \in best : \A j \in best : i <= j]

\* getMaxThumbResolution, over ANDROID_JPEG_AVAILABLE_THUMBNAIL_SIZES.
ThumbnailSizes == {<<176, 144>>, <<240, 144>>, <<256, 144>>, <<240, 160>>, <<256, 154>>, <<240, 180>>}
MaxThumbResolution == CHOOSE s \in ThumbnailSizes : \A t \in ThumbnailSizes : Area(t) <= Area(s)

---------------------------------------------------------------------------
(* OutputThread: the picture of a stream. *)

Rect(left, top, size) == [left |-> left, top |-> top, size |-> size]
NoRect == Rect(0, 0, <<0, 0>>)

\* getCropRect: the whole frame when the ratios are close, else a centred cut.
CropRect(ct, in, out) ==
  IF CloseRatio(in, out) THEN Rect(0, 0, in)
  ELSE IF ct = "VERTICAL"
    THEN LET h == (Height(out) * Width(in)) \div Width(out)
         IN  IF h > Height(in) THEN NoRect
             ELSE Rect(0, Even((Height(in) - Even(h)) \div 2), <<Width(in), Even(h)>>)
  ELSE LET w == (Width(out) * Height(in)) \div Height(out)
       IN  IF w > Width(in) THEN NoRect
           ELSE Rect(Even((Width(in) - Even(w)) \div 2), 0, <<Even(w), Height(in)>>)

\* cropAndScaleThumbLocked: one factor for both directions, the rest is cut off.
ThumbCropRect(in, out) ==
  LET wide == Height(in) * Width(out) < Width(in) * Height(out)
      w == IF wide THEN (Height(in) * Width(out)) \div Height(out) ELSE Width(in)
      h == IF wide THEN Height(in) ELSE (Width(in) * Height(out)) \div Width(out)
  IN  Rect(2 * ((Width(in) - Even(w)) \div 4), 2 * ((Height(in) - Even(h)) \div 4), <<Even(w), Even(h)>>)

\* AllocatedFrame::allocate and getCroppedLayout: even sizes, and a cut inside.
Allocates(size) == Width(size) % 2 = 0 /\ Height(size) % 2 = 0

CroppedLayout(in, r) ==
  /\ r.left + Width(r.size) <= Width(in) /\ r.top + Height(r.size) <= Height(in)
  /\ r.left % 2 = 0 /\ r.top % 2 = 0 /\ Width(r.size) % 2 = 0 /\ Height(r.size) % 2 = 0

\* cropAndScaleLocked: the cut is used as it is when it has the stream's size in the
\* direction not cropped, and is scaled into a buffer of the stream's size otherwise.
Unscaled(ct, in, out) == in = out \/ Uncropped(ct, in) = Uncropped(ct, out)

CropAndScale(ct, in, out, buffers) ==
  LET r == CropRect(ct, in, out)
  IN  CASE in = out -> [ok |-> TRUE, size |-> in, from |-> Rect(0, 0, in)]
        [] in # out /\ (r = NoRect \/ ~CroppedLayout(in, r)) -> [ok |-> FALSE, size |-> <<0, 0>>, from |-> r]
        [] in # out /\ r # NoRect /\ CroppedLayout(in, r) /\ Unscaled(ct, in, out) ->
             [ok |-> TRUE, size |-> r.size, from |-> r]
        [] OTHER -> [ok |-> out \in buffers, size |-> out, from |-> r]
=============================================================================
