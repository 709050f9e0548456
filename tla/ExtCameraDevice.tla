-------------------------- MODULE ExtCameraDevice --------------------------
(***************************************************************************)
(* One external camera, from its first use to the pictures of a session:   *)
(* class ExternalCameraDevice of camera/device/3.4/default, and the sizes  *)
(* its session works with.  The webcam can be pulled out and put back at   *)
(* any time; its characteristics are read once, when they are first asked  *)
(* for.  The session's threads and buffers are in ExtCamSession.           *)
(*                                                                         *)
(* Every method holds mLock, open() over its retries too, so that only     *)
(* open() takes more than a step.                                          *)
(***************************************************************************)
EXTENDS ExtCamImage

CONSTANTS
  Webcams,      (* sets of modes a webcam may have                          *)
  ConfigFiles,  (* what the configuration file may say, see LoadFromCfg     *)
  MaxPlugs      (* bound: times the webcam is pulled out or put back        *)

MAX_RETRY == 5

VARIABLES
  webcam, mCfg,                   \* the modes of the device, the file's settings
  plugged, plugs,
  mInitialized, mInitFailed, mCameraCharacteristics, mSupportedFormats, mCroppingType,
  opening,                        \* attempts of the open() that is retrying, or -1
  deviceSession,                  \* mSession: "none", "open", "closed"
  mStreams, mV4l2StreamingFmt, mYu12Frame, mIntermediateBuffers

charVars == <<mInitialized, mInitFailed, mCameraCharacteristics, mSupportedFormats, mCroppingType>>
imageVars == <<mStreams, mV4l2StreamingFmt, mYu12Frame, mIntermediateBuffers>>
extDeviceVars == <<webcam, mCfg, plugged, plugs, charVars, opening, deviceSession, imageVars>>

Empty == [static |-> FALSE]       \* CameraMetadata without an entry

Init ==
  /\ webcam \in Webcams /\ mCfg \in {LoadFromCfg(f) : f \in ConfigFiles}
  /\ plugged = TRUE /\ plugs = 0
  /\ mInitialized = FALSE /\ mInitFailed = FALSE /\ mCameraCharacteristics = Empty
  /\ mSupportedFormats = <<>> /\ mCroppingType = "HORIZONTAL"
  /\ opening = -1 /\ deviceSession = "none"
  /\ mStreams = {} /\ mV4l2StreamingFmt = NoMode /\ mYu12Frame = <<0, 0>> /\ mIntermediateBuffers = {}

---------------------------------------------------------------------------
(* Characteristics. *)

\* initDefaultCharsKeys and initCameraControlsCharsKeys: the same for every webcam.
StaticKeys == [static |-> TRUE, thumbnails |-> ThumbnailSizes, orientation |-> mCfg.orientation]

\* initCameraCharacteristics: all keys or none.
Characteristics(fmts) ==
  [static |-> TRUE, thumbnails |-> StaticKeys.thumbnails, orientation |-> StaticKeys.orientation,
   activeArray |-> MaximumFormat(fmts), jpegSizes |-> StreamSizes(fmts, "MJPEG"),
   depthSizes |-> StreamSizes(fmts, "Z16"), fpsRanges |-> FpsRanges(fmts), minFps |-> SlowestFps(fmts),
   capabilities |-> Capabilities(fmts)]

\* isInitFailedLocked: the first answer is kept for good.
InitCharacteristics ==
  IF mInitialized THEN UNCHANGED charVars
  ELSE /\ mInitialized' = TRUE
       /\ IF ~plugged
            THEN mInitFailed' = TRUE /\ UNCHANGED <<mCameraCharacteristics, mSupportedFormats, mCroppingType>>
            ELSE LET offer == SupportedFormats(mCfg, webcam)
                     fmts  == offer.formats
                 IN  /\ mInitFailed' = (fmts = <<>>)
                     /\ mSupportedFormats' = fmts
                     /\ mCroppingType' = IF fmts = <<>> THEN mCroppingType ELSE offer.cropping
                     /\ mCameraCharacteristics' = IF fmts = <<>> THEN Empty ELSE Characteristics(fmts)

GetCameraCharacteristics ==
  /\ opening = -1
  /\ InitCharacteristics
  /\ UNCHANGED <<webcam, mCfg, plugged, plugs, opening, deviceSession, imageVars>>

---------------------------------------------------------------------------
(* open. *)

SessionMade ==
  /\ deviceSession' = "open" /\ mStreams' = {} /\ mV4l2StreamingFmt' = NoMode
  /\ mYu12Frame' = <<0, 0>> /\ mIntermediateBuffers' = {}

\* Refused when there are no characteristics or the last session is still open.
Open ==
  /\ opening = -1
  /\ InitCharacteristics
  /\ IF mInitFailed' \/ deviceSession = "open" THEN UNCHANGED <<opening, deviceSession, imageVars>>
     ELSE IF plugged THEN SessionMade /\ UNCHANGED opening
     ELSE opening' = 0 /\ UNCHANGED <<deviceSession, imageVars>>
  /\ UNCHANGED <<webcam, mCfg, plugged, plugs>>

\* The node is tried again after 100 ms: once more than MAX_RETRY says.
OpenRetried ==
  /\ opening >= 0
  /\ IF plugged THEN opening' = -1 /\ SessionMade
     ELSE /\ opening' = IF opening + 1 <= MAX_RETRY THEN opening + 1 ELSE -1
          /\ UNCHANGED <<deviceSession, imageVars>>
  /\ UNCHANGED <<webcam, mCfg, plugged, plugs, charVars>>

CloseSession ==
  /\ deviceSession = "open"
  /\ deviceSession' = "closed"
  /\ UNCHANGED <<webcam, mCfg, plugged, plugs, charVars, opening, imageVars>>

\* External: the webcam is pulled out, or put back; another webcam is another device.
Plug ==
  /\ plugs < MaxPlugs
  /\ plugs' = plugs + 1 /\ plugged' = ~plugged
  /\ UNCHANGED <<webcam, mCfg, charVars, opening, deviceSession, imageVars>>

---------------------------------------------------------------------------
(* The session's pictures. *)

\* allocateIntermediateBuffers: a frame of the format's size, and one for each stream
\* of another; those of the streams before go.
AllocateIntermediateBuffers(size, streams) ==
  /\ mYu12Frame' = size
  /\ mIntermediateBuffers' = {s \in streams \cup mIntermediateBuffers : s \in streams /\ s # size}

\* configureStreams, for streams that are supported; one of them may be a JPEG stream.
ConfigureStreams ==
  /\ deviceSession = "open" /\ plugged
  /\ \E streams \in SUBSET mCameraCharacteristics.jpegSizes :
       /\ Cardinality(streams) <= 3
       /\ \E stalling \in SUBSET streams : CombinationSupported(mSupportedFormats, streams, stalling)
       /\ LET mode == FormatFor(mCroppingType, mSupportedFormats, streams)
          IN  /\ mode # NoMode /\ Allocates(mode.size) /\ \A s \in streams : Allocates(s)
              /\ mStreams' = streams /\ mV4l2StreamingFmt' = mode
              /\ AllocateIntermediateBuffers(mode.size, streams)
  /\ UNCHANGED <<webcam, mCfg, plugged, plugs, charVars, opening, deviceSession>>

Next == GetCameraCharacteristics \/ Open \/ OpenRetried \/ CloseSession \/ Plug \/ ConfigureStreams

Spec == Init /\ [][Next]_extDeviceVars

---------------------------------------------------------------------------
TypeOK ==
  /\ opening \in -1..MAX_RETRY /\ deviceSession \in {"none", "open", "closed"}
  /\ mCroppingType \in {"HORIZONTAL", "VERTICAL"}
  /\ mInitFailed => mInitialized /\ mSupportedFormats = <<>>

\* The OutputThread decodes the frames of one format only; of others a picture is cut out
\* of whatever mYu12Frame holds.
Decoded      == mV4l2StreamingFmt.fourcc = "MJPEG"
Picture(out) == CropAndScale(mCroppingType, mYu12Frame, out, mIntermediateBuffers)

\* "Try to keep largest possible output size": whatever a webcam offers and the
\* configuration limits, no mode it could deliver is both wider and higher than the
\* active array, and the active array is the frame every size is cut from.
LargestKept ==
  mCameraCharacteristics # Empty =>
    LET max == mCameraCharacteristics.activeArray
    IN  /\ \A ct \in {"HORIZONTAL", "VERTICAL"} : \A m \in Candidates(ct, mCfg, webcam) :
             ~(m.rates # {} /\ Width(m.size) > Width(max) /\ Height(m.size) > Height(max))
        /\ \A i \in DOMAIN mSupportedFormats : Croppable(mCroppingType, mSupportedFormats[i].size, max)

\* What the device promises, its session accepts, and delivers while its frames can be
\* decoded: for every combination of sizes in the characteristics a format is found, and
\* when that is one the OutputThread decodes, the picture of each stream can be made from
\* its frames, by cutting a part that is inside and never by enlarging it, except for
\* ratios so close that the whole frame is taken.  So can every thumbnail.
StreamsProducible ==
  deviceSession = "open" /\ opening = -1 =>
    /\ \A s, t \in mCameraCharacteristics.jpegSizes :
         FormatFor(mCroppingType, mSupportedFormats, {s, t}) # NoMode
    /\ Decoded => \A s \in mStreams :
         /\ Picture(s).ok
         /\ CloseRatio(mYu12Frame, s) \/
              (Width(Picture(s).from.size) >= Width(s) /\ Height(Picture(s).from.size) >= Height(s))
    /\ Decoded =>
         \A t \in mCameraCharacteristics.thumbnails :
           LET r == ThumbCropRect(mYu12Frame, t)
           IN  CroppedLayout(mYu12Frame, r) /\ Area(r.size) > 0 /\ Area(t) <= Area(MaxThumbResolution)

\* The characteristics are as large as the webcam allows, and no larger than its session
\* accepts and can cut out of what it decodes.
PromisesKept == LargestKept /\ StreamsProducible

\* "Assume we can convert any V4L2 format to any of supported output format"
\* (isSupported): the streams that were configured get pictures of the webcam.
AnyFormatConverted == mStreams # {} => Decoded
============================================================================
