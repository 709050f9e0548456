--------------------------- MODULE ExtCamCapture ---------------------------
(***************************************************************************)
(* What a capture of the external camera carries: its settings, from the   *)
(* templates of the session to the metadata of the result, and its         *)
(* pictures, the JPEG with the trailer the framework looks for and the     *)
(* planes of a YUV buffer (ExternalCameraDeviceSession of                  *)
(* camera/device/3.4/default).  The threads, locks and buffers of the      *)
(* session are in ExtCamSession, the sizes of its pictures in ExtCamImage. *)
(*                                                                         *)
(* Memory is counted in units of which a CameraBlob takes one, and sizes   *)
(* in tens of pixels.                                                      *)
(***************************************************************************)
EXTENDS ExtCamImage

CONSTANTS
  Offers,        (* the lists of formats a webcam may offer                 *)
  MaxJpegSize,   (* ANDROID_JPEG_MAX_SIZE, the configuration's              *)
  BufferSizes,   (* sizes a framework of version 3.4 may give a JPEG buffer *)
  Kinds,         (* of streams: "preview", "video", "still"                 *)
  MaxStreams,    (* bound: streams of a configuration                       *)
  MaxRequests    (* bound: requests                                         *)

VARIABLES
  mSupportedFormats,
  mStreamMap,                 \* stream -> format; a stream is <<kind, size>>
  mBlobBufferSize,            \* 0 when the session works it out itself
  mFirstRequest, mLatestReqSetting, mAfTrigger,
  requests,                   \* what the OutputThread has to do
  stopped,                    \* it ended with a device error
  capacity,                   \* of the framework's JPEG buffers
  sent, want,                 \* the settings last sent, the AF state they ask for
  lost,                       \* a trigger went with a frame that was malformed
  result,                     \* the result delivered last
  requestCount

captureVars == <<mSupportedFormats, mStreamMap, mBlobBufferSize, mFirstRequest, mLatestReqSetting,
                 mAfTrigger, requests, stopped, capacity, sent, want, lost, result, requestCount>>

None == [none |-> TRUE]

---------------------------------------------------------------------------
(* Keys and values of metadata. *)

\* What the device promises of metadata: AVAILABLE_REQUEST_KEYS and
\* AVAILABLE_RESULT_KEYS of initDefaultCharsKeys.
AvailableRequestKeys ==
  {"ABERRATION_MODE", "AE_ANTIBANDING_MODE", "AE_EXPOSURE_COMPENSATION", "AE_LOCK", "AE_MODE",
   "AE_PRECAPTURE_TRIGGER", "AE_TARGET_FPS_RANGE", "AF_MODE", "AF_TRIGGER", "AWB_LOCK", "AWB_MODE",
   "CAPTURE_INTENT", "EFFECT_MODE", "CONTROL_MODE", "SCENE_MODE", "VIDEO_STABILIZATION_MODE",
   "FLASH_MODE", "JPEG_ORIENTATION", "JPEG_QUALITY", "JPEG_THUMBNAIL_QUALITY", "JPEG_THUMBNAIL_SIZE",
   "OPTICAL_STABILIZATION_MODE", "NOISE_REDUCTION_MODE", "CROP_REGION", "TEST_PATTERN_MODE",
   "FACE_DETECT_MODE", "HOT_PIXEL_MAP_MODE"}
AvailableResultKeys ==
  (AvailableRequestKeys \ {"TEST_PATTERN_MODE"})
    \cup {"AE_STATE", "AF_STATE", "AWB_STATE", "FLASH_STATE", "PIPELINE_DEPTH", "TIMESTAMP",
          "LENS_SHADING_MAP_MODE", "SCENE_FLICKER"}

\* What initDefaultRequests sets; frame rate range and intent are the template's.
TemplateValues ==
  [ABERRATION_MODE |-> "OFF", VIDEO_STABILIZATION_MODE |-> "OFF", EFFECT_MODE |-> "OFF",
   FLASH_MODE |-> "OFF", OPTICAL_STABILIZATION_MODE |-> "OFF", NOISE_REDUCTION_MODE |-> "OFF",
   TEST_PATTERN_MODE |-> "OFF", FACE_DETECT_MODE |-> "OFF", HOT_PIXEL_MAP_MODE |-> "OFF",
   AWB_MODE |-> "AUTO", AF_MODE |-> "AUTO", AE_ANTIBANDING_MODE |-> "AUTO", CONTROL_MODE |-> "AUTO",
   AE_MODE |-> "ON", AE_PRECAPTURE_TRIGGER |-> "IDLE", SCENE_MODE |-> "DISABLED",
   AE_EXPOSURE_COMPENSATION |-> 0, JPEG_ORIENTATION |-> 0, JPEG_QUALITY |-> 90,
   JPEG_THUMBNAIL_QUALITY |-> 90, JPEG_THUMBNAIL_SIZE |-> <<240, 180>>]
TemplateKeys == DOMAIN TemplateValues \cup {"AF_TRIGGER", "AE_TARGET_FPS_RANGE", "CAPTURE_INTENT"}

\* The values a key may take: initDefaultCharsKeys, and for controls of the webcam
\* initCameraControlsCharsKeys.
AvailableValues ==
  [ABERRATION_MODE |-> {"OFF"}, VIDEO_STABILIZATION_MODE |-> {"OFF"}, EFFECT_MODE |-> {"OFF"},
   OPTICAL_STABILIZATION_MODE |-> {"OFF"}, NOISE_REDUCTION_MODE |-> {"OFF"},
   TEST_PATTERN_MODE |-> {"OFF"}, FACE_DETECT_MODE |-> {"OFF"}, HOT_PIXEL_MAP_MODE |-> {"OFF"},
   AE_ANTIBANDING_MODE |-> {"AUTO"}, AWB_MODE |-> {"AUTO"}, AE_MODE |-> {"ON"},
   CONTROL_MODE |-> {"OFF", "AUTO"}, JPEG_THUMBNAIL_SIZE |-> ThumbnailSizes]
AvailableControls ==
  [AE_EXPOSURE_COMPENSATION |-> 0..0, AF_MODE |-> {"AUTO", "OFF"}, SCENE_MODE |-> {"DISABLED"}]

\* What fillCaptureResult adds.
FilledKeys ==
  {"AE_STATE", "AE_LOCK", "AF_STATE", "AWB_STATE", "AWB_LOCK", "FLASH_STATE", "PIPELINE_DEPTH",
   "CROP_REGION", "TIMESTAMP", "LENS_SHADING_MAP_MODE", "SCENE_FLICKER"}

---------------------------------------------------------------------------
(* Templates. *)

\* initDefaultRequests: 30 frames per second if a format has them, else the most.
DefaultFps(fmts) ==
  LET rates == UNION {fmts[i].rates : i \in DOMAIN fmts}
  IN  IF 30 \in rates THEN 30 ELSE CHOOSE r \in rates : \A q \in rates : q <= r

RequestTemplates ==
  {"PREVIEW", "STILL_CAPTURE", "VIDEO_RECORD", "VIDEO_SNAPSHOT", "ZERO_SHUTTER_LAG", "MANUAL"}

DefaultRange(fps) == <<fps \div 2, fps>>

DefaultRequest(fmts, type) ==
  [intent |-> type, fps |-> DefaultRange(DefaultFps(fmts)), af |-> "IDLE",
   keys |-> TemplateKeys]

\* constructDefaultRequestSettingsRaw: four templates, for the others an error.
ConstructDefaultRequestSettings(fmts, type) ==
  IF type \in {"MANUAL", "ZERO_SHUTTER_LAG"} THEN None ELSE DefaultRequest(fmts, type)

---------------------------------------------------------------------------
(* The size of a JPEG buffer. *)

CameraBlob           == 1
MinJpegBufferSize    == 256 + CameraBlob
MaxJpegResolution(fmts) ==
  LET sizes == {fmts[i].size : i \in DOMAIN fmts}
  IN  CHOOSE s \in sizes : \A t \in sizes : Area(t) <= Area(s)

\* getJpegBufferSize: -1 for BAD_VALUE.
GetJpegBufferSize(size) ==
  IF MaxJpegSize <= MinJpegBufferSize THEN -1
  ELSE LET most == Area(MaxJpegResolution(mSupportedFormats))
           n    == (Area(size) * (MaxJpegSize - MinJpegBufferSize)) \div most + MinJpegBufferSize
       IN  IF n > MaxJpegSize THEN MaxJpegSize ELSE n

---------------------------------------------------------------------------
(* The planes of a YUV buffer. *)

\* YCbCrLayout, as gralloc may give it: where the chroma samples begin and their step.
Layout(cb, cr, step) == [cb |-> cb, cr |-> cr, step |-> step]
Layouts == {Layout(0, 1, 2), Layout(1, 0, 2), Layout(0, 4, 1), Layout(4, 0, 1), Layout(0, 4, 2)}

\* getFourCcFromLayout
FourCc(out) ==
  IF out.cb - out.cr \in {-1, 1} /\ out.step = 2 THEN IF out.cb > out.cr THEN "NV21" ELSE "NV12"
  ELSE IF out.step = 1 THEN IF out.cb > out.cr THEN "YVU420" ELSE "YUV420"
  ELSE "FLEX"

\* formatConvertLocked: which sample libyuv writes first at which place.  NV21 begins
\* with cr, NV12 with cb.
Written(out) ==
  IF FourCc(out) = "NV21" THEN [a \in {out.cr, out.cr + 1} |-> IF a = out.cr THEN "cr" ELSE "cb"]
  ELSE IF FourCc(out) = "NV12" THEN [a \in {out.cb, out.cb + 1} |-> IF a = out.cb THEN "cb" ELSE "cr"]
  ELSE [a \in {out.cb, out.cr} |-> IF a = out.cb THEN "cb" ELSE "cr"]

---------------------------------------------------------------------------
(* configureStreams, and 3_4, which tells the size of the JPEG buffers. *)

\* Usage and format of the kinds of streams; a preview's format is the session's to say.
Override(s) == [preview |-> "YV12", video |-> "YCBCR_420_888", still |-> "BLOB"][s[1]]

\* isSupported: the formats and sizes a stream may have.
IsSupported(s) ==
  /\ s[1] \in {"preview", "video", "still"}
  /\ \E i \in DOMAIN mSupportedFormats : mSupportedFormats[i].size = s[2]

Streams == Kinds \X {mSupportedFormats[i].size : i \in DOMAIN mSupportedFormats}
Stills(streams) == {s \in streams : s[1] = "still"}

\* A stream that stays keeps its record; blobBufferSize is 0 but for 3.4.
Configured(streams, blobBufferSize) ==
  /\ streams # {} /\ \A s \in streams : IsSupported(s)
  /\ Cardinality(Stills(streams)) <= 1 /\ Cardinality(streams \ Stills(streams)) <= 2
  /\ requests = <<>> /\ ~stopped
  /\ mStreamMap' = [s \in streams |-> Override(s)]
  /\ mBlobBufferSize' = blobBufferSize
  /\ mFirstRequest' = TRUE
  /\ UNCHANGED <<mSupportedFormats, mLatestReqSetting, mAfTrigger, requests, stopped, sent, want, lost,
                 result, requestCount>>

\* Framework up to 3.3: it works the size out the same way.
ConfigureStreams ==
  \E streams \in SUBSET Streams :
    /\ Cardinality(streams) <= MaxStreams
    /\ capacity' = [s \in Stills(streams) |-> GetJpegBufferSize(s[2])]
    /\ Configured(streams, 0)

BlobBufferSize(streams, size) == IF Stills(streams) = {} THEN 0 ELSE size

ConfigureStreams_3_4 ==
  \E streams \in SUBSET Streams, size \in BufferSizes :
    /\ Cardinality(streams) <= MaxStreams
    /\ capacity' = [s \in Stills(streams) |-> size]
    /\ Configured(streams, BlobBufferSize(streams, size))

---------------------------------------------------------------------------
(* Requests. *)

\* Settings from a template, with a trigger.
Settings ==
  {[DefaultRequest(mSupportedFormats, "STILL_CAPTURE") EXCEPT !.af = a] : a \in {"IDLE", "START", "CANCEL"}}

Triggered(af, setting) ==
  IF setting.af = "IDLE" THEN af ELSE setting.af = "START"

\* processOneCaptureRequest: settings replace the latest before the request is looked
\* at any further; none repeat them, but not in the first request.
ProcessOneCaptureRequest ==
  /\ requestCount < MaxRequests /\ mStreamMap # <<>> /\ ~stopped
  /\ requestCount' = requestCount + 1
  /\ \E setting \in Settings \cup {None}, buffers \in SUBSET DOMAIN mStreamMap :
       LET latest   == IF setting = None THEN mLatestReqSetting ELSE setting
           accepted == buffers # {} /\ ~(mFirstRequest /\ setting = None)
       IN  /\ mLatestReqSetting' = latest
           /\ sent' = IF setting = None THEN sent ELSE setting
           /\ IF ~accepted THEN UNCHANGED <<requests, mFirstRequest, want>>
              ELSE /\ want' = Triggered(want, sent')
                   /\ requests' = Append(requests, [setting |-> latest, buffers |-> buffers,
                                                    sent |-> sent', want |-> want'])
                   /\ mFirstRequest' = FALSE
  /\ UNCHANGED <<mSupportedFormats, mStreamMap, mBlobBufferSize, mAfTrigger, stopped, capacity,
                 lost, result>>

---------------------------------------------------------------------------
(* The OutputThread. *)

\* createJpegLocked: the room for the code, which the trailer shares.
MaxJpegCodeSize(s) == IF mBlobBufferSize = 0 THEN GetJpegBufferSize(s[2]) ELSE mBlobBufferSize

\* Keys it cannot do without.
JpegKeys == {"JPEG_QUALITY", "JPEG_THUMBNAIL_QUALITY", "JPEG_THUMBNAIL_SIZE"}

\* encodeJpegYU12: a code that outgrows the room ends in an error, but not when only the
\* last flush does not fit: what error_exit takes note of is never looked at.
Encodings(code, room) == IF code <= room THEN {code} ELSE {-1, room}

Jpeg(s) == [trailer |-> MaxJpegCodeSize(s) - CameraBlob, buffer |-> capacity[s]]
CreateJpegFails(setting, s, encoded) ==
  ~(JpegKeys \subseteq setting.keys) \/ MaxJpegCodeSize(s) < 0 \/ encoded = -1

\* Mutant: the trigger of the request that came last.
LatestTrigger(req) == Triggered(mAfTrigger, mLatestReqSetting)

\* fillCaptureResult: the trigger of the request that is answered.
AnsweredTrigger(req) == Triggered(mAfTrigger, req.setting)

\* The buffers of a request that take a JPEG, and what the encoder may make of each.
BlobBuffers(req) == {s \in req.buffers : mStreamMap[s] = "BLOB"}
JpegsOf(req) ==
  [BlobBuffers(req) -> UNION {Encodings(code, MaxJpegCodeSize(s)) :
                                code \in {100, MaxJpegSize + 1}, s \in BlobBuffers(req)}]

\* One buffer that cannot be filled stops the thread.
FillFails(req, encoded, out) ==
  \/ \E s \in BlobBuffers(req) : CreateJpegFails(req.setting, s, encoded[s])
  \/ req.buffers # BlobBuffers(req) /\ FourCc(out) = "FLEX"

\* processCaptureResult, with the AF trigger as fillCaptureResult leaves it.
CaptureResult(req, trigger, out) ==
  [setting |-> req.setting, sent |-> req.sent, want |-> req.want,
   keys |-> req.setting.keys \cup FilledKeys,
   afState |-> IF trigger THEN "FOCUSED_LOCKED" ELSE "INACTIVE",
   jpegs |-> {Jpeg(s) : s \in BlobBuffers(req)},
   layout |-> IF req.buffers = BlobBuffers(req) THEN None ELSE out]

\* threadLoop, for a frame that is all right: every buffer is filled, then the result is made.
OutputResult ==
  /\ requests # <<>> /\ ~stopped
  /\ \E encoded \in JpegsOf(Head(requests)), out \in Layouts :
       IF FillFails(Head(requests), encoded, out)
         THEN stopped' = TRUE /\ UNCHANGED <<mAfTrigger, requests, result>>
         ELSE /\ mAfTrigger' = AnsweredTrigger(Head(requests))
              /\ requests' = Tail(requests)
              /\ result' = CaptureResult(Head(requests), mAfTrigger', out)
              /\ UNCHANGED stopped
  /\ UNCHANGED <<mSupportedFormats, mStreamMap, mBlobBufferSize, mFirstRequest, mLatestReqSetting,
                 capacity, sent, want, lost, requestCount>>

\* processCaptureRequestError, for a frame that cannot be decoded: no metadata, and a
\* trigger of the request is not taken note of.
OutputError ==
  /\ requests # <<>> /\ ~stopped
  /\ requests' = Tail(requests)
  /\ lost' = (lost \/ Head(requests).setting.af # "IDLE")
  /\ UNCHANGED <<mSupportedFormats, mStreamMap, mBlobBufferSize, mFirstRequest, mLatestReqSetting,
                 mAfTrigger, stopped, capacity, sent, want, result, requestCount>>

---------------------------------------------------------------------------
Init ==
  /\ mSupportedFormats \in Offers
  /\ mStreamMap = <<>> /\ mBlobBufferSize = 0 /\ capacity = <<>>
  /\ mFirstRequest = FALSE /\ mLatestReqSetting = None /\ mAfTrigger = FALSE
  /\ requests = <<>> /\ stopped = FALSE
  /\ sent = None /\ want = FALSE /\ lost = FALSE /\ result = None /\ requestCount = 0

Next ==
  ConfigureStreams \/ ConfigureStreams_3_4 \/ ProcessOneCaptureRequest \/ OutputResult \/ OutputError

Spec == Init /\ [][Next]_captureVars

---------------------------------------------------------------------------
TypeOK ==
  /\ mBlobBufferSize \in {0} \cup BufferSizes
  /\ {mFirstRequest, mAfTrigger, stopped, want, lost} \subseteq BOOLEAN
  /\ requestCount \in 0..MaxRequests /\ Len(requests) <= requestCount

\* The rates of every template are among those the device promises
\* (initOutputCharsKeys), its keys among those a request may have, and its values among
\* those the device has for them.
TemplatesPromised ==
  /\ \A k \in DOMAIN TemplateValues :
       /\ k \in DOMAIN AvailableValues => TemplateValues[k] \in AvailableValues[k]
       /\ k \in DOMAIN AvailableControls => TemplateValues[k] \in AvailableControls[k]
  /\ \A type \in RequestTemplates :
       LET md == ConstructDefaultRequestSettings(mSupportedFormats, type)
       IN  md # None => /\ md.fps \in FpsRanges(mSupportedFormats)
                        /\ md.keys \subseteq AvailableRequestKeys

\* A result carries the settings last sent with or before its request, though
\* others have been sent since, and the AF state is what the triggers up to the request
\* ask for, unless a trigger went with a malformed frame; and it has every key that is
\* promised of results.
SettingsFollow ==
  result # None =>
    /\ result.setting = result.sent
    /\ AvailableResultKeys \subseteq result.keys
    /\ lost \/ result.afState = (IF result.want THEN "FOCUSED_LOCKED" ELSE "INACTIVE")

\* The framework finds the trailer at the end of its buffer, whichever way the size of
\* the buffer was agreed on, now and in configurations before; and the chroma samples
\* are where the layout of the buffer has them.
PicturesReadable ==
  result # None =>
    /\ \A j \in result.jpegs : j.trailer = j.buffer - CameraBlob /\ j.trailer >= 0
    /\ result.layout # None =>
         /\ Written(result.layout)[result.layout.cb] = "cb"
         /\ Written(result.layout)[result.layout.cr] = "cr"

\* What a capture carries is what its request asked for.
CapturesRight == TemplatesPromised /\ SettingsFollow /\ PicturesReadable
=============================================================================
