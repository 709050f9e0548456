------------------------------ MODULE Services ------------------------------
(***************************************************************************)
(* The parts that do not share state, side by side: each initial state     *)
(* picks one of them, and the others stand still in a state of theirs.     *)
(* Each part is an instance of its module; the parameters of the modules   *)
(* are parameters here, renamed where two have the same name.              *)
(***************************************************************************)
EXTENDS PowerHint

CONSTANTS
  BuiltIn, HotPlugged, MaxChanges,                           \* LegacyProvider
  Nodes, Internal, MaxNodePlugs,                             \* ExternalProvider
  MaxBufReqs,                                                \* ExtBufferRequest
  Webcams, ConfigFiles, MaxWebcamPlugs,                      \* ExtCameraDevice
  Offers, MaxJpegSize, BufferSizes, Kinds, MaxStreams,
  MaxCaptures,                                               \* ExtCamCapture
  Clients, MaxGnssCalls,                                     \* GnssService
  MaxWakes, MaxWakeCallbacks, Repeats,                       \* GnssWakelock
  Prns, SvsCount, MaxBatch, MaxReports,                      \* GnssReports
  Frameworks, Fences, Constellations, Blacklists, Intervals,
  MaxExtCalls, MaxExtReports,                                \* GnssExtensions
  MaxOps, MaxFrames, MaxCancels,                             \* FaceService
  MaxHandlers, MaxConnCalls, MaxTimers, MaxConnEvents,       \* LogConnections
  MaxClients, MaxExpEvents,                                  \* ExceptionCollector
  ConfFiles, Stations, Starts, Desense, Pamd, AfLists, Spacing, DriverUp,
  Thresholds, MaxFmCalls, MaxExtras, MaxErrors,              \* FmReceiver
  MaxAcquires                                                \* PowerScene

ASSUME BoundsAssumption ==
  {MaxOps, SvsCount, MaxBatch, MaxHandlers, MaxTimers, MaxCaptures, MaxExtCalls, MaxExtReports,
   MaxFmCalls, MaxExtras, MaxErrors} \subseteq Nat

\* Clients of the GNSS services are numbered from 1: 0 stands for none.
ASSUME ClientsAssumption == 0 \notin Clients

\* Satellites of the old interface have numbers.
ASSUME PrnsAssumption == Prns \subseteq Int

\* A blacklist is a vector of constellations and numbers of satellites.
ASSUME BlacklistsAssumption ==
  Constellations \subseteq Int /\ Blacklists \subseteq Seq(Constellations \X Int)

\* The frameworks that come and go have numbers from 1.
ASSUME FrameworksAssumption == 1 \in Frameworks

\* Frequencies are bounded; stations, and where a seek or a scan starts, are on channels.
Apart(f, g) == f < g => f + Spacing <= g
ASSUME ChannelsAssumption ==
  /\ Stations \subseteq Nat /\ \E top \in Stations \cup {0} : Stations \subseteq 1..top
  /\ Starts \subseteq Nat /\ Spacing \in Nat \ {0} /\ Spacing < 8750
  /\ \A s \in Stations, f \in Stations \cup Starts \cup {8750} : Apart(s, f) /\ Apart(f, s)

\* Frequencies are numbers of 16 bits (uint16_t), thresholds are any.
ASSUME FrequenciesAssumption ==
  /\ Stations \subseteq 0..(2^16 - 1) /\ AfLists \subseteq Seq(0..(2^16 - 1))
  /\ Thresholds \subseteq Int

\* The driver has a level for each alternative frequency (uint16_t).
ASSUME LevelsAssumption ==
  \A list \in AfLists : \A i \in DOMAIN list : list[i] # 0 => Pamd[list[i]] \in Nat

\* A webcam that can be opened has formats, each of some size and with some rates; a JPEG
\* buffer has a size.
ASSUME OffersAssumption ==
  \A fmts \in Offers :
    /\ fmts \in Seq([fourcc : {"MJPEG", "Z16"}, size : (Nat \ {0}) \X (Nat \ {0}), rates : SUBSET Nat])
    /\ fmts # <<>>
    /\ \A i \in DOMAIN fmts : fmts[i].rates # {} /\ IsFiniteSet(fmts[i].rates)
ASSUME JpegAssumption == MaxJpegSize \in Nat /\ BufferSizes \subseteq Nat \ {0}

VARIABLES
  part,
  mCameraStatusMap, mCameraIds, mCameraDeviceNames, mOpenLegacySupported, mCallbacks, view, listed,
  unsure, changes,
  dev, events, thread, usbStatusMap, usbCallbacks, setter, usbView, gap, unopened, raced, usbPlugs,
  mRequestingBuffer, mBufferReqs, mPendingReturnBufferReqs, mHalBufferReqs, output, asker, lent,
  answered, misled, device, exitPending, nextRequest,
  webcam, mCfg, plugged, plugs, mInitialized, mInitFailed, mCameraCharacteristics,
  mSupportedFormats, mCroppingType, opening, deviceSession, mStreams, mV4l2StreamingFmt,
  mYu12Frame, mIntermediateBuffers,
  release, version, gnssAlive, handled, gnssLinked, dropping, sGnssCbIface, extensions, extensionCb,
  mIsActive, hal, sCapabilitiesCached, told, reporting, sFlpSupportsBatching, gnssCalls,
  wakeRelease, wakeCallback, callbacks, wants, sWakelockHeld, pc, held, alone, disturbed, requests,
  service, registered, measuring, oldClocks, input, delivered, reports,
  ops, frames, cancels, faceQueue, looper, mCancelled, sIsAlgoInitialized, sToken,
  mClientCallback, running, algo, notice, faceAnswers, dropped, late,
  slot, kind, conn, gone, sockets, timers, handlerTimers, connRequests, answers, closing,
  polling_hdl, current, ready, phase, timed, due, dueHandlers, waiting, connTold, misused,
  revived, connCalls, connEvents,
  watched, expCallback, expClients, living, sem, expPc, report, retry_num, phoneNum, up, fd,
  stream, readable, et, config, value_old, expEvents, tries, expTold,
  captureFormats, mStreamMap, mBlobBufferSize, mFirstRequest, mLatestReqSetting, mAfTrigger,
  captureRequests, stopped, capacity, sent, want, lost, result, requestCount,
  bridge, cfg_data, fmOpened, chip, cur_freq, scan_stop, rds, fmSearch, fmResult, asked, settled,
  fmCalls, extras, fmErrors,
  extKind, implemented, extMade, extHanded, extRunning, extCb, extLatest,
  mBlacklistedConstellationSet, mBlacklistedSourceSet, extSetting, listSet, extFences, extTold,
  extCrashed, extCalls, extReports,
  mCount, mService, mHandler, monitor, posted, dispatched, server, holding, scene, untimed,
  timedHolds, crossed, acquires

legacyVars == <<mCameraStatusMap, mCameraIds, mCameraDeviceNames, mOpenLegacySupported, mCallbacks,
                view, listed, unsure, changes>>
usbVars    == <<dev, events, thread, usbStatusMap, usbCallbacks, setter, usbView, gap, unopened,
                raced, usbPlugs>>
bufReqVars == <<mRequestingBuffer, mBufferReqs, mPendingReturnBufferReqs, mHalBufferReqs, output,
                asker, lent, answered, misled, device, exitPending, nextRequest>>
webcamVars == <<webcam, mCfg, plugged, plugs, mInitialized, mInitFailed, mCameraCharacteristics,
                mSupportedFormats, mCroppingType, opening, deviceSession, mStreams,
                mV4l2StreamingFmt, mYu12Frame, mIntermediateBuffers>>
gnssVars   == <<release, version, gnssAlive, handled, gnssLinked, dropping, sGnssCbIface, extensions,
                extensionCb, mIsActive, hal, sCapabilitiesCached, told, reporting,
                sFlpSupportsBatching, gnssCalls>>
wakeVars   == <<wakeRelease, wakeCallback, callbacks, wants, sWakelockHeld, pc, held, alone,
                disturbed, requests>>
reportVars == <<service, registered, measuring, oldClocks, input, delivered, reports>>
faceVars   == <<ops, frames, cancels, faceQueue, looper, mCancelled, sIsAlgoInitialized, sToken,
                mClientCallback, running, algo, notice, faceAnswers, dropped, late>>
connVars   == <<slot, kind, conn, gone, sockets, timers, handlerTimers, connRequests, answers,
                closing, polling_hdl, current, ready, phase, timed, due, dueHandlers, waiting,
                connTold, misused, revived, connCalls, connEvents>>
expVars    == <<watched, expCallback, expClients, living, sem, expPc, report, retry_num,
                phoneNum, up, fd, stream, readable, et, config, value_old, expEvents, tries,
                expTold>>
captureVars == <<captureFormats, mStreamMap, mBlobBufferSize, mFirstRequest, mLatestReqSetting,
                 mAfTrigger, captureRequests, stopped, capacity, sent, want, lost, result,
                 requestCount>>
fmVars     == <<bridge, cfg_data, fmOpened, chip, cur_freq, scan_stop, rds, fmSearch, fmResult,
                asked, settled, fmCalls, extras, fmErrors>>
extVars    == <<extKind, implemented, extMade, extHanded, extRunning, extCb, extLatest,
                mBlacklistedConstellationSet, mBlacklistedSourceSet, extSetting, listSet,
                extFences, extTold, extCrashed, extCalls, extReports>>
sceneVars  == <<mCount, mService, mHandler, monitor, posted, dispatched, server, holding, scene,
                untimed, timedHolds, crossed, acquires>>

suiteVars  == <<part, vars, legacyVars, usbVars, bufReqVars, webcamVars, gnssVars, wakeVars,
                reportVars, faceVars, connVars, expVars, captureVars, fmVars, extVars, sceneVars>>

---------------------------------------------------------------------------
(* The instances. *)

Legacy  == INSTANCE LegacyProvider
Usb     == INSTANCE ExternalProvider WITH
             MaxPlugs <- MaxNodePlugs, mCameraStatusMap <- usbStatusMap,
             mCallbacks <- usbCallbacks, view <- usbView, plugs <- usbPlugs
BufReq  == INSTANCE ExtBufferRequest WITH MaxRequests <- MaxBufReqs
Webcam  == INSTANCE ExtCameraDevice WITH MaxPlugs <- MaxWebcamPlugs
Capture == INSTANCE ExtCamCapture WITH
             MaxRequests <- MaxCaptures, mSupportedFormats <- captureFormats,
             requests <- captureRequests
Gnss    == INSTANCE GnssService WITH
             MaxCalls <- MaxGnssCalls, alive <- gnssAlive, linked <- gnssLinked,
             calls <- gnssCalls
Wake    == INSTANCE GnssWakelock WITH
             MaxRequests <- MaxWakes, MaxCallbacks <- MaxWakeCallbacks,
             release <- wakeRelease, sGnssCbIface <- wakeCallback
Reports == INSTANCE GnssReports
\* The extensions of the GNSS services that are handed out on demand.
Ext     == INSTANCE GnssExtensions WITH
             MaxCalls <- MaxExtCalls, MaxReports <- MaxExtReports, kind <- extKind,
             made <- extMade, handed <- extHanded, running <- extRunning, told <- extTold,
             latest <- extLatest, fences <- extFences, crashed <- extCrashed,
             setting <- extSetting
Face    == INSTANCE FaceService WITH queue <- faceQueue, answers <- faceAnswers
Conn    == INSTANCE LogConnections WITH
             MaxCalls <- MaxConnCalls, MaxEvents <- MaxConnEvents, requests <- connRequests,
             told <- connTold, calls <- connCalls, events <- connEvents
Exp     == INSTANCE ExceptionCollector WITH
             MaxEvents <- MaxExpEvents, mCallback <- expCallback, pc <- expPc,
             told <- expTold, events <- expEvents, clients <- expClients
Fm      == INSTANCE FmReceiver WITH
             MaxCalls <- MaxFmCalls, opened <- fmOpened, search <- fmSearch,
             calls <- fmCalls, errors <- fmErrors
Scene   == INSTANCE PowerScene WITH timed <- timedHolds

---------------------------------------------------------------------------
Parts ==
  {"power", "legacy", "usb", "bufReq", "webcam", "gnss", "wake", "reports", "face", "conn",
   "exceptions", "capture", "fm", "extensions", "scene"}

SuiteInit ==
  /\ part \in Parts
  /\ Init
  /\ Legacy!Init /\ (part # "legacy" => \A c \in BuiltIn : mOpenLegacySupported[c])
  /\ Usb!Init /\ (part # "usb" => dev = {})
  /\ BufReq!Init
  /\ Webcam!Init /\ (part # "webcam" => webcam = {} /\ ~mCfg.depthEnabled)
  /\ Gnss!Init /\ (part # "gnss" => release = "2.0" /\ version = "2.0")
  /\ Wake!Init /\ (part # "wake" => wakeRelease = "2.0")
  /\ Reports!Init /\ (part # "reports" => service = "2.0" /\ registered = {})
  /\ Face!Init
  /\ Conn!Init
  /\ Exp!Init /\ (part # "exceptions" => watched = "objwcn")
  /\ Capture!Init /\ (part # "capture" => Len(captureFormats) = 1)
  /\ Fm!Init /\ (part # "fm" => bridge = "jni" /\ cfg_data.band = 0)
  /\ Ext!Init /\ (part # "extensions" => extKind = <<"2.0", "xtra">> /\ ~implemented)
  /\ Scene!Init /\ (part # "scene" => mHandler)

Still(p) ==
  /\ IF p = "power" THEN TRUE ELSE UNCHANGED vars
  /\ IF p = "legacy" THEN TRUE ELSE UNCHANGED legacyVars
  /\ IF p = "usb" THEN TRUE ELSE UNCHANGED usbVars
  /\ IF p = "bufReq" THEN TRUE ELSE UNCHANGED bufReqVars
  /\ IF p = "webcam" THEN TRUE ELSE UNCHANGED webcamVars
  /\ IF p = "gnss" THEN TRUE ELSE UNCHANGED gnssVars
  /\ IF p = "wake" THEN TRUE ELSE UNCHANGED wakeVars
  /\ IF p = "reports" THEN TRUE ELSE UNCHANGED reportVars
  /\ IF p = "face" THEN TRUE ELSE UNCHANGED faceVars
  /\ IF p = "conn" THEN TRUE ELSE UNCHANGED connVars
  /\ IF p = "exceptions" THEN TRUE ELSE UNCHANGED expVars
  /\ IF p = "capture" THEN TRUE ELSE UNCHANGED captureVars
  /\ IF p = "fm" THEN TRUE ELSE UNCHANGED fmVars
  /\ IF p = "extensions" THEN TRUE ELSE UNCHANGED extVars
  /\ IF p = "scene" THEN TRUE ELSE UNCHANGED sceneVars

SuiteNext ==
  /\ UNCHANGED part /\ Still(part)
  /\ \/ part = "power" /\ Next
     \/ part = "legacy" /\ Legacy!Next
     \/ part = "usb" /\ Usb!Next
     \/ part = "bufReq" /\ BufReq!Next
     \/ part = "webcam" /\ Webcam!Next
     \/ part = "gnss" /\ Gnss!Next
     \/ part = "wake" /\ Wake!Next
     \/ part = "reports" /\ Reports!Next
     \/ part = "face" /\ Face!Next
     \/ part = "conn" /\ Conn!Next
     \/ part = "exceptions" /\ Exp!Next
     \/ part = "capture" /\ Capture!Next
     \/ part = "fm" /\ Fm!Next
     \/ part = "extensions" /\ Ext!Next
     \/ part = "scene" /\ Scene!Next

SuiteSpec == SuiteInit /\ [][SuiteNext]_suiteVars

---------------------------------------------------------------------------
(* The parts that stand still are in initial states, which their own behaviours check. *)

PartsTypeOK ==
  CASE part = "power"      -> TypeOK
    [] part = "legacy"     -> Legacy!TypeOK
    [] part = "usb"        -> Usb!TypeOK
    [] part = "bufReq"     -> BufReq!TypeOK
    [] part = "webcam"     -> Webcam!TypeOK
    [] part = "gnss"       -> Gnss!TypeOK
    [] part = "wake"       -> Wake!TypeOK
    [] part = "reports"    -> Reports!TypeOK
    [] part = "face"       -> Face!TypeOK
    [] part = "conn"       -> Conn!TypeOK
    [] part = "exceptions" -> Exp!TypeOK
    [] part = "capture"    -> Capture!TypeOK
    [] part = "fm"         -> Fm!TypeOK
    [] part = "extensions" -> Ext!TypeOK
    [] part = "scene"      -> Scene!TypeOK

\* What the camera framework has been told of the cameras is what the two providers
\* have: LegacyProvider.ServiceAgrees and ExternalProvider.SettledViewExact.
ProvidersAgree ==
  /\ part = "legacy" => Legacy!ServiceAgrees
  /\ part = "usb" => Usb!SettledViewExact

\* Until a late notify misleads a wait, each buffer request gets the answer to it:
\* ExtBufferRequest.
AnswersMatch == part = "bufReq" => BufReq!AnswersMatch

\* What a webcam's characteristics promise is what its session accepts and, while its
\* frames are decoded, its pictures are cut to: ExtCameraDevice.
PromisesKept == part = "webcam" => Webcam!PromisesKept

\* "Assume we can convert any V4L2 format": whatever format a session chose, its streams
\* get pictures of the webcam: ExtCameraDevice.
AnyFormatConverted == part = "webcam" => Webcam!AnyFormatConverted

\* The framework's interest, the wakelock and the reports of positions follow the
\* clients and engines there are: GnssService.GnssClients,
\* GnssWakelock.WakelockFollows and GnssReports.ReportsConverted; what its extensions have
\* been set to is what was asked for: GnssExtensions.ExtensionsKept.
GnssKept ==
  /\ part = "gnss" => Gnss!GnssClients
  /\ part = "wake" => Wake!WakelockFollows
  /\ part = "reports" => Reports!ReportsConverted
  /\ part = "extensions" => Ext!ExtensionsKept

\* After a cancellation has returned the framework is told at most one late result, and each
\* camera frame is given back once: FaceService.
FaceAnswers == part = "face" => Face!FaceAnswers

\* No deleted handler is used, a socket that waits to be opened has a timer, the end of a
\* client is told once and the close of a connected socket has its answer: LogConnections.
ConnectionsKept == part = "conn" => Conn!ConnectionsKept

\* A report is given up after its tries, unless it is a version told again; the phones'
\* numbers are told once, a configuration when it differs: ExceptionCollector.
ReportsAccounted == part = "exceptions" => Exp!ReportsAccounted

\* What a capture carries is what its request asked for: ExtCamCapture.
CapturesRight == part = "capture" => Capture!CapturesRight

\* Below a driver that takes directions as the library does a scan gives what can be received
\* and a seek the next station; whatever the driver, a scan that met a stop turns back, if
\* its loop saw the stop or it has found something: FmReceiver.
ReceiverKept == part = "fm" => Fm!ReceiverKept

\* "dir; // 0: up; 1: down": below a driver that takes the directions by the names of fm.h, a
\* seek gives the next station in the direction asked for: FmReceiver.
SeeksAsNamed == part = "fm" => Fm!SeekExact

\* The service holds a client's scene exactly while the client counts a hold: PowerScene.
HoldsKept == part = "scene" => Scene!HoldsKept
=============================================================================
