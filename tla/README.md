# Verification project for the vendor interface services

The repository holds the vendor side of a phone's hardware services: HIDL services for the
camera, FM radio, GNSS, power, face recognition, modem logs and exceptions, and a number of thin
wrappers. This directory holds TLA+ models of those that have state and ordering worth checking,
the TLC configurations that check them, and TLAPS proofs. File names below are relative to `src/`.

    tlc -workers 2 -config ExtCamSession_safety.cfg MCExtCamSession.tla
    tlapm ExtCamSessionProofs.tla

Contents: 1 the system, 2 the modules and the code, 3 the runs, 4 fairness and assumptions about
the surroundings, 5 what is proved, 6 what the models found, 7 what is not modelled, 8 the plan.

## 1. The system

Each service is a process (or a library loaded by one) that registers a HIDL interface. A client's
call arrives on a binder thread; `oneway` calls return to the client at once. The service calls
down into a vendor library or a device node and calls back into its client through a callback
interface. The death of a client is reported on a binder thread of its own. Apart from the
camera's versions, which inherit from each other, the services do not interact: nothing is shared
between two of them but the clients. The models therefore stand side by side, one per part,
and compose within a service.

| part | state it keeps | operations | what is hard about it | what makes it correct |
|---|---|---|---|---|
| External camera session, `camera/device/3.4/default/ExternalCameraDeviceSession.cpp` | V4L2 stream and its buffer count, list of requests, frames in flight, imported buffers, closed flag | configureStreams, processCaptureRequest, flush, close, dumpState; the OutputThread | two threads hand V4L2 frames to each other; waits with timeouts; failing ioctls; a close or flush at any time | no buffer lost or used twice; every request answered exactly once, in order; close returns |
| External camera device and its image pipeline, the same file, `ExternalCameraDevice.cpp`, `ExternalCameraUtils.cpp` | formats of the webcam, characteristics, configuration file, sizes of the intermediate buffers, latest settings | getCameraCharacteristics, open, configureStreams, cropping and scaling, default settings, JPEG and its trailer, metadata of results | the webcam comes and goes; characteristics are read once; integer arithmetic on ratios and sizes | what the characteristics promise the session accepts, and delivers if the mode it chose is MJPEG |
| Buffer request thread, `camera/device/3.5/default/ExternalCameraDeviceSession.cpp` | the one request for buffers under way | requestBufferStart, waitForBufferRequestDone, the thread | a wait that times out, the answer of which still comes; a notify outside the lock | an answer belongs to the request that waits for it |
| Session over a camera HAL, `camera/device/3.2/default/CameraDeviceSession.cpp`, inherited by 3.3, 3.4 and 3.5 | in-flight buffers and settings, imported buffers, overrides of metadata, batches | the same interface; the HAL's notify and processCaptureResult; requestStreamBuffers of 3.5 | the HAL answers on its own threads, in pieces; batches are completed, flushed and removed under three kinds of locks | answers reach the framework once, in order, under the right frame; records and buffers go when no one needs them |
| Camera provider, `camera/provider/2.4` | status and names of each camera | setCallback, getCameraIdList, hot-plug callbacks of a module, inotify events of /dev | hot-plug against registration of the callback; events in /dev between a scan and a watch | what the camera service has been told is what there is |
| FM tuner, `broadcastradio/2.0/default` | the session last opened, each session's program, task queue and flags; the bridge's device index; the chip | openSession, tune, scan, step, cancel, startProgramListUpdates, setParameters, close | binder threads, a worker and an RDS thread per session, one chip with global state underneath | only the open session drives the chip; the chip, the session and the client agree; calls return |
| FM receiver and its bridges, `broadcastradio/2.0/jni`, `fmr_core.cpp`, `common.cpp` | configuration, current frequency, stop flag, RDS data | power, tune, seek, scan, stop, alternative frequencies, text, settings | a stop during a scan; a chip that fails; units of frequency converted at each border | a scan finds what can be received; a stop turns back |
| Power hints, `power/{2.0,3.0,4.0}/default/Power.cpp` | requests per scene, each linked to the death of its client | acquire and release by scene, serviceDied | oneway calls that outlive their sender, death notices on another thread | a hint is on exactly while someone holds it; a dead client's hints end |
| Power client library, `power/power_api` | proxy of the service; count of each scene, timed releases | acquire, acquire with timeout, release, finalize, service death | timers against explicit release, death between a check and a use | the service holds a scene exactly while its client counts a hold |
| GNSS, `gnss/2.0/default`, `gnss/1.0/default` | callbacks of three versions, capabilities, wakelock of two engines, extensions and their callbacks, blacklist | setCallback, start, stop, cleanup, getExtension*, what each extension passes on, reports | engines' threads share flags without a lock; a client dies; conversions between two interfaces | as long as nothing meets, the wakelock is held exactly while an engine wants it; a dead client is forgotten; reports mean what the HAL said |
| Face service, `face/1.0/default/ExtBiometricsFace.cpp` | request looper's queue, token, cancelled flag, callback | enroll, authenticate, process, cancel | the algorithm answers on its own thread, after a cancel too | after a cancel nothing more is told; each frame is given back once |
| Modem log connections, `cplog_connmgr/1.0/default` | sockets, handlers, timers, the poll loop's list | socketConnect, socketClose, sendCmd, events of the poll loop | binder threads change what the poll loop uses; a request pair between them | no handler used after its deletion; a lost socket is retried; a close is answered |
| Exception collector, `aprd/1.0/default` | registered callback, semaphores of five threads, modem sockets | setCallback, exceptions of modems, versions, properties | retries, restarts of the modem, reconnection | a report is lost only after its tries; configuration told as it changes |
| Log, connection manager, thermal: `log`, `connmgr`, `thermal` | a socket each | one command and its answer | a server that goes away | the answer belongs to the command |
| Thin wrappers: `soter`, `ifaa`, `enhance`, `tuistate`, `fingerprintmmi` | a library handle | one library call each | nothing two calls share | arguments and results passed on |
| `radio`, `tests`, the `.hal` files | none | none in this repository | | |

## 2. The modules and the code

| module | what it is |
|---|---|
| `ExtCamSession` | the external camera session: threads, locks, V4L2 buffers |
| `ExtCamSessionProofs` | theorems about it |
| `ExtBufferRequest` | the buffer request thread of 3.5 |
| `ExtCameraDevice`, over the operators of `ExtCamImage` | one webcam from its first use to the pictures of a session |
| `ExtCamCapture` | what a capture carries: settings, metadata, JPEG, YUV layout |
| `CameraSession`, `CameraSessionProofs` | the session over a HAL beside its batching, and theorems about it |
| `FrameDelivery`, `FrameDeliveryProofs` | abstract: what a camera session promises about the pieces of its answers, and what that gives |
| `ResultBatcher`, `ResultBatcherProofs` | the 3.2 session's batches, and the proof that they implement `FrameDelivery` |
| `LegacyProvider`, `ExternalProvider` | the two providers of cameras |
| `PowerHint` | scene hints |
| `PowerScene` | the client's count of a scene hint |
| `TunerSession`, `TunerSessionProofs` | the FM tuner service from openSession down to the driver's calls, and theorems about it |
| `FmReceiver` | the receiver below it, one call at a time, through either bridge |
| `GnssService`, `GnssWakelock`, `GnssReports`, `GnssExtensions` | the GNSS services: callbacks and death, wakelock, conversions of reports, extensions |
| `FaceService`, `LogConnections`, `ExceptionCollector` | one service each |
| `Services` | the parts that share no state side by side, and their properties joined |
| `ServicesProofs`, `ServicesModemProofs`, `ServicesCameraProofs` | theorems about the parts: power, GNSS, face and FM receiver; the modem's services; cameras and all types. Each extends the one before, for one module would keep the prover busy for an hour |
| `MC*` | values of the constants for TLC: small sets, symmetry |

Conventions. A variable has the name of the field it stands for; names of our own stand for threads'
control points and locals (`pc`, `cur`, `call`, `worker`), for the world below (`kQueue`, `drv`)
and for what the properties look back on (`results`, `got`, `told`, `stray`, `late`).
A step is the code between two points where another thread can come in: a lock, an ioctl or a
driver call, a callback, an unlocked access to shared data. A method that holds one lock throughout
is one step. Definitions used by nothing but a
comparison (`NeverExits` beside `MayExit`, `DeliveredTooEarly` beside `AllDelivered`) are changed
forms of the code: each property is known to fail when one of them takes the place of the
definition it stands beside, so no property holds whatever the code does. Every definition that
models code is listed with its lines in `PROJECT.json`, under "map".

### ExtCamSession

Threads: `api` is the binder thread inside `mInterfaceLock`, `out` the OutputThread, `dump` a
binder thread in dumpState. `mLock` is left out because the OutputThread never takes it.

| code | actions |
|---|---|
| configureStreams, configureV4l2StreamLocked, v4l2StreamOffLocked | `ConfigureStreams`, `ConfigureV4l2` with one outcome per place where it can fail (`ConfigureFailsEarly`, `-Late`, `-Streaming`, `StreamOffFails`) and `ConfigureSucceeds` |
| processOneCaptureRequest | `ProcessCaptureRequest`, `WaitIdle`, `Reconfigure`, `ImportRequest`, then `Dequeue` to `CountFrame` for dequeueV4l2FrameLocked, `RecordInflight`, `SubmitRequest` |
| OutputThread::threadLoop and the queue's functions | `TakeRequest`, `ExitIdle`, `Convert`, `DeviceError`, `SignalRequestDone` |
| processCaptureResult, processCaptureRequestError, enqueueV4l2Frame, invokeProcessCaptureResultCallback | `EnqueueFrame`, `EnqueueFails`, `UncountFrame`, `NotifyShutter`, `EraseInflight`, `LockResult`, `LockResultTimeout`, `DeliverResult`, for either thread |
| flush and OutputThread::flush | `Flush`, `FlushGoesOnEarly`, `NextError`, `FlushReturns` |
| close | `Flush(TRUE)`, `RequestExit`, `Join`, `Teardown` |
| dumpState | `DumpState`, `DumpClosed`, `DumpOpen`, `DumpThread` |
| the kernel and the cable (external) | `kQueue`, `kAllocated`, `kStreaming`, `Unplug` |

Two details matter. `mInflightFrames` and `mNumDequeuedV4l2Buffers` have locks of their own, so a
frame is uncounted in a step after the ioctl that queues it. And every wait without a predicate
may end by a wakeup meant for no one, or by its timeout (`SpuriousBufferWakeup`,
`FlushGoesOnEarly`). `Convert` either works or ends in a request or device error; what it makes of
the frame is in the next three modules.

### ExtCamImage, ExtCameraDevice, ExtCamCapture

`ExtCamImage` holds the arithmetic as operators: which modes are offered
(`getCandidateSupportedFormatsLocked`, `trimSupportedFormats`, `initSupportedFormatsLocked`), which one
a set of streams is produced from, the rectangle that is cut out and the buffers it is scaled
through. `ExtCameraDevice` is the object that uses them: `GetCameraCharacteristics`,
`Open` with its retries, `ConfigureStreams`, which keeps the whole mode it chose
(`mV4l2StreamingFmt`; `Decoded` says whether its frames will be), and `Plug`, by which the webcam is
pulled out and put back (another webcam is another device, with a node of its own). `ExtCamCapture` is a session with its settings: what of a request's
settings, the latest ones and the AF triggers ends up in a result, and where in a buffer the JPEG, its
trailer and the chroma planes are (`BlobBuffers`, `JpegsOf`, `FillFails`, `CaptureResult`). A request's settings
and the characteristics are records over fixed sets of keys. Pixels and EXIF are left out.

### ExtBufferRequest

The OutputThread (`output`) and the BufferRequestThread (`asker`) share `mRequestingBuffer`, the
buffers asked for and those to be returned. `RequestBufferStart`, `Decode`, `WaitForBufferRequestDone` and
`WaitTimesOut` are the first one's steps, `WaitForNextRequest`, `RequestStreamBuffers`, `HandOver` and
`NotifyDone` the second's. The notify is a step of its own, because it comes after the unlock. What is handed over is a pair, of
the request in `mBufferReqs` by then and the one the framework answered, so that a late answer can be told from the right one. `misled`
remembers that a notify ended a wait it was not meant for. That a condition variable may also wake without any notify is left out.

### ResultBatcher and FrameDelivery

`ResultBatcher` has the client's thread and three threads of the HAL: `shutter` and `error` call
notify(), `result` calls processCaptureResult(). A piece of an answer is a pair of a lane (the
shutter, a partial result, or the buffers of a stream) and a frame. The model keeps the deque of
batches, the `removed` flag that a late thread looks at, `mLock`, the lock of each batch and the
result lock with its timeout. A buffer carries no frame number in the code, only its position in
the batch; `BufferItems` gives it its frame by position, as sendBatchBuffersLocked does.

`FrameDelivery` says the same without any of this: pieces are sent in the order of their lane,
each is delivered or dropped, at most once, and none overtakes an earlier one of its lane.
`ResultBatcher` instantiates it as `Contract`, and its variables `sent`, `got` and `lost` are the
refinement mapping; `DeliveryKept == Contract!Spec` is checked as a property. Lanes in `Loose`
are exempt from the order. The batcher needs that for the partial results before the last one:
those of a batch are held until its last frame, those of a later request that came alone are not.
The model found this; the framework does not rely on it.

### CameraSession

The framework's thread (`client`), the HAL's result thread (`result`), errors and requests for
buffers. A session is of one of the `Variants` (3.2 to 3.4, 3.5 with buffer management, with or without the
quirks whose metadata the session overrides).

| code | actions |
|---|---|
| CameraDevice::open, close, disconnect | `Open`, `Close` |
| configureStreams, preProcess-, postProcessConfigurationLocked, cleanupBuffersLocked | `ConfigureStreams`, `HalConfigures`, `HalRefusesConfiguration` |
| processCaptureRequest, processOneCaptureRequest, importRequest, updateBufferCaches | `ProcessOneCaptureRequest`, `RecordRequest`, `PhysicalSettingsRefused`, `HalTakesRequest`, `HalRefusesRequest`, `RequestReturns` |
| sProcessCaptureResult, constructCaptureResult, overrideResultForPrecaptureCancel | `ResultArrives`, `Validate`, `OverrideMetadata`, `EraseRecords`, `Deliver` |
| sNotify | `ErrorNotified` |
| requestStreamBuffers, returnStreamBuffers, signalStreamFlush | `RequestStreamBuffers`, `ReturnStreamBuffers`, `SignalStreamFlush`, `FlushSignalled` |

`mInflightLock` is let go between recording a request and the HAL's answer, and between the three holds of
a result: each hold is a step. `owedBuffers` and `owedMetadata` are what the HAL has still to
return; `held` is what is in its hands.

### The providers

`LegacyProvider`: `CameraDeviceStatusChange` is the module's callback with everything it does under
`mCbLock` (status, names, the callback to the service), `SetCallback`, `GetCameraIdList`, `ServiceDies`.
`ExternalProvider`: the hot-plug thread scans (`OpenDir`, `ScanNext`), watches (`Watch`) and reads events
(`ReadEvent`, `DeviceAdded`, `DeviceRemoved`), while `SetCallback`, `SetterReads` and `SetterReports` walk through the
map without its lock.

### PowerHint and PowerScene

`PowerHint`: one binder queue of oneway calls (`queue`), and `mPowerHintRequestsLock` under which a call
or a death notice runs as a whole. libhwbinder's part is modelled too, because it decides which
requests a death can reach: a proxy that has reported the death of its object (`mObitsSent`)
links nobody any more, and linkToDeath's refusal is not looked at by the code.

`PowerScene` is class PowerHintScene of `PowerHALManager.java`, the counted holds of an application: `Acquire`
with and without a timeout, `Release`, the message taken from the Handler (`Dispatch`) and run later
(`Releaser`), `Finalize`, and the service's death, which clears `mService` outside the monitor.

### TunerSession

Binder threads (`call`), a worker and an RDS thread per session, the destructor of a session. The
locks are read off the control points: a session's `mMut` is held by a caller inside a method or by
its worker inside tuneInternalLocked, `mRdsMut` by an RDS thread that compares, the module's `mMut`
by a caller inside openSession.

| code | actions |
|---|---|
| BroadcastRadio::openSession, the constructor, openDev, powerUp | `openSession`, `CloseOld`, `close`, `NewSession` |
| TunerSession::tune, step, cancel | `Enter`, `tune`, `step` |
| scan, with the bridge's seek and FMR_seek | `ScanMute`, `SeekStart`, `HardwareSeek`, `scan` |
| startProgramListUpdates, autoScan, FMR_seek_Channels, FMR_Pre_Search, FMR_Restore_Search | `ListStart`, `FMR_Pre_Search`, `StopCheck`, `SearchSeek`, `FMR_Restore_Search`, `startProgramListUpdates` |
| setParameters | `setParameters`, which takes no lock |
| WorkerThread and the scheduled lambdas | `TakeTask`, `TuneTask`, `tuneInternalLocked`, `ReportTask` |
| rdsUpdateThreadLoop, isRdsUpdateNeeded | `RdsRead`, `RdsCompare`, `RdsWake`, `RdsEnd` |
| ~TunerSession, ~WorkerThread | `DestructorStart`, `DestructorEnd` |

`g_idx` is -1 or 0, as in the bridge. With -1 the code reads in front of an array; the model makes
that visible in `stray`, with the kind of caller. Programs are channels above the bottom of the
band. Texts of RDS are left out, so whether they changed is open. The search goes up, as the library means it to;
which way a driver goes is a matter of `FmReceiver`.

### FmReceiver

The functions of `libfm_jni.cpp` and `fm_hal_bridge.cpp` down to the ioctls, each with a failing
outcome per ioctl. A scan is several steps (`ScanSeek`, `ScanEnds`), with `StopScan` between
them; everything else is one, because nothing serialises the application's calls but the application, which makes
them one after the other. Units are converted where the code does: 10 kHz, 100 kHz, and the shorts
the JNI bridge makes of ints. So is the direction of a seek: `FMR_seek` passes `!dir`, and `COM_seek` makes `FM_SEEK_UP` of 1 and
`FM_SEEK_DOWN` of 0. What the driver, which is not in the repository, takes for up is the constant `DriverUp`.

### The GNSS modules

One binder thread takes the calls and death notices, so that each is a step; the HAL's threads come in between.
`GnssService`: `SetCallback` of three versions, `Start`, `Stop`, `Cleanup`, the measurement, message and
batching extensions, `Die` and `HandleHidlDeath`. `GnssWakelock`: `updateWakelock` of either release on two threads, one step per
access of `sWakelockHeld`, the two flags and, in 1.0, the callback (`Check`), while a binder thread sets the callback (`SetCallback`), the framework
dies (`Die`) and its death is handled (`HandleHidlDeath`). `GnssReports`: one action per callback of the HAL, each with
the conversion it makes (satellite numbering, clock, batch, flags) and the callbacks it reaches.
`GnssExtensions`: the getters, what each extension hands on, geofences, the blacklist, and the process's two ways to end.

### The other services

`FaceService`: binder thread (`Enroll`, `Authenticate`, `DoProcess`, `Cancel`), looper (`Take` and the steps of a
message), algorithm (`AlgoAnswers`, `AlgoReports`, and the notice on its way). `LogConnections`: binder thread
(`SocketConnect`, `SocketClose`, `DeleteHandler`) and poll loop (`Prepare`, `Poll`, `TimersRun`, `NextEntry`, ...), with the
peers' hang-ups; the poll loop's vector is a sequence from which `Without` takes the first entry of a handler. `Reconnects` has the three outcomes of process_reconn: connected, tried again by a timer, or connected but not set up, which leaves the handler without either. `ExceptionCollector`: a behaviour follows one of the five threads, because they share only the
callback; each sleeps, waits for its semaphore or socket, asks, and reports with retries.

## 3. The runs

| run | checks | on |
|---|---|---|
| `camera_session` | types; the records in flight are those the HAL owes (`RecordsExact`); a buffer lent stays imported (`BuffersAccounted`); overridden metadata is restored (`ResultsRestored`) | 2 streams with a buffer each, 2 requests, 2 configurations, 3 kinds of device |
| `extcam_safety` | types; each V4L2 buffer in one place and counted (`PoolExact`); no frame of an earlier allocation, no freed output buffer in use (`NothingStale`); each request answered once, all at close (`AnsweredOnce`); no result dropped unless a flush went on early; a flush alone with the result path; shutters in order | 2 streams, 2 rates with 2 and 1 buffers, 3 requests, 2 allocations, 1 refused frame, no dump |
| `extcam_live` | close terminates, every accepted request is answered | 1 stream, 2 rates, 2 requests, dumps at any time |
| `extcam_dump_lock` (violated) | the interface lock is held only inside a method | 1 request |
| `batcher_safety` | types; the contract; nothing stranded in a removed batch; complete batches leave the deque | 1 stream, batched or not, 4 requests in bursts of 2, 1 error |
| `batcher_live` | every piece arrives or is dropped by the callback's timeout | 2 streams, any of them batched, 2 partial results, 2 requests in one burst or two |
| `batcher_stale_index` (violated) | an error flush stays within the batches up to that of the frame | 4 requests in bursts of 2, 1 error |
| `services` | fifteen parts, see below | |
| `tuner_session` | types; a closed session leaves the driver alone; the open session owns the device | 2 sessions, 2 binder threads, 1 program, 5 calls of open, tune, scan, close and drop, failing seeks |
| `tuner_search` | the chip is neither muted nor searching between calls; a stop ends a search | 1 session, 3 programs of which 2 can start a seek, 5 calls of list, scan, cancel, stopScan, RDS on and off, failing seeks and open |
| `tuner_live` | the RDS filter settles on the session's program, and the chip too if that is in the bands; every call and the destructor return | 1 session, 2 programs: both stations, 1 of them in the bands; 4 calls of open, tune, scan, step, list, close and drop |
| `tuner_reopen` (violated) | openSession returns | 2 sessions, 3 calls |

**The `services` run.** Fifteen parts that share no variable stand in `Services` side by side, each an instance of its module; `MCServices` gives the values. An
initial state picks one of them (`part`), and the others keep an initial state of theirs: the
behaviours are those of the fifteen modules one after the other, each to its full depth. Their
product would be out of reach and would show nothing more.

| part | property | on |
|---|---|---|
| power | `HintFollowsRequests`, `LiveHoldersLinked`, `DeadHoldersLeave` | 2 clients, 2 scenes, 4 calls |
| scene | `HoldsKept`: the service holds exactly while the client counts, after crossed timers too | 4 acquisitions, with or without a Handler |
| legacy, usb | `ProvidersAgree`: what the service believes is what there is | 2 built-in and 1 hot-plugged camera, 5 changes; 3 nodes, one internal, 2 plugs |
| bufReq | `AnswersMatch`: until a late notify misleads a wait, own answers only | 4 requests |
| webcam | `PromisesKept`: largest modes kept, every promised size accepted, and delivered if its frames are decoded | sets of 0, 2, 3 and all of 11 modes, 3 configuration files, 2 plugs |
| capture | `CapturesRight`: templates promised, settings follow, pictures readable | 2 lists of formats, 2 streams, 2 requests |
| gnss, wake, reports, extensions | `GnssKept`: dead clients forgotten, wakelock follows, reports converted, settings as asked | 2 frameworks and 3 calls; 5 requests of the two engines and 2 callbacks; satellite numbers at each border, 2 reports; 18 kinds of extension, 4 calls, 1 report |
| face | `FaceAnswers`: silence after a cancel, each frame back once | 2 operations, 2 frames, 1 cancel |
| conn | `ConnectionsKept`: no use after deletion, a waiting socket has a timer, the close of a handler has its answer under way | 2 handlers, 3 calls, 2 timers, 2 events |
| exceptions | `ReportsAccounted` | 2 clients, 2 events, each of the five threads |
| fm | `ReceiverKept`: scans and seeks exact below a driver with 1 for up, stops that are met turn back, answers sound | 4 stations, 2 calls on the powered chip, 1 setting, 1 failed ioctl, both bridges |

**Why the bounds are enough.** *External camera*: three requests let a flush meet one in progress and
two in the list; two rates with different buffer counts let the pool run dry, be refilled and
be allocated again under requests; a second stream makes removing one differ from removing all.
More requests repeat these positions. *Camera session*: two requests let a late result of the first meet the
second's records, two configurations let a stream disappear while its buffers are out; the three devices between them
have every trait set and cleared. *Batcher*: four requests in bursts of two are the least
with two batches in flight, so that a flush can race with the completion of an earlier one; a burst
refused in its middle leaves requests that are answered without a batch, and `batcher_live` has bursts of one. Two partial results and two streams, of which one may be batched
and the other not, are needed for the paths where one result is split; `batcher_live` has them on
one batch, because with two of them the state space is too large. *Power*: two
clients and two scenes distinguish "the last holder of this scene" from "of any scene"; a third
client only repeats the second; four acquisitions of a scene are two timed ones that cross, and two after them. *Tuner*: a session and its successor, two binder threads so that
one closes or stops what the other does. Which program is tuned does not matter to who owns the device,
so `tuner_session` has one program and a call more: open, one to set a state, open again, two that race.
Elsewhere two programs tell a stale one from a fresh one; of the third program of `tuner_search` no seek can start, and
one of the two of `tuner_live` is outside the bands, so that a step is refused for its range as well. Both are stations there, so that a seek moves the chip off the
session's program; its four calls let a step cancel a tune without making another one (open, tune out of the bands, tune back, step).
`ChipFollows` therefore speaks of sessions whose program is in the bands. `MaxTasks` stops the RDS thread from filling the queue faster than the
worker empties it, which the code leaves to a three-second sleep. *Providers*: two plugs of a node are a removal and a return within one look of the
thread. *Webcam*: its modes were chosen pairwise, of close and of different ratios, of depth, too slow, and beyond each limit. *GNSS reports*: the numbers of
satellites are the first and last of each constellation in both numberings. *Services*: two clients, operations or handlers are an old and a new
one, and the event that separates them is within the bound on events. *FM*: stations at both ends of the band and one that is de-sensed.

Every constant bound appears in a guard and is named in the module (`MaxFrames`, `MaxConfigs`, `MaxErrors`, `MaxCalls`, `MaxPlugs`, ...).
Deadlock is checked wherever threads wait for each other: in the external camera, batcher and tuner runs that pass (dumps, which are always possible,
would hide a deadlock of the camera session: `extcam_safety` is without them). In `services` and
`camera_session` it is not, because each part stops when its bound on calls is used up. A
system whose clients have nothing left to ask stutters explicitly (`Quiet`, `Crashed`), under a
guard that says so, so that a thread which waits for ever is still a deadlock.

Some properties join several named parts, which are written next to them in the module: `PoolExact` is `BufferPartition` and
`CountMatches`, `NothingStale` is `NoStaleFrame` and `InflightBuffersAlive`, `AnsweredOnce` is `InflightExact`, `AtMostOneResult` and `ClosedMeansAnswered`.

Eleven further configurations lead to a counterexample each and are not part of the twelve runs; section 6
says what they show.

## 4. Fairness and assumptions about the surroundings

*External camera*: weak fairness of the api thread's steps within a call and of the OutputThread. All
waits have a timeout, all callbacks return; a call by the framework, an unplug and a dump need not
come. *Batcher*: weak fairness for a call once begun, for the HAL's threads, and for the return of
callbacks; errors and new requests need not come. It is assumed of the HAL that it keeps
the order of a lane, answers a burst only after the call has returned (`HalWaits`), and lets an
error stand for the frame's shutter and metadata only once notify() has returned; of the framework
that it reconfigures only when every request is answered, and that every request
outputs to all streams. The first HAL assumption is what the header says of buffers
(`camera/device/3.2/default/CameraDeviceSession.h:220`), the second is not written anywhere: see
section 6. *Tuner*: strong fairness of callers and workers, because they share mutexes: a
thread that finds a mutex free again and again gets it, which no standard promises of std::mutex but
a scheduler that does not starve a runnable thread gives. The RDS thread has weak fairness and its sleep may end at any time.
A seek's failure is excluded in the liveness run (with failures a search does not end, section 6),
and ChipFollows is checked without cancel, for sessions on a program in the bands (same section). The copy of `mCurrentProgram`, which
the RDS thread reads while a tune writes it, is one step, for the selectors differ in
one 64-bit number only. The other modules state safety only, and need no fairness.

*Camera session*: the HAL answers a request only after it was given it, returns each buffer once, and sends complete
metadata last. *Power*: calls of one queue are one FIFO; the kernel reports each death once. *Providers*: the module's callbacks come one at a time.
*GNSS*: one binder thread, as `defaultPassthroughServiceImplementation` starts it; a framework uses one version of the callback.
*Face*: one binder thread, one thread of the algorithm, which answers each frame it accepted. *Log connections*: a socket is connected once
at a time; the peer may hang up at any time. *Exception collector*: semaphores do not fail. *FM receiver*: calls come one at a time but for stopScan.

## 5. What is proved

The theorems hold for every value of the constants that satisfies the ASSUME of the module, so for any
number of streams, buffers, requests, sessions, clients, cameras, stations and events.

| theorem | says | argument |
|---|---|---|
| **External camera** `ExtCamSessionProofs!TypeCorrect` | types, and that a working thread has a request | inductive as it stands; one lemma per thread, one step per action |
| `FlushAlone` | a flush that waited is alone with the result path, and the result lock is held exactly in the callback | inductive relative to `TypeOK` |
| `ResultsDelivered` | no result is dropped unless a flush went on early | from the two above: a drop needs a second thread in the callback |
| `EachAnsweredOnce` | each request in flight is known as such, answered once, and by close at the latest (`AnsweredOnce`) | `AInv` adds that a request is in one place (`OnePlace`), that numbers grow (`Numbered`), and how far a thread past the list still has to go (`Answers`, `Inflight`, `Ending`); it rests on `FlushAlone`, without which two threads could answer one request |
| `ShuttersInOrder` | unless a flush went on early, no shutter comes after that of a later request (`ShutterOrder`, a property of steps) | `InOrder`, relative to `AInv`: both lists ascend, and what a thread returns lies between the last shutter and what is listed; that the two threads never return a request at once is again `FlushAlone` |
| `PoolKept` | each V4L2 buffer in one place, and the count of those out is right (`PoolExact`) | `PInv`, relative to the ones above: the count is a cardinality plus the frames between an ioctl and its count (`Counted`); places are disjoint (`Apart`); allocation only with nothing held (`Allocation`) |
| `NeverStale` | no request in flight holds a frame of an earlier allocation or freed output buffers (`NothingStale`) | part of `PInv`, because a stale frame queued again would break `Apart` |
| **Session over a HAL** `CameraSessionProofs!TypesKept`, `NoRecordForgotten`, `LentBuffersKept`, `EveryResultRestored` | the four properties of `camera_session` | one `IInv` for all: shapes and numbering of the threads' records, records split by who owes them (`BuffersExact`, `Separate`, `MetadataAwaited`), caches by who was lent what (`CachesKept`, `Lending`); the last adds what a pending override keeps (`CancelsKept`, `BoostsKept`) |
| **Batches** `ResultBatcherProofs!BatcherKeepsContract` | with `HalWaits`, the batcher implements `FrameDelivery` (`DeliveryKept`) | `IInv` of fifteen parts, see below; a lemma for each action |
| `NothingIsStranded` | with `HalWaits`, no piece is left in a batch that is out of the deque | `Placed`, a part of the same `IInv` |
| `BatchesGone` | with `HalWaits`, once all is answered no batch is left (`QuiescentBatchesGone`) | `QInv`, see below |
| `BatcherTypes` | with `HalWaits`, the types; a position in the deque is at most the number of frames | `Typed`: the k-th batch begins with frame k or a later one |
| `FrameDeliveryProofs!DeliveryIsSafe` | the contract implies at most once, and no overtaking in ordered lanes | `IInv` adds types and `HandledWasSent`: without it a piece sent later could come before one already handled |
| **Buffer requests** `ServicesCameraProofs!BufferRequests`, carried over to `Services` as `BuffersMatch` | until a notify that was for an earlier request has ended a wait, each frame gets the answer to its own request, and nothing is left of a finished one (`AnswersMatch`) | at most one request in the two threads' hands (`OneInHand`), and it is that of the frame that waits (`OwnBuffers`) |
| **Tuner** `TunerSessionProofs!TypeCorrect` | types; what is tuned is always a program | part of `IInv` (`Programs`) |
| `DeviceLeftAlone` | no method, task or RDS thread of a closed session calls the driver (`ClosedDeviceLeftAlone`) | `IInv`: a caller past `Enter` holds its session's mutex and the session is open (`Referred`, `Exclusive`); a worker that tunes does too; an open session is the module's and its device index is set (`Device`) |
| `OwnsDevice` | at most one session is open, with the device index set; it has the device (`OpenSessionOwnsDevice`) unless some session could not open it (`OpenFailed`) | `Device` and `Replacing`: openSession goes on to the new session only when none is open. Added to `IInv`: `Unopened` (without a failed open, an open session means an open device) and `IndexOfDevice` |
| `Released` | the chip is muted only during a scan, in search mode only during a band search (`ChipReleased`) | `Chip`: some caller stands where it made the chip so |
| `StopSearch` | at most one hardware seek follows a stop that reached the search (`StopEndsSearch`) | `Stopped`: the stop is remembered while the search lasts, and once one seek has followed nobody stands before another |
| **Power** `ServicesProofs!HintsFollow` | a hint is on exactly while its scene is held | inductive together with types |
| `HoldersLinked` | a live holder has its death recipient | `IInv` adds `ReportedAreDead`: only because a proxy that reported a death belongs to a dead client can linkToDeath's refusal be ignored for live ones |
| `DeathsWorkedOff` | a linked request of a dead client has its notice still to come | from the same invariant |
| `SceneHoldsKept` | the service holds a scene exactly while the client counts it (`HoldsKept`) | `SceneInv`: what is counted, begun and posted agrees in the middle of calls too, unless timers crossed |
| **Providers** `ServicesCameraProofs!ProvidersAgreeHolds` | at rest, what the camera service believes is what both providers have (`ProvidersAgree`), for the nodes and cameras that are none of `gap`, `unopened` or `raced` (section 6) | USB, `UsbInv`: the last event of a node says whether it is there; before the watch a node is scanned or still to be; after it, a node without an event is known or worked on; the view follows the map. Legacy, `LegacyInv`: names fit open_legacy's answer, a camera that is there is named, and what was told last is true |
| **GNSS** `ServicesProofs!GnssHolds` | the four parts of `GnssKept`; the wakelock follows while a framework is alive, unless requests met or a framework came or went under a lock (`disturbed`) | `GnssInv`: the HAL works for no client whose death was handled, and through no extension the handler would miss; `WakeInv`: what the framework was told is what the flag says, up to the call under way; `ExtInv`: callbacks and lists of each extension are those last asked for; `ReportInv`: each conversion by cases of constellation and border |
| **Face** `FaceAnswersKept` | until another operation is asked for, at most one result or error is told after a cancel; each frame is given back once, unless it is dropped for a cancel (`FaceAnswers`). Nothing is said of tokens | `FaceInv`: a frame is in one of four places, the places are disjoint (`FaceApart`), and answered or dropped otherwise (`FaceReturned`); only a notice that passed the check before the cancel may still be told (`FaceSettled`) |
| **Exceptions** `ServicesModemProofs!ReportsTold` | a report, unless it is a version told again, is given up only after six calls; numbers are told once after a version, a configuration only when it differs (`ReportsAccounted`) | `ExpInv`: the retry count is that of this report's calls, except for a version told before (`RetriesFit`), and what a thread is about to report fits what it waits for (`ReportFits`) |
| **FM receiver** `ServicesProofs!ReceiverHolds` | below a driver that takes directions as the library does (`DriverAgrees`), a scan that ran to its end without failures found what can be received, and a seek gives the first station its way round the band; below any driver, a scan that is over has left search mode, and has turned back if its loop saw a stop, or it was stopped and had found something (`ReceiverKept`) | `FmInv`: a scan's list holds stations in order from the start on, none above where the scan is, and all below if no seek failed (`ScanSoFar`). A seek passes over none because stations are a channel apart |
| **Log connections** `ServicesModemProofs!ConnectionsHeld` | no handler is used after its deletion unless one that was gone came back; a socket that waits to be opened has a timer; the close of a socket with a handler has its one request or its answer under way (`ConnectionsKept`) | `ConnInv`: a handler in a slot serves its socket (`ConnSlots`); one that is gone is in no list, timer or request (`ConnGone`); a close is asked for once or answered (`ConnAsked`), and after the register request of its handler (`ConnOrder`, because the request pair is first in, first out); `ConnWork` and `ConnPolled` say what the poll loop still has in hand |
| **Captures** `ServicesCameraProofs!CapturesHold` | templates are among the values promised, a result follows its request's settings and the triggers so far, a JPEG's trailer is at the end of its buffer and the chroma samples where the buffer's layout has them (`CapturesRight`; nothing is said of the code before the trailer, section 6) | `CapInv`: the latest settings are those of the last request that had any (`CapSettings`); the trigger's state is what the triggers up to the last answer leave (`CapTriggers`); each configured stream has its override and, for a JPEG, a buffer of the promised size (`CapStreams`) |
| **Types** `ServicesCameraProofs!PartsTyped` | every part stays within its types and bounds (`PartsTypeOK`) | from the invariants above, and of their own for webcams (`WebcamTypes`), exceptions (`ExpTypes`), extensions (`ExtTypes`) and the receiver (`FmTypes`), whose frequencies and levels stay within 16 bits |

**The batcher's refinement.** The initial states of `ResultBatcher` are initial states of
`FrameDelivery`, and each of its steps sends, delivers or drops as the contract allows, or changes none of `sent`,
`got` and `lost`. The argument has three parts.

- *Where a piece is.* A piece that was sent is handled, in one thread's hand, or held back by one batch of the deque
  (`InHand`, `HeldBack`, `Placed`); so nothing is handed on twice, and nothing is stranded (`NothingIsStranded`).
- *Whose piece it is.* The frames of the batches are disjoint and in the order of the deque (`Deque`); a stream's buffers in a batch
  are those of its frames from the first on, without a gap (`Positions`, from `LanesFull`), so a position gives the right frame.
- *What may still come before it.* A lane holds back only until its last piece has come and its bearer is through (`Emptied`, `Delivered`);
  a batch leaves the deque with nothing in it (`Flushed`; `Reconfigured` covers a flush after the streams were configured anew); and an
  earlier, unhandled piece of a lane is always in the same batch, and leaves with the later one (`WaitsTogether`).

**Why no batch stays.** A finished call removes the first batch only, and only if it is complete, so a batch
that was complete before the one in front of it would stay. `QInv` adds three parts to `IInv`: whoever brought the end of a complete batch has
yet to look at the head of the deque, and does so before it ends a later batch (`Awaited`); a lane whose last piece came
counts as delivered or its bearer is on the way (`Reached`); of batches of different streams the first has its
buffers behind it (`OldStreams`). It follows that no batch is complete before the one in front of it, whatever the
order of shutters, results and errors, and that at rest nothing is left.

These theorems assume `HalWaits`: without it a batch may be registered when its first answers have gone by, and
`ResultBatcher_early.cfg` shows a buffer under the wrong frame. They do not need that an error's flush stays within its
batches, which it does not (section 6). `OwnsDevice` assumes nothing of the device file: the code goes on when it
cannot be opened, and `OpenFailed` is what the theorem then leaves; `TunerSession_nodevice.cfg` shows it.

**Assumptions on constants.** Bounds are numbers, sets of streams are finite, reserved values (`NoRate`, `None`, client 0) are not among the
others. `TunerAssumption`: the programs have a highest, and `Home` is one that can be tuned. `Services` names those of its parts: `BoundsAssumption` (all bounds are numbers),
`ClientsAssumption`, `PrnsAssumption`, `BlacklistsAssumption` and `FrameworksAssumption` (there is a first framework) give types; `ChannelsAssumption` puts the
stations, and the places where seeks and scans start, on channels of the receiver, a `Spacing` apart; `FrequenciesAssumption` gives frequencies the 16 bits of
the driver's type; `LevelsAssumption` says that the driver has a level for each alternative frequency it lists; `OffersAssumption` says that a webcam which
can be opened has formats, with a size and a rate each (`initOutputCharsKeys` fails without any); `JpegAssumption` gives JPEG buffers a size. The reports' proof showed that the numbering of satellites was claimed for lists of both interfaces while
only the old interface's numbers are converted; the property now speaks of those lists, and no longer needs a bound on their length.

**The proofs' shape.** Each part of `Services` has an invariant of its own: a step of another part leaves its variables alone, so its steps
are the part's. Instances are proved about through their names (`Scene!Acquire`). An invariant is a conjunction of named parts; a lemma per action says
that it keeps them, and a lemma says that the properties follow. Greatest and least elements of sets of numbers come from `WFMin` and `NatLessThanWellFounded`,
which take sets and relations; induction theorems that take an operator cannot be instantiated here.

**A type that was too narrow.** The proof of `PartsTypeOK` corrected one claim: the exception collector's `retry_num` was said to stay within
twice the tries of one report. But when the modem is lost after its version was told, the version is asked for and told anew, and the count of failed calls
goes on from where it was; after enough such losses it passes any bound. Its type is now only a number.

**Only model-checked.** All liveness (out of the proof system's reach). Of `services` only `PromisesKept`: its arithmetic of ratios and sizes multiplies
and divides unknowns, and it does not hold of every size a constant could be given (the thumbnail of a frame a few pixels wide would be empty), so a
theorem would first need the modes webcams really have, which are the ones the run takes. The expected
violations need no proof: each is a behaviour TLC prints.

## 6. What the models found

Three disagreements between the code and its own comments are runs that are expected to be violated:

- `extcam_dump_lock`: dumpState returns for a closed session with `mInterfaceLock` held
  (`ExternalCameraDeviceSession.cpp:235`).
- `batcher_stale_index`: notify() looks a batch's position up under one hold of `mLock` and uses it
  under another (`CameraDeviceSession.cpp:665`, `677`); when a batch was completed in between, the flush takes one
  too many, or the front of an empty deque.
- `tuner_reopen`: openSession takes the module's mutex and then the session's, step the session's and then
  the module's (`BroadcastRadio.cpp:126`, `TunerSession.cpp:505`, `529`).

Three more show in configurations beside the runs:

- `ExtBufferRequest_notify.cfg` (`WokenWhenDone`): the buffers are handed over under `mLock` and the OutputThread is notified after it is
  released (3.5 `ExternalCameraDeviceSession.cpp:247-248`), while the wait has no predicate (118-129). If the wait for
  them ends by itself in between, the notify wakes the wait of the next request, which goes on with no buffers.
- `Services_depth.cfg` (`AnyFormatConverted`): a session keeps the fourcc of the mode it chose (3.4 `ExternalCameraDeviceSession.cpp:2675-2702`),
  and a depth mode may be the only one large enough for YUV streams; but the OutputThread decodes MJPEG alone (1847),
  acknowledges the frame otherwise (2220: "Assume we can convert any V4L2 format"), and no picture is delivered.
- `Services_seekdir.cfg` (`SeeksAsNamed`): `fmr_core.cpp:698` asks for the opposite of the direction, 0 for up, and COM_seek makes 0
  `FM_SEEK_DOWN` (`common.cpp:224-228`, `fm.h:122`, against `fm.h:193`). Below a driver that takes the names of
  `fm.h` as they are, a seek up goes down; `services` assumes the driver's convention for that part of its claims.

Further behaviours have a configuration of their own, for whoever changes the code there:

| configuration | property | what happens |
|---|---|---|
| `ExtCamSession_dumpnull.cfg` | `DumpFindsOutputThread` | dumpState without the lock finds the thread pointer cleared by close, the session not yet marked closed (`ExternalCameraDeviceSession.cpp:296`) |
| `ResultBatcher_early.cfg` | `PositionGivesFrame` | a HAL that answers the first request of a burst before the call has returned finds no batch registered, and the positions of later buffers are off by one (`CameraDeviceSession.cpp:1152`) |
| `TunerSession_reports.cfg` | `ReportsSettle` | the client is told last of a program the session has left: a report composed by the RDS thread runs after the tune's own (`TunerSession.cpp:174`) |
| `TunerSession_rdsoff.cfg` | `FilterSettles` | with RDS switched off the RDS thread goes on comparing with the program it read before (`TunerSession.cpp:169`) |
| `TunerSession_cancel.cfg` | `ChipFollows` | a scan whose tune task is cancelled leaves the chip on the station found and RDS off. Without `cancel()` the same comes of a step from a program outside the bands, which drops the tasks before it fails (`TunerSession.cpp:316`, `325-328`) |
| `TunerSession_rescan.cfg` | `ScanRefusedForOwnClose` | a tune refused because its session was closed makes every later session refuse to scan (`TunerSession.cpp:228`) |
| `TunerSession_search_fails.cfg` | `SearchEnds` | a search whose seeks keep failing does not end (`fmr_core.cpp:799`) |
| `TunerSession_nodevice.cfg` | `OpenSessionOwnsDevice` | after a failed open the index is set all the same, and the next session believes it has the device (`fm_hal_bridge.cpp:40`) |

The properties of the other modules name the cases in which they do not hold (`leaked`, `unsure`, `gap`, `raced`, `crossed`, `revived`, `disturbed`, `unopened`, `misled`):
each of these is something the code does and a model found. They and what was read off the code while modelling it, part by part:

**Camera sessions.** A request refused for the settings of a physical camera leaves its records in flight, so that configureStreams
refuses from then on (`3.4/default/CameraDeviceSession.cpp:455`). A late partial result creates a boost entry anew
(`3.2/default/CameraDeviceSession.cpp:1385`); importBuffer does the same for the cache of a removed stream (285). `mOverridenRequest` is shared without a lock (853). dumpState and
flush test the session before they use it, with close in between (192, 1285). In 3.5 a partial failure of requestStreamBuffers
(`3.5/default/CameraDeviceSession.cpp:228`) frees fences from the wrong index (223, 229), and a signalStreamFlush that arrives late is taken for the next configuration's (79).

**External camera.** A request whose frame is malformed skips waitForBufferRequestDone, so that the next requestBufferStart fails
(`3.4/default/ExternalCameraDeviceSession.cpp:1855`, `3.5/default/...:97`); its AF trigger is lost. The settings of a rejected request become the latest (660). The JPEG
encoder is given the whole buffer, so code in its last bytes is overwritten by the trailer, and its `mSuccess` is never read. Chroma rows are clamped with
the height of the luma plane (1470-1480). Of nearly equal ratios with equal width the whole picture is returned though it is shorter (1000-1010, 1600x896 for
1600x900). Thumbnails may be wider than the frame they are cut from (1136). calculateMinFps divides by zero when the slowest rate is below 2 (about 670). A device error
leaves `mScaledYu12Frames` uncleared. open() sleeps and retries with the lock held, and a first initialisation that failed is kept for good. loadFromCfg
ignores all settings of the device when there is no `<ignore>` element; updateFpsList declares prevLimit inside its loop, so the order is never checked (`ExternalCameraUtils.cpp:310`).

**Camera provider.** initialize() overwrites the statuses that callbacks have already brought (`LegacyCameraProviderImpl_2_4.cpp:345`); a camera whose open_legacy changes its
answer keeps a name that is not removed. The external provider reads its map unlocked in setCallback (`ExternalCameraProviderImpl_2_4.cpp:95`), misses what changes between scan and
watch (296-315), and does not retry a node whose first probe failed (216-235).

**Power client.** An early release that meets a releaser already dispatched leaves `mCount` at -1, and the next acquisition is not sent (`PowerHALManager.java:225`).
serviceDied clears `mService` between a method's check and its use, which ends in a NullPointerException (120); acquisitions made after
the service's death are lost without notice. In the service the answer of linkToDeath is ignored (`power/4.0/default/Power.cpp:328`); `HoldersLinked` says why live clients are safe.

**FM.** The JNI bridge's autoScan hands an array of ints on as shorts: stations come interleaved with zeros, and half of them are lost. A scan stopped after its loop has ended with nothing found does not turn back. nativeSeek leaves the receiver
muted. powerUp remembers the frequency in units of 100 kHz and tune in 10 kHz, so a scan stopped before any tune turns back to a wrong one. FMR_active_af
passes 0 as the current frequency, so a switch that fails tunes to 0. De-sense checks compare with a signal strength that is always 0, and a comment has the check's meaning the other way round. Japan's bands are searched
from 87.5. FMR_tune remembers a frequency that was refused. The table of a scan has 200 entries for up to 411 channels, and `chl_cnt` is never looked at (`fm_hal_bridge.cpp:152`). Without
`fm.conf` all limits are 0 and powering up is refused. setTuneParm cuts its threshold to 8 bits. In openDev `g_idx = FMR_init() < 0` is parsed as a comparison, and a failed open leaves
it set. The queue of a worker is destroyed by member order before its thread is joined; RDS switched off by the user comes back with the next tune; a search of the band leaves the chip away from the session's program. A session dropped without close leaves the device open, for the destructor's close() is commented out (`TunerSession.cpp:85`).

**GNSS.** The HAL's two threads race in updateWakelock (`Gnss.cpp:374`): `held` can disagree with both until the next release that runs alone. The flag is static: when a framework dies or is replaced while it is held, the new one is not told, and a call without a callback changes nothing
(`gnss/1.0/default/GnssExt.cpp:303-308`, `Gnss.cpp:385`). Callbacks of versions 1.1
and 2.0 are never linked to death (863, 956), and a late notice clears those of every version (1188). A capability reported between the callback's assignment and the cache's is missed by a new client
(322-343); GnssExt drops those reported without a callback (256-269). The count of hardware clock discontinuities is uninitialised for clocks that are not GPS time (`GnssMeasurement.cpp:313-340`). The 1.0 measurement callback
copies nothing (`#if 0`) and reports one uninitialised measurement (`gnss/1.0/default/GnssMeasurement.cpp:54-89`); its getDebugData takes the greater of two lengths. setCorrections writes through a pointer it has just cleared,
so the service ends; so does it when it asks a dead framework whether an emergency call is on. No extension but measurements, messages and batches is reached by the death handler: their callbacks dangle, and geofences outlive
their client. The HAL is told of the last single satellite of a blacklist with the constellations of all. setGpsLock(0) answers false, setSuplEs what it was given; updateNetworkState_2_0 knows no type and no roaming; setPositionMode_1_1
always answers true; callbacks of 1.1 and 2.0 are told a fixed year.

**Face.** enroll and authenticate clear `mCancelled` at once, so that late results and process requests of a cancelled operation go to the next one (`ExtBiometricsFace.cpp:342`, 409). `sToken` is overwritten while an earlier enroll is
queued (337, 48). `sIsAlgoInitialized` is set after the algorithm's call has returned and may override the end (49, 552). `mExtClientCallback` is used without its lock (104, 139).

**Log connections.** Each socket that fails again arms a timer, and each timer tries them all, so they double (`ConnectControl.cpp:196`, 206). Unregistering nothing blocks for ever
(`daemon_thread.cpp:112`, `sched_and_service_mgr.cpp:62`). A socket that connects but cannot be set non-blocking is closed and left without a timer (`cp_state_hdl.cpp:91-95`). A timer the binder thread makes does not wake a poll without timeout. A handler that reconnects between the answer and its deletion is revived (`cp_state_hdl.cpp:97`).
The lists are shared without a lock. A client's `data_len` is kept when it has no callback (`client_hdl.cpp:50-55`).

**Exception collector.** The number of phones stays 0 when its property comes after a minute or exceeds 4, and the numbers are then told empty (`CPxInfo.cpp:177-204`). retry_num is not reset when a version is
told again (254). A text of wcnd that is not known is reported with the type of the one before (`ModemExpMonitor.cpp:144-152`). Several messages of modemd in one read hide an exception (89-110). A daemon that does not answer within half a minute is
not tried again until the other connection closes (34-43). Lost reports are not told to a later client.

## 7. What is not modelled

Of the modelled parts: pixels, EXIF and the contents of metadata of the camera; fences and the metadata message
queues; batches registered by the 3.4 request path; vendor tags, torch and resource costs of the provider; enumerate and remove of the face service, which are handed on; the stopping of the log connections' daemon; the native power client, which
hands each call on; RDS texts, spacing, antenna, signal strength and announcements in the tuner *service* (the receiver below has the settings). The statistics,
health registration and pass-through calls of the power service sum kernel counters or hand one call on.
`log`, `connmgr` and `thermal` have one request over one socket each; the thin wrappers, `radio` and `tests`
have no state two calls share; the virtual radio is static data. `PROJECT.json` lists each with its reason.

Some hazards have no property among the runs, because the code falls to them:
the batch registered late (`CameraDeviceSession.cpp:1152`), the report composed before a tune (`TunerSession.cpp:174`), the late notify
(3.5 `ExternalCameraDeviceSession.cpp:247`) and the depth mode (3.4, `2675`). Each has its configuration, above. The properties leave out by name, or by the time they
speak of: the legacy provider's statuses overwritten by initialize (`LegacyCameraProviderImpl_2_4.cpp:345`), what comes late for a cancelled face operation
(`ExtBiometricsFace.cpp:342`), the tries counted for a version told again (`CPxInfo.cpp:254`), the wakelock of a framework that went (`GnssExt.cpp:303`), and the
power service's death in the middle of a call (`PowerHALManager.java:120`); section 6 describes them.
Dumping against close, and the tuner's flag that outlives its session, have a configuration each and are not listed as hazards, for being closer to a plain defect.

## 8. The plan

Done: the camera (sessions, devices, providers, batches, buffer requests), power (service and client), the tuner
and its receiver, GNSS, face, log connections, exceptions; proofs of all safety properties of the camera sessions, the batcher, the tuner and the
power hints, and of all those of `services` but one.

Left, in the order of what it would add:

1. `ResultBatcher` composed with `CameraSession` at the HAL's callbacks, with the batches of the 3.4 request path.
2. Liveness of the log connections (a closed socket's caller returns) once the shared lists' missing lock is decided on.
3. `PromisesKept` as a theorem, once the modes a webcam may have are stated as an assumption from which its arithmetic is linear.
