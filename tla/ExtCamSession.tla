--------------------------- MODULE ExtCamSession ---------------------------
(***************************************************************************)
(* The session of an external (USB, V4L2) camera:                          *)
(* camera/device/3.4/default/ExternalCameraDeviceSession.cpp.              *)
(*                                                                         *)
(* Three threads meet here.  "api" is the binder thread that holds         *)
(* mInterfaceLock: it configures streams, submits capture requests,        *)
(* flushes and closes.  "out" is the OutputThread, which takes requests    *)
(* from mRequestList, converts the V4L2 frame and returns the result.      *)
(* "dump" is a binder thread in dumpState.  Every step below is a section  *)
(* of code between two acquisitions of a lock the other threads take, or   *)
(* one ioctl, or one callback into the framework.                          *)
(*                                                                         *)
(* mLock is not a variable: the OutputThread never takes it, and among     *)
(* binder threads it only nests inside mInterfaceLock or guards one read.  *)
(***************************************************************************)
EXTENDS Integers, Sequences, FiniteSets

CONSTANTS
  Streams,       (* stream ids the framework may configure                  *)
  Rates,         (* frame rates a request may ask for                       *)
  DefaultRate,   (* the rate configureV4l2StreamLocked picks by itself      *)
  BufferCount,   (* V4L2 buffers for a rate: numVideoBuffers/numStillBuffers*)
  MaxFrames,     (* bound: capture requests the framework sends             *)
  MaxConfigs,    (* bound: times the V4L2 buffers are (re)allocated         *)
  MaxBadFrames,  (* bound: frames the driver hands out that are refused     *)
  Dumps          (* whether the system asks for a dump                      *)

ASSUME ConstantsAssumption ==
  /\ IsFiniteSet(Streams)
  /\ DefaultRate \in Rates
  /\ BufferCount \in [Rates -> Nat \ {0}]
  /\ MaxFrames \in Nat
  /\ MaxConfigs \in Nat
  /\ MaxBadFrames \in Nat
  /\ Dumps \in BOOLEAN

NoRate == "none"            \* mV4l2StreamingFps = 0.0
ASSUME NoRateAssumption == NoRate \notin Rates

Frames  == 1..MaxFrames
Threads == {"api", "out"}
Request == [num : Frames, streams : SUBSET Streams, idx : Nat, epoch : 0..MaxConfigs]
NoReq   == [num |-> 0, streams |-> {}, idx |-> 0, epoch |-> 0]

VARIABLES
  \* the session's fields
  mInterfaceLock,       \* "free", or the thread that holds it
  mClosed,
  mV4l2Streaming,
  mV4l2StreamingFps,
  mV4L2BufferCount,
  mNumDequeuedV4l2Buffers,
  mInflightFrames,
  mCirculatingBuffers,  \* streams that own a map of imported buffers
  mProcessCaptureResultLock,
  mOutputThread,        \* FALSE once close() has cleared the pointer
  \* the OutputThread's fields
  mRequestList,
  mProcessingRequest,
  exitPending,
  \* the threads' control points and locals
  pc,                   \* of "api", "out" and "dump"
  cur,                  \* the request each of "api" and "out" is working on
  requestFps,           \* requestFpsMax of the request being submitted
  reqs,                 \* the list flush() moved out of mRequestList
  closing,              \* the flush in progress is close()'s
  \* the kernel's side of the V4L2 device (external)
  plugged, kAllocated, kStreaming, kQueue, epoch,
  leaked,               \* counted buffers that will never be queued again
  lost,                 \* uncounted buffers that will never be queued again
  badFrames,
  \* what the framework has seen
  nextFrame, accepted, results, dropped, lastShutter, deviceError, flushEarly

sessionVars == <<mInterfaceLock, mClosed, mInflightFrames, mCirculatingBuffers,
                 mProcessCaptureResultLock, mOutputThread>>
v4l2Vars    == <<mV4l2Streaming, mV4l2StreamingFps, mV4L2BufferCount,
                 kAllocated, kStreaming, kQueue, epoch, lost>>
threadVars  == <<mRequestList, mProcessingRequest, exitPending>>
localVars   == <<cur, requestFps, reqs, closing>>
clientVars  == <<nextFrame, accepted, results, dropped, lastShutter, deviceError, flushEarly>>
kernelVars  == <<plugged, leaked, badFrames>>

vars == <<sessionVars, v4l2Vars, threadVars, localVars, clientVars, kernelVars,
          mNumDequeuedV4l2Buffers, pc>>

Init ==
  /\ mInterfaceLock = "free"
  /\ mClosed = FALSE
  /\ mV4l2Streaming = FALSE
  /\ mV4l2StreamingFps = NoRate
  /\ mV4L2BufferCount = 0
  /\ mNumDequeuedV4l2Buffers = 0
  /\ mInflightFrames = {}
  /\ mCirculatingBuffers = {}
  /\ mProcessCaptureResultLock = "free"
  /\ mOutputThread = TRUE
  /\ mRequestList = <<>>
  /\ mProcessingRequest = FALSE
  /\ exitPending = FALSE
  /\ pc = [api |-> "idle", out |-> "wait", dump |-> "idle"]
  /\ cur = [t \in Threads |-> NoReq]
  /\ requestFps = DefaultRate
  /\ reqs = <<>>
  /\ closing = FALSE
  /\ plugged = TRUE
  /\ kAllocated = FALSE
  /\ kStreaming = FALSE
  /\ kQueue = <<>>
  /\ epoch = 0
  /\ leaked = {}
  /\ lost = {}
  /\ badFrames = 0
  /\ nextFrame = 1
  /\ accepted = {}
  /\ results = [f \in Frames |-> 0]
  /\ dropped = {}
  /\ lastShutter = 0
  /\ deviceError = {}
  /\ flushEarly = FALSE

Goto(t, label) == pc' = [pc EXCEPT ![t] = label]

\* Leaving an interface method: the Autolock on mInterfaceLock goes out of scope.
Return == Goto("api", "idle") /\ mInterfaceLock' = "free"

Enter == pc["api"] = "idle" /\ mInterfaceLock = "free"

---------------------------------------------------------------------------
(* V4L2 streaming. *)

\* v4l2StreamOffLocked succeeds: not streaming, or idle and the ioctls work.
StreamOffSucceeds ==
  ~mV4l2Streaming \/ (mNumDequeuedV4l2Buffers = 0 /\ plugged)

\* v4l2StreamOffLocked fails.  The buffer count is cleared before the STREAMOFF
\* ioctl, mV4l2Streaming after it.
StreamOffFails ==
  /\ ~StreamOffSucceeds
  /\ mV4L2BufferCount' = IF mNumDequeuedV4l2Buffers = 0 THEN 0 ELSE mV4L2BufferCount
  /\ UNCHANGED <<mV4l2Streaming, mV4l2StreamingFps, kAllocated, kStreaming, kQueue, epoch, lost>>

\* S_FMT works only while the driver has no buffers allocated.
FormatAccepted == StreamOffSucceeds /\ plugged /\ (kAllocated => mV4l2Streaming)

\* A rate the driver cannot set (EINVAL) leaves mV4l2StreamingFps as it was.
SetFps(rate) == mV4l2StreamingFps' \in {mV4l2StreamingFps, rate}

\* v4l2StreamOffLocked, when it had a stream to turn off, has cleared the count.
CountAfterStreamOff == IF mV4l2Streaming THEN 0 ELSE mV4L2BufferCount

\* configureV4l2StreamLocked gives up with no buffer allocated: S_FMT, the checks
\* on its answer, S_PARM or REQBUFS failed.
ConfigureFailsEarly(rate) ==
  /\ StreamOffSucceeds
  /\ mV4l2Streaming' = FALSE
  /\ mV4L2BufferCount' = CountAfterStreamOff
  /\ IF FormatAccepted THEN SetFps(rate) ELSE UNCHANGED mV4l2StreamingFps
  /\ IF mV4l2Streaming
       THEN kAllocated' = FALSE /\ kStreaming' = FALSE /\ kQueue' = <<>> /\ lost' = {}
       ELSE UNCHANGED <<kAllocated, kStreaming, kQueue, lost>>
  /\ UNCHANGED epoch

\* REQBUFS allocates a new set of buffers.
ReallocateBuffers(rate) ==
  /\ FormatAccepted
  /\ epoch < MaxConfigs
  /\ epoch' = epoch + 1
  /\ SetFps(rate)
  /\ kAllocated' = TRUE

\* It gives up with buffers allocated, and nobody frees them: too few buffers
\* (the count is not recorded), a failed QUERYBUF, QBUF or STREAMON ...
ConfigureFailsLate(rate) ==
  /\ ReallocateBuffers(rate)
  /\ mV4l2Streaming' = FALSE
  /\ mV4L2BufferCount' \in {CountAfterStreamOff, BufferCount[rate]}
  /\ kStreaming' = FALSE
  /\ kQueue' = <<>>
  /\ lost' = {}

\* ... or, with the stream on, the DQBUF or the QBUF of the first frame.
ConfigureFailsStreaming(rate) ==
  /\ ReallocateBuffers(rate)
  /\ mV4l2Streaming' = FALSE
  /\ mV4L2BufferCount' = BufferCount[rate]
  /\ kStreaming' = TRUE
  /\ \E swallowed \in 0..1 :
       /\ kQueue' = [i \in 1..(BufferCount[rate] - swallowed) |-> i + swallowed - 1]
       /\ lost' = 0..(swallowed - 1)

\* It succeeds; the first frame after STREAMON went once through DQBUF/QBUF
\* (kBadFramesAfterStreamOn), so buffer 0 is now the last of the queue.
ConfigureSucceeds(rate) ==
  /\ ReallocateBuffers(rate)
  /\ mV4l2Streaming' = TRUE
  /\ mV4L2BufferCount' = BufferCount[rate]
  /\ kStreaming' = TRUE
  /\ kQueue' = [i \in 1..BufferCount[rate] |-> i % BufferCount[rate]]
  /\ lost' = {}

ConfigureFails(rate) ==
  \/ StreamOffFails \/ ConfigureFailsEarly(rate)
  \/ ConfigureFailsLate(rate) \/ ConfigureFailsStreaming(rate)

---------------------------------------------------------------------------
(* configureStreams. *)

\* Refused: the combination is not supported, the session is closed, or a
\* request is in flight.  Otherwise the method goes on under mLock.
MayConfigureWithInflight == ~mClosed
MayConfigure == ~mClosed /\ mInflightFrames = {}

ConfigureStreams ==
  /\ Enter
  /\ MayConfigure
  /\ mInterfaceLock' = "api"
  /\ Goto("api", "configure")
  /\ UNCHANGED <<mClosed, mInflightFrames, mCirculatingBuffers, mProcessCaptureResultLock,
                 mOutputThread, v4l2Vars, threadVars, localVars, clientVars, kernelVars,
                 mNumDequeuedV4l2Buffers>>

\* The stream map follows the requested set even when no V4L2 format fits it,
\* the device refuses the format, or intermediate buffers cannot be allocated.
ConfigureV4l2 ==
  /\ pc["api"] = "configure"
  /\ \E config \in SUBSET Streams \ {{}} : mCirculatingBuffers' = config
  /\ ConfigureSucceeds(DefaultRate) \/ ConfigureFails(DefaultRate) \/ UNCHANGED v4l2Vars
  /\ Return
  /\ UNCHANGED <<mClosed, mInflightFrames, mProcessCaptureResultLock, mOutputThread,
                 threadVars, localVars, clientVars, kernelVars, mNumDequeuedV4l2Buffers>>

---------------------------------------------------------------------------
(* processOneCaptureRequest. *)

\* Entry: the request passes the checks on the session and on its settings.  It
\* asks for a rate, or (NoRate) its settings hold no frame rate range.
ProcessCaptureRequest ==
  /\ Enter
  /\ ~mClosed
  /\ mV4l2Streaming
  /\ nextFrame <= MaxFrames
  /\ mInterfaceLock' = "api"
  /\ nextFrame' = nextFrame + 1
  /\ \E s \in SUBSET mCirculatingBuffers \ {{}} :
       cur' = [cur EXCEPT !["api"] = [num |-> nextFrame, streams |-> s, idx |-> 0, epoch |-> 0]]
  /\ \E rate \in Rates \cup {NoRate} :
       IF rate \in {NoRate, mV4l2StreamingFps}
         THEN Goto("api", "import") /\ UNCHANGED requestFps
         ELSE Goto("api", "waitIdle") /\ requestFps' = rate
  /\ UNCHANGED <<mClosed, mInflightFrames, mCirculatingBuffers, mProcessCaptureResultLock,
                 mOutputThread, v4l2Vars, threadVars, reqs, closing, accepted, results,
                 dropped, lastShutter, deviceError, flushEarly, kernelVars,
                 mNumDequeuedV4l2Buffers>>

\* The method returns: its locals go out of scope.  Used alone, the request fails:
\* an error status goes back and nothing is recorded.
LeaveRequest ==
  /\ Return
  /\ cur' = [cur EXCEPT !["api"] = NoReq]
  /\ requestFps' = DefaultRate

\* The rate changes: wait until the pipeline holds no V4L2 buffer, under
\* mV4l2BufferLock, so the test and the start of the wait are one step.
WaitIdle ==
  /\ pc["api"] = "waitIdle"
  /\ Goto("api", IF mNumDequeuedV4l2Buffers = 0 THEN "reconfigure" ELSE "idleWaiting")
  /\ UNCHANGED <<sessionVars, v4l2Vars, threadVars, localVars, clientVars, kernelVars,
                 mNumDequeuedV4l2Buffers>>

\* The result of configureV4l2StreamLocked is ignored: the request goes on.
Reconfigure ==
  /\ pc["api"] = "reconfigure"
  /\ ConfigureSucceeds(requestFps) \/ ConfigureFails(requestFps)
  /\ Goto("api", "import")
  /\ UNCHANGED <<sessionVars, threadVars, localVars, clientVars, kernelVars,
                 mNumDequeuedV4l2Buffers>>

\* importRequestLocked: buffers and acquire fences are imported, or the request fails.
ImportRequest ==
  /\ pc["api"] = "import"
  /\ \/ /\ Goto("api", "dequeue")
        /\ UNCHANGED <<mInterfaceLock, cur, requestFps>>
     \/ LeaveRequest
  /\ UNCHANGED <<mClosed, mInflightFrames, mCirculatingBuffers, mProcessCaptureResultLock,
                 mOutputThread, v4l2Vars, threadVars, reqs, closing, clientVars, kernelVars,
                 mNumDequeuedV4l2Buffers>>

\* dequeueV4l2FrameLocked: wait once if every buffer is out, else go to DQBUF.
Dequeue ==
  /\ pc["api"] = "dequeue"
  /\ Goto("api", IF mNumDequeuedV4l2Buffers = mV4L2BufferCount THEN "dequeueWaiting" ELSE "dqbuf")
  /\ UNCHANGED <<sessionVars, v4l2Vars, threadVars, localVars, clientVars, kernelVars,
                 mNumDequeuedV4l2Buffers>>

\* waitForV4L2BufferReturnLocked times out after kBufferWaitTimeoutSec.
BufferWaitTimeout ==
  /\ pc["api"] \in {"idleWaiting", "dequeueWaiting"}
  /\ LeaveRequest
  /\ UNCHANGED <<mClosed, mInflightFrames, mCirculatingBuffers, mProcessCaptureResultLock,
                 mOutputThread, v4l2Vars, threadVars, reqs, closing, clientVars, kernelVars,
                 mNumDequeuedV4l2Buffers>>

\* Where a thread waiting on mV4L2BufferReturned goes on: the idle wait tests
\* its condition again, the wait for a buffer does not.
AfterBufferReturned(label) ==
  CASE label = "idleWaiting"    -> "waitIdle"
    [] label = "dequeueWaiting" -> "dqbuf"
    [] OTHER                    -> label

SpuriousBufferWakeup ==
  /\ pc["api"] \in {"idleWaiting", "dequeueWaiting"}
  /\ Goto("api", AfterBufferReturned(pc["api"]))
  /\ UNCHANGED <<sessionVars, v4l2Vars, threadVars, localVars, clientVars, kernelVars,
                 mNumDequeuedV4l2Buffers>>

\* VIDIOC_DQBUF takes the oldest filled buffer.
DequeueFrame ==
  /\ pc["api"] = "dqbuf"
  /\ plugged /\ kStreaming /\ kQueue # <<>>
  /\ kQueue' = Tail(kQueue)
  /\ Head(kQueue) < mV4L2BufferCount
  /\ cur' = [cur EXCEPT !["api"] = [@ EXCEPT !.idx = Head(kQueue), !.epoch = epoch]]
  /\ Goto("api", "count")
  /\ UNCHANGED <<sessionVars, mV4l2Streaming, mV4l2StreamingFps, mV4L2BufferCount, kAllocated,
                 kStreaming, epoch, lost, threadVars, requestFps, reqs, closing, clientVars,
                 kernelVars, mNumDequeuedV4l2Buffers>>

\* The ioctl fails, because the camera is gone or the stream is off.
DequeueFails ==
  /\ pc["api"] = "dqbuf"
  /\ ~plugged \/ ~kStreaming
  /\ LeaveRequest
  /\ UNCHANGED <<mClosed, mInflightFrames, mCirculatingBuffers, mProcessCaptureResultLock,
                 mOutputThread, v4l2Vars, threadVars, reqs, closing, clientVars, kernelVars,
                 mNumDequeuedV4l2Buffers>>

\* The frame is refused (its index or its size is out of range): the buffer is
\* neither counted nor queued again.
DequeueRefused ==
  /\ pc["api"] = "dqbuf"
  /\ plugged /\ kStreaming /\ kQueue # <<>>
  /\ badFrames < MaxBadFrames
  /\ badFrames' = badFrames + 1
  /\ kQueue' = Tail(kQueue)
  /\ lost' = lost \cup {Head(kQueue)}
  /\ LeaveRequest
  /\ UNCHANGED <<mClosed, mInflightFrames, mCirculatingBuffers, mProcessCaptureResultLock,
                 mOutputThread, mV4l2Streaming, mV4l2StreamingFps, mV4L2BufferCount, kAllocated,
                 kStreaming, epoch, threadVars, reqs, closing, clientVars, plugged, leaked,
                 mNumDequeuedV4l2Buffers>>

OneMoreFrame == mNumDequeuedV4l2Buffers + 1

CountFrame ==
  /\ pc["api"] = "count"
  /\ mNumDequeuedV4l2Buffers' = OneMoreFrame
  /\ Goto("api", "record")
  /\ UNCHANGED <<sessionVars, v4l2Vars, threadVars, localVars, clientVars, kernelVars>>

RecordInflight ==
  /\ pc["api"] = "record"
  /\ mInflightFrames' = mInflightFrames \cup {cur["api"].num}
  /\ Goto("api", "submit")
  /\ UNCHANGED <<mInterfaceLock, mClosed, mCirculatingBuffers, mProcessCaptureResultLock,
                 mOutputThread, v4l2Vars, threadVars, localVars, clientVars, kernelVars,
                 mNumDequeuedV4l2Buffers>>

PushedFront == <<cur["api"]>> \o mRequestList
PushedBack  == Append(mRequestList, cur["api"])

SubmitRequest ==
  /\ pc["api"] = "submit"
  /\ mRequestList' = PushedBack
  /\ accepted' = accepted \cup {cur["api"].num}
  /\ LeaveRequest
  /\ UNCHANGED <<mClosed, mInflightFrames, mCirculatingBuffers, mProcessCaptureResultLock,
                 mOutputThread, v4l2Vars, mProcessingRequest, exitPending,
                 reqs, closing, nextFrame, results, dropped, lastShutter, deviceError,
                 flushEarly, kernelVars, mNumDequeuedV4l2Buffers>>

---------------------------------------------------------------------------
(* processCaptureResult (the OutputThread's) and processCaptureRequestError *)
(* (the OutputThread's, or flush's on the api thread), for thread t.        *)

\* enqueueV4l2Frame, its ioctl: the buffer goes back to the driver ...
EnqueueFrame(t) ==
  /\ pc[t] = "qbuf"
  /\ plugged
  /\ kQueue' = Append(kQueue, cur[t].idx)
  /\ Goto(t, "uncount")
  /\ UNCHANGED <<sessionVars, mV4l2Streaming, mV4l2StreamingFps, mV4L2BufferCount, kAllocated,
                 kStreaming, epoch, lost, threadVars, localVars, clientVars, kernelVars,
                 mNumDequeuedV4l2Buffers>>

\* ... or QBUF fails, and the count keeps the buffer.
UncountAnyway      == "uncount"
AfterFailedEnqueue == "shutter"

EnqueueFails(t) ==
  /\ pc[t] = "qbuf"
  /\ ~plugged
  /\ leaked' = leaked \cup {cur[t].idx}
  /\ Goto(t, AfterFailedEnqueue)
  /\ UNCHANGED <<sessionVars, v4l2Vars, threadVars, localVars, clientVars, plugged, badFrames,
                 mNumDequeuedV4l2Buffers>>

\* enqueueV4l2Frame, under mV4l2BufferLock, and mV4L2BufferReturned.notify_one().
UncountFrame(t) ==
  /\ pc[t] = "uncount"
  /\ mNumDequeuedV4l2Buffers' = mNumDequeuedV4l2Buffers - 1
  /\ pc' = [[pc EXCEPT !["api"] = AfterBufferReturned(@)] EXCEPT ![t] = "shutter"]
  /\ UNCHANGED <<sessionVars, v4l2Vars, threadVars, localVars, clientVars, kernelVars>>

NotifyShutter(t) ==
  /\ pc[t] = "shutter"
  /\ lastShutter' = cur[t].num
  /\ Goto(t, "erase")
  /\ UNCHANGED <<sessionVars, v4l2Vars, threadVars, localVars, nextFrame, accepted, results,
                 dropped, deviceError, flushEarly, kernelVars, mNumDequeuedV4l2Buffers>>

Erased(t) == mInflightFrames \ {cur[t].num}

EraseInflight(t) ==
  /\ pc[t] = "erase"
  /\ mInflightFrames' = Erased(t)
  /\ Goto(t, "result")
  /\ UNCHANGED <<mInterfaceLock, mClosed, mCirculatingBuffers, mProcessCaptureResultLock,
                 mOutputThread, v4l2Vars, threadVars, localVars, clientVars, kernelVars,
                 mNumDequeuedV4l2Buffers>>

\* Where the thread goes once the request is done with.
AfterOneError(t) == "done"
AfterResult(t) == IF t = "out" THEN "done" ELSE "nextError"

\* invokeProcessCaptureResultCallback takes mProcessCaptureResultLock ...
LockResult(t) ==
  /\ pc[t] = "result"
  /\ mProcessCaptureResultLock = "free"
  /\ mProcessCaptureResultLock' = t
  /\ Goto(t, "callback")
  /\ UNCHANGED <<mInterfaceLock, mClosed, mInflightFrames, mCirculatingBuffers, mOutputThread,
                 v4l2Vars, threadVars, localVars, clientVars, kernelVars,
                 mNumDequeuedV4l2Buffers>>

\* ... or returns without the callback when it is still taken after one second.
LockResultTimeout(t) ==
  /\ pc[t] = "result"
  /\ mProcessCaptureResultLock # "free"
  /\ dropped' = dropped \cup {cur[t].num}
  /\ cur' = [cur EXCEPT ![t] = NoReq]
  /\ Goto(t, AfterResult(t))
  /\ UNCHANGED <<sessionVars, v4l2Vars, threadVars, requestFps, reqs, closing, nextFrame,
                 accepted, results, lastShutter, deviceError, flushEarly, kernelVars,
                 mNumDequeuedV4l2Buffers>>

\* mCallback->processCaptureResult returns and the lock is released.
DeliverResult(t) ==
  /\ pc[t] = "callback"
  /\ results' = [results EXCEPT ![cur[t].num] = @ + 1]
  /\ mProcessCaptureResultLock' = "free"
  /\ cur' = [cur EXCEPT ![t] = NoReq]
  /\ Goto(t, AfterResult(t))
  /\ UNCHANGED <<mInterfaceLock, mClosed, mInflightFrames, mCirculatingBuffers, mOutputThread,
                 v4l2Vars, threadVars, requestFps, reqs, closing, nextFrame, accepted, dropped,
                 lastShutter, deviceError, flushEarly, kernelVars, mNumDequeuedV4l2Buffers>>

ReturnRequest(t) ==
  \/ EnqueueFrame(t) \/ EnqueueFails(t) \/ UncountFrame(t) \/ NotifyShutter(t)
  \/ EraseInflight(t) \/ LockResult(t) \/ LockResultTimeout(t) \/ DeliverResult(t)

---------------------------------------------------------------------------
(* OutputThread::threadLoop. *)

\* waitForNextRequest finds a request, even if the thread has been asked to exit.
TakeRequest ==
  /\ pc["out"] = "wait"
  /\ mRequestList # <<>>
  /\ cur' = [cur EXCEPT !["out"] = Head(mRequestList)]
  /\ mRequestList' = Tail(mRequestList)
  /\ mProcessingRequest' = TRUE
  /\ Goto("out", "convert")
  /\ UNCHANGED <<sessionVars, v4l2Vars, exitPending, requestFps, reqs,
                 closing, clientVars, kernelVars, mNumDequeuedV4l2Buffers>>

\* waitForNextRequest sees exitPending within kReqWaitTimeoutMs.
NeverExits == FALSE
MayExit    == mRequestList = <<>> /\ exitPending

ExitIdle ==
  /\ pc["out"] = "wait"
  /\ MayExit
  /\ Goto("out", "exited")
  /\ UNCHANGED <<sessionVars, v4l2Vars, threadVars, localVars, clientVars, kernelVars,
                 mNumDequeuedV4l2Buffers>>

\* The frame is converted into every output buffer (or a buffer's fence timed
\* out), or the MJPG frame cannot be decoded and the request fails alone.
\* Either way the request is returned to the framework.
Convert ==
  /\ pc["out"] = "convert"
  /\ Goto("out", "qbuf")
  /\ UNCHANGED <<sessionVars, v4l2Vars, threadVars, localVars, clientVars, kernelVars,
                 mNumDequeuedV4l2Buffers>>

\* onDeviceError: the framework is told, and the frame is never queued again.
\* mScaledYu12Frames may stay non-empty, which makes configureStreams fail in
\* allocateIntermediateBuffers; the request that stays in flight already does.
DeviceError ==
  /\ pc["out"] = "convert"
  /\ deviceError' = deviceError \cup {cur["out"].num}
  /\ leaked' = leaked \cup {cur["out"].idx}
  /\ cur' = [cur EXCEPT !["out"] = NoReq]
  /\ Goto("out", "failed")
  /\ UNCHANGED <<sessionVars, v4l2Vars, mRequestList, mProcessingRequest, exitPending,
                 requestFps, reqs, closing, nextFrame, accepted, results, dropped, lastShutter,
                 flushEarly, plugged, badFrames, mNumDequeuedV4l2Buffers>>

\* signalRequestDone; threadLoop returns, and Thread runs it again unless it
\* returned false or the thread has been asked to exit.
SignalRequestDone ==
  /\ pc["out"] \in {"done", "failed"}
  /\ mProcessingRequest' = FALSE
  /\ pc' = [pc EXCEPT !["api"] = IF @ = "flushWaiting" THEN "nextError" ELSE @,
                      !["out"] = IF @ = "failed" \/ exitPending THEN "exited" ELSE "wait"]
  /\ UNCHANGED <<sessionVars, v4l2Vars, mRequestList, exitPending, localVars,
                 clientVars, kernelVars, mNumDequeuedV4l2Buffers>>

---------------------------------------------------------------------------
(* flush and close. *)

\* OutputThread::flush, for flush() or for close(): take the whole list and, if
\* a request is being processed, wait for it.
TakenUnlessClosing(byClose) == IF byClose THEN <<>> ELSE mRequestList
TakenByFlush(byClose)       == mRequestList
LeftByFlush                 == <<>>
FlushNeverWaits             == "nextError"
AfterTakingList             == IF mProcessingRequest THEN "flushWaiting" ELSE "nextError"

Flush(byClose) ==
  /\ Enter
  /\ ~mClosed
  /\ mInterfaceLock' = "api"
  /\ closing' = byClose
  /\ reqs' = TakenByFlush(byClose)
  /\ mRequestList' = LeftByFlush
  /\ Goto("api", AfterTakingList)
  /\ UNCHANGED <<mClosed, mInflightFrames, mCirculatingBuffers, mProcessCaptureResultLock,
                 mOutputThread, v4l2Vars, mProcessingRequest, exitPending,
                 cur, requestFps, clientVars, kernelVars, mNumDequeuedV4l2Buffers>>

\* The wait on mRequestDoneCond has no predicate: after kFlushWaitTimeoutSec, or
\* a spurious wakeup, the flush goes on while the request is being processed.
FlushGoesOnEarly ==
  /\ pc["api"] = "flushWaiting"
  /\ flushEarly' = TRUE
  /\ Goto("api", "nextError")
  /\ UNCHANGED <<sessionVars, v4l2Vars, threadVars, localVars, nextFrame, accepted, results,
                 dropped, lastShutter, deviceError, kernelVars, mNumDequeuedV4l2Buffers>>

ErrorStartsAt == "qbuf"

NextError ==
  /\ pc["api"] = "nextError"
  /\ reqs # <<>>
  /\ cur' = [cur EXCEPT !["api"] = Head(reqs)]
  /\ reqs' = Tail(reqs)
  /\ Goto("api", ErrorStartsAt)
  /\ UNCHANGED <<sessionVars, v4l2Vars, threadVars, requestFps, closing, clientVars, kernelVars,
                 mNumDequeuedV4l2Buffers>>

FlushReturns ==
  /\ pc["api"] = "nextError"
  /\ reqs = <<>>
  /\ ~closing
  /\ Return
  /\ UNCHANGED <<mClosed, mInflightFrames, mCirculatingBuffers, mProcessCaptureResultLock,
                 mOutputThread, v4l2Vars, threadVars, localVars, clientVars, kernelVars,
                 mNumDequeuedV4l2Buffers>>

\* closeOutputThreadImpl: requestExit() ...
RequestExit ==
  /\ pc["api"] = "nextError"
  /\ reqs = <<>>
  /\ closing
  /\ exitPending' = TRUE
  /\ Goto("api", "join")
  /\ UNCHANGED <<sessionVars, v4l2Vars, mRequestList, mProcessingRequest,
                 localVars, clientVars, kernelVars, mNumDequeuedV4l2Buffers>>

\* ... join() and clear().
Join ==
  /\ pc["api"] = "join"
  /\ pc["out"] = "exited"
  /\ mOutputThread' = FALSE
  /\ Goto("api", "teardown")
  /\ UNCHANGED <<mInterfaceLock, mClosed, mInflightFrames, mCirculatingBuffers,
                 mProcessCaptureResultLock, v4l2Vars, threadVars, localVars, clientVars,
                 kernelVars, mNumDequeuedV4l2Buffers>>

\* The rest of close(), under mLock: every imported buffer is freed, the result
\* of v4l2StreamOffLocked is ignored, and closing the descriptor makes the
\* kernel stop the stream and free its buffers.
Teardown ==
  /\ pc["api"] = "teardown"
  /\ mCirculatingBuffers' = {}
  /\ mV4l2Streaming' = (mV4l2Streaming /\ ~StreamOffSucceeds)
  /\ mV4L2BufferCount' = IF mV4l2Streaming /\ mNumDequeuedV4l2Buffers = 0 THEN 0 ELSE mV4L2BufferCount
  /\ kAllocated' = FALSE /\ kStreaming' = FALSE /\ kQueue' = <<>> /\ lost' = {}
  /\ mClosed' = TRUE
  /\ closing' = FALSE
  /\ Return
  /\ UNCHANGED <<mInflightFrames, mProcessCaptureResultLock, mOutputThread, mV4l2StreamingFps,
                 epoch, threadVars, cur, requestFps, reqs, clientVars, kernelVars,
                 mNumDequeuedV4l2Buffers>>

---------------------------------------------------------------------------
(* dumpState. *)

\* tryLock succeeds, or gives up after kDumpLockRetries while another thread holds it.
DumpState ==
  /\ Dumps
  /\ pc["dump"] = "idle"
  /\ \/ /\ mInterfaceLock = "free"
        /\ mInterfaceLock' = "dump"
        /\ Goto("dump", "locked")
     \/ /\ mInterfaceLock # "free"
        /\ Goto("dump", "unlocked")
        /\ UNCHANGED mInterfaceLock
  /\ UNCHANGED <<mClosed, mInflightFrames, mCirculatingBuffers, mProcessCaptureResultLock,
                 mOutputThread, v4l2Vars, threadVars, localVars, clientVars, kernelVars,
                 mNumDequeuedV4l2Buffers>>

\* isClosed(): the method returns at once, and the lock stays as it is.
DumpClosed ==
  /\ pc["dump"] \in {"locked", "unlocked"}
  /\ mClosed
  /\ Goto("dump", "idle")
  /\ UNCHANGED <<sessionVars, v4l2Vars, threadVars, localVars, clientVars, kernelVars,
                 mNumDequeuedV4l2Buffers>>

\* Not closed: go on to print the session and then call mOutputThread->dump().
DumpOpen ==
  /\ pc["dump"] \in {"locked", "unlocked"}
  /\ ~mClosed
  /\ Goto("dump", IF pc["dump"] = "locked" THEN "printLocked" ELSE "print")
  /\ UNCHANGED <<sessionVars, v4l2Vars, threadVars, localVars, clientVars, kernelVars,
                 mNumDequeuedV4l2Buffers>>

\* mOutputThread->dump(fd) and the end of the method.
DumpThread ==
  /\ pc["dump"] \in {"printLocked", "print"}
  /\ mInterfaceLock' = IF pc["dump"] = "printLocked" THEN "free" ELSE mInterfaceLock
  /\ Goto("dump", IF mOutputThread THEN "idle" ELSE "crashed")
  /\ UNCHANGED <<mClosed, mInflightFrames, mCirculatingBuffers, mProcessCaptureResultLock,
                 mOutputThread, v4l2Vars, threadVars, localVars, clientVars, kernelVars,
                 mNumDequeuedV4l2Buffers>>

---------------------------------------------------------------------------
\* The camera is unplugged: every ioctl fails from now on.
Unplug ==
  /\ plugged
  /\ plugged' = FALSE
  /\ UNCHANGED <<sessionVars, v4l2Vars, threadVars, localVars, clientVars, leaked, badFrames,
                 mNumDequeuedV4l2Buffers, pc>>

---------------------------------------------------------------------------
\* What the binder thread does once it is inside an interface method.
ApiStep ==
  \/ ConfigureV4l2
  \/ WaitIdle \/ Reconfigure \/ ImportRequest \/ Dequeue \/ BufferWaitTimeout
  \/ SpuriousBufferWakeup \/ DequeueFrame \/ DequeueFails \/ DequeueRefused
  \/ CountFrame \/ RecordInflight \/ SubmitRequest
  \/ FlushGoesOnEarly \/ NextError \/ FlushReturns \/ RequestExit \/ Join \/ Teardown
  \/ ReturnRequest("api")

OutputThreadStep ==
  TakeRequest \/ ExitIdle \/ Convert \/ DeviceError \/ SignalRequestDone \/ ReturnRequest("out")

ApiCall ==
  ConfigureStreams \/ ProcessCaptureRequest \/ \E byClose \in BOOLEAN : Flush(byClose)

DumpStep == DumpState \/ DumpClosed \/ DumpOpen \/ DumpThread

\* mOutputThread->dump() through a null pointer ends the process.
Alive   == pc["dump"] # "crashed"
Crashed == ~Alive /\ UNCHANGED vars

\* The session is closed and its thread has ended.
Quiet ==
  /\ mClosed /\ pc["api"] = "idle" /\ pc["out"] = "exited" /\ pc["dump"] = "idle"
  /\ UNCHANGED vars

Next ==
  \/ Alive /\ (ApiCall \/ ApiStep \/ OutputThreadStep \/ DumpStep \/ Unplug)
  \/ Crashed \/ Quiet

Spec == Init /\ [][Next]_vars

\* Threads run, callbacks into the framework return, and every wait of the code
\* has a timeout; the framework need not call.
FairSpec == Spec /\ WF_vars(Alive /\ ApiStep) /\ WF_vars(Alive /\ OutputThreadStep)

---------------------------------------------------------------------------
ApiLabels  == {"idle", "configure", "waitIdle", "idleWaiting", "reconfigure", "import", "dequeue",
               "dequeueWaiting", "dqbuf", "count", "record", "submit", "flushWaiting", "nextError",
               "join", "teardown", "qbuf", "uncount", "shutter", "erase", "result", "callback"}
OutLabels  == {"wait", "convert", "qbuf", "uncount", "shutter", "erase", "result", "callback",
               "done", "failed", "exited"}
DumpLabels == {"idle", "locked", "unlocked", "printLocked", "print", "crashed"}

Flags == {mClosed, mOutputThread, mV4l2Streaming, kAllocated, kStreaming,
          mProcessingRequest, exitPending, closing, flushEarly, plugged}

FlagTypeOK == Flags \subseteq BOOLEAN

SessionTypeOK ==
  /\ mInterfaceLock \in {"free", "api", "dump"}
  /\ mInflightFrames \subseteq Frames
  /\ mCirculatingBuffers \subseteq Streams
  /\ mProcessCaptureResultLock \in Threads \cup {"free"}

V4l2TypeOK ==
  /\ mV4l2StreamingFps \in Rates \cup {NoRate}
  /\ mV4L2BufferCount \in Nat
  /\ kQueue \in Seq(Nat)
  /\ epoch \in 0..MaxConfigs
  /\ lost \subseteq Nat

RequestTypeOK ==
  /\ mRequestList \in Seq(Request)
  /\ cur \in [Threads -> Request \cup {NoReq}]
  /\ requestFps \in Rates
  /\ reqs \in Seq(Request)

ClientTypeOK ==
  /\ nextFrame \in 1..(MaxFrames + 1)
  /\ accepted \subseteq Frames
  /\ results \in [Frames -> Nat]
  /\ dropped \subseteq Frames
  /\ lastShutter \in 0..MaxFrames
  /\ deviceError \subseteq Frames

KernelTypeOK ==
  /\ mNumDequeuedV4l2Buffers \in Int
  /\ leaked \subseteq Nat
  /\ badFrames \in 0..MaxBadFrames

PcTypeOK ==
  /\ DOMAIN pc = {"api", "out", "dump"}
  /\ pc["api"] \in ApiLabels
  /\ pc["out"] \in OutLabels
  /\ pc["dump"] \in DumpLabels

\* A thread that works on a request has one.
Unemployed == {"idle", "configure", "flushWaiting", "nextError", "join", "teardown",
               "wait", "done", "failed", "exited"}

HasRequest == \A t \in Threads : pc[t] \notin Unemployed => cur[t] \in Request

TypeOK ==
  /\ FlagTypeOK
  /\ SessionTypeOK
  /\ V4l2TypeOK
  /\ RequestTypeOK
  /\ ClientTypeOK
  /\ KernelTypeOK
  /\ PcTypeOK
  /\ HasRequest

RangeOf(s) == {s[i] : i \in 1..Len(s)}

\* The requests that hold a V4L2 frame, wherever they are.
HoldsFrame(t) == pc[t] \in {"count", "record", "submit", "convert", "qbuf"}
HeldRequests ==
  RangeOf(mRequestList) \cup RangeOf(reqs) \cup {cur[t] : t \in {u \in Threads : HoldsFrame(u)}}

\* Buffers the kernel allocated are never lost track of or held twice: each index
\* is in the driver's queue, in one request, or known to be given up, even though
\* binder thread, OutputThread and flush pass the frames around without a
\* common lock.
BufferPartition ==
  LET held == {r.idx : r \in HeldRequests} IN
  kStreaming /\ plugged =>
    /\ RangeOf(kQueue) \cup held \cup leaked \cup lost = 0..(mV4L2BufferCount - 1)
    /\ Len(kQueue) + Cardinality(HeldRequests) + Cardinality(leaked) + Cardinality(lost)
         = mV4L2BufferCount

\* mNumDequeuedV4l2Buffers is the number of frames in requests plus those given
\* up for good (a failed QBUF, a device error), but for the frame between its
\* ioctl and its counting.  It decides when the stream may be turned off.
CountMatches ==
  mNumDequeuedV4l2Buffers
    = Cardinality(HeldRequests) + Cardinality(leaked)
      + Cardinality({t \in Threads : pc[t] = "uncount"}) - (IF pc["api"] = "count" THEN 1 ELSE 0)

\* Both: the pool and its count stay exact across every failed ioctl.
PoolExact == BufferPartition /\ CountMatches

\* The stream is never reconfigured under a request: a frame still held was
\* dequeued from the buffers that are allocated now, so QBUF cannot give the
\* driver an index of another stream.
NoStaleFrame == \A r \in HeldRequests : r.epoch = epoch

\* The output buffers of a request in flight stay imported until the request
\* has left the HAL: configureStreams and close free the buffers of removed
\* streams, and a request holds bare pointers into that map.
InflightBuffersAlive ==
  \A r \in HeldRequests : ~mClosed => r.streams \subseteq mCirculatingBuffers

\* Both: no request in flight refers to V4L2 or output buffers that are gone.
NothingStale == NoStaleFrame /\ InflightBuffersAlive

\* mInflightFrames is exact: it holds the frames of the requests from just
\* before submitRequest until they are given back, on whichever thread that
\* happens, and for ever the one that ended in a device error.
InflightExact ==
  mInflightFrames =
    {r.num : r \in RangeOf(mRequestList) \cup RangeOf(reqs)}
      \cup {cur[t].num : t \in {u \in Threads :
              pc[u] \in {"submit", "convert", "qbuf", "uncount", "shutter", "erase"}}}
      \cup deviceError

\* A capture request is answered at most once.
AtMostOneResult == \A f \in Frames : results[f] <= (IF f \in accepted THEN 1 ELSE 0)

\* A result is thrown away because the previous callback is slow only after a
\* flush has stopped waiting for the request in progress.
DroppedOnlyAfterEarlyFlush == dropped # {} => flushEarly

\* Why: a flush that waited works on the requests it took alone.  The
\* OutputThread processes nothing and finds nothing to take (for the binder
\* thread that would add a request is the one that flushes), and the result lock
\* is held exactly by the thread inside the callback.
ReturnLabels == {"qbuf", "uncount", "shutter", "erase", "result", "callback"}

FlushWorksAlone ==
  /\ \A t \in Threads : mProcessCaptureResultLock = t <=> pc[t] = "callback"
  /\ mProcessingRequest <=> pc["out"] \in {"convert", "done", "failed"} \cup ReturnLabels
  /\ pc["api"] \in {"flushWaiting", "nextError"} \cup ReturnLabels => mRequestList = <<>>
  /\ pc["api"] \in {"nextError"} \cup ReturnLabels => ~mProcessingRequest \/ flushEarly

\* When close() has returned, every accepted request has been answered, except
\* the one that ended in a device error and those dropped by the result lock.
ClosedMeansAnswered ==
  mClosed => \A f \in accepted \ (deviceError \cup dropped) : results[f] = 1

\* The bookkeeping of answers: each request in flight is known as such, is answered once
\* at most, and has been when the session is closed.
AnsweredOnce == InflightExact /\ AtMostOneResult /\ ClosedMeansAnswered

\* Shutter notifications come in the order of the requests, also across a
\* flush, unless the flush went on while a request was being processed.
ShutterOrder == [][lastShutter' >= lastShutter \/ flushEarly]_vars

\* dumpState unlocks the interface lock it took: the lock is held only while a
\* method runs.
InterfaceLockReleased ==
  /\ mInterfaceLock = "dump" => pc["dump"] # "idle"
  /\ mInterfaceLock = "api" => pc["api"] # "idle"

\* dumpState finds the OutputThread it dumps.
DumpFindsOutputThread == Alive

\* close() terminates, whatever the OutputThread is doing.
CloseTerminates == closing ~> (mClosed \/ ~Alive)

\* Every accepted request is eventually answered, or the framework has been told
\* of a device error and has to close.
EveryRequestAnswered ==
  \A f \in Frames : f \in accepted ~> \/ results[f] = 1 \/ f \in dropped
                                      \/ deviceError # {} \/ ~Alive
=============================================================================
