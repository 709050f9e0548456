-------------------------- MODULE ExtBufferRequest --------------------------
(***************************************************************************)
(* Buffer management of the external camera session 3.5: for each request  *)
(* the output thread asks the BufferRequestThread for buffers, decodes the *)
(* frame meanwhile, and then waits for them.  The rest of the output       *)
(* thread is in ExtCamSession.  What is asked for, and what the framework  *)
(* answers, is named by its frame.  The condition variables are taken to   *)
(* wake nobody who was not notified; a notify wakes whoever waits by then. *)
(***************************************************************************)
EXTENDS Naturals

CONSTANT
  MaxRequests   \* bound: capture requests

Frames == 1..MaxRequests
None   == 0
Nothing == <<None, None>>   \* no request and no answer

VARIABLES
  mRequestingBuffer, mBufferReqs, \* under mLock, as is the next
  mPendingReturnBufferReqs,       \* a request, and the one whose answer it was filled with
  mHalBufferReqs,                 \* the request the framework is asked for
  output,       \* the output thread: where it is, and its frame
  asker,        \* the BufferRequestThread
  lent,         \* requests whose buffers the framework has lent
  answered,     \* frames and what their results used
  misled,       \* history: a wait was ended by a notify that was not for it
  device,       \* why the session reported an error of the device
  exitPending,
  nextRequest

sharedVars == <<mRequestingBuffer, mBufferReqs, mPendingReturnBufferReqs>>
resultVars == <<lent, answered, misled>>
bufReqVars == <<sharedVars, mHalBufferReqs, output, asker, resultVars, device, exitPending,
                nextRequest>>

Init ==
  /\ mRequestingBuffer = FALSE /\ mBufferReqs = None /\ mPendingReturnBufferReqs = Nothing
  /\ mHalBufferReqs = None
  /\ output = [pc |-> "idle", frame |-> None] /\ asker = "wait"
  /\ lent = {} /\ answered = {} /\ misled = FALSE
  /\ device = "ok" /\ exitPending = FALSE /\ nextRequest = 1

\* onDeviceError: the framework is told, and the output thread ends.
DeviceError(why) == device' = why /\ output' = [pc |-> "ended", frame |-> None]

---------------------------------------------------------------------------
\* requestBufferStart: one request at a time.

\* Mutant: a request is taken while another is in hand.
AlwaysFree     == TRUE
NoneInProgress == ~mRequestingBuffer

RequestBufferStart ==
  /\ output.pc = "idle" /\ nextRequest \in Frames
  /\ nextRequest' = nextRequest + 1
  /\ IF NoneInProgress
       THEN /\ mRequestingBuffer' = TRUE /\ mBufferReqs' = nextRequest
            /\ output' = [pc |-> "decode", frame |-> nextRequest]
            /\ UNCHANGED device
       ELSE DeviceError("busy") /\ UNCHANGED <<mRequestingBuffer, mBufferReqs>>
  /\ UNCHANGED <<mPendingReturnBufferReqs, mHalBufferReqs, asker, resultVars, exitPending>>

\* The frame is mapped and decoded; "for some webcam, the first few V4L2 frames might
\* be malformed": the request then fails, and the thread goes on.
Decode ==
  /\ output.pc = "decode"
  /\ \/ output' = [output EXCEPT !.pc = "wait"] /\ UNCHANGED device
     \/ output' = [pc |-> "idle", frame |-> None] /\ UNCHANGED device
     \/ DeviceError("map")
  /\ UNCHANGED <<sharedVars, mHalBufferReqs, asker, resultVars, exitPending, nextRequest>>

\* waitForBufferRequestDone: it blocks when nothing is there yet, and does not look
\* again when it is woken; what is there is used and goes back with the result.
Block ==
  /\ output.pc = "wait" /\ mPendingReturnBufferReqs = Nothing
  /\ output' = [output EXCEPT !.pc = "blocked"]
  /\ UNCHANGED <<sharedVars, mHalBufferReqs, asker, resultVars, device, exitPending, nextRequest>>

WaitForBufferRequestDone ==
  /\ output.pc = "woken" \/ (output.pc = "wait" /\ mPendingReturnBufferReqs # Nothing)
  /\ mRequestingBuffer' = FALSE /\ mPendingReturnBufferReqs' = Nothing
  /\ answered' = answered \cup {<<output.frame, mPendingReturnBufferReqs>>}
  /\ misled' = (misled \/ mPendingReturnBufferReqs = Nothing)
  /\ lent' = lent \ {mPendingReturnBufferReqs[2]}
  /\ output' = [pc |-> "idle", frame |-> None]
  /\ UNCHANGED <<mBufferReqs, mHalBufferReqs, asker, device, exitPending, nextRequest>>

\* kReqProcTimeoutMs have gone by; the answer may be there by now.
WaitTimesOut ==
  /\ output.pc \in {"blocked", "woken"}
  /\ DeviceError("timeout")
  /\ UNCHANGED <<sharedVars, mHalBufferReqs, asker, resultVars, exitPending, nextRequest>>

---------------------------------------------------------------------------
(* BufferRequestThread::threadLoop *)

WaitForNextRequest ==
  /\ asker = "wait"
  /\ \/ mBufferReqs # None /\ asker' = "ask" /\ mHalBufferReqs' = mBufferReqs
     \/ mBufferReqs = None /\ exitPending /\ asker' = "ended" /\ UNCHANGED mHalBufferReqs
  /\ UNCHANGED <<sharedVars, output, resultVars, device, exitPending, nextRequest>>

\* The call to the framework, without the lock.
RequestStreamBuffers ==
  /\ asker = "ask"
  /\ \/ exitPending /\ asker' = "ended" /\ UNCHANGED lent
     \/ ~exitPending /\ asker' = "lent" /\ lent' = lent \cup {mHalBufferReqs}
     \/ ~exitPending /\ asker' = "refused" /\ UNCHANGED lent
     \/ ~exitPending /\ asker' = "ended" /\ UNCHANGED lent   \* a transaction error
  /\ UNCHANGED <<sharedVars, mHalBufferReqs, output, answered, misled, device, exitPending, nextRequest>>

\* The answer is imported and handed over, with or without buffers, in what mBufferReqs
\* holds by now; a buffer or fence that cannot be imported ends the thread.
HandOver ==
  /\ asker \in {"lent", "refused"}
  /\ \/ /\ mPendingReturnBufferReqs' = <<mBufferReqs, mHalBufferReqs>> /\ mBufferReqs' = None
        /\ asker' = "notify"
     \/ asker = "lent" /\ asker' = "ended" /\ UNCHANGED <<mPendingReturnBufferReqs, mBufferReqs>>
  /\ UNCHANGED <<mRequestingBuffer, mHalBufferReqs, output, resultVars, device, exitPending, nextRequest>>

\* mRequestDoneCond.notify_one, after the lock is released.
NotifyDone ==
  /\ asker = "notify" /\ asker' = "wait"
  /\ output' = IF output.pc = "blocked" THEN [output EXCEPT !.pc = "woken"] ELSE output
  /\ UNCHANGED <<sharedVars, mHalBufferReqs, resultVars, device, exitPending, nextRequest>>

\* closeOutputThreadImpl: requestExit.
RequestExit ==
  /\ ~exitPending /\ exitPending' = TRUE
  /\ UNCHANGED <<sharedVars, mHalBufferReqs, output, asker, resultVars, device, nextRequest>>

Next == \/ RequestBufferStart \/ Decode \/ Block \/ WaitForBufferRequestDone \/ WaitTimesOut
        \/ WaitForNextRequest \/ RequestStreamBuffers \/ HandOver \/ NotifyDone
        \/ RequestExit

Spec == Init /\ [][Next]_bufReqVars

---------------------------------------------------------------------------
TypeOK ==
  /\ {mRequestingBuffer, misled, exitPending} \subseteq BOOLEAN
  /\ {mBufferReqs, mHalBufferReqs} \subseteq Frames \cup {None}
  /\ mPendingReturnBufferReqs \in (Frames \cup {None}) \X (Frames \cup {None})
  /\ lent \subseteq Frames

\* Whatever times out, fails to decode or answers late: as long as no notify has ended a
\* wait it was not meant for, a result carries what its own request asked for, in the
\* answer to that request, what the framework has lent is in no result and in at most
\* one request's hands, and a request that is not in progress has left nothing behind in
\* the two threads' exchange.
AnswersMatch ==
  ~misled =>
    /\ \A a \in answered : a[2] = <<a[1], a[1]>> /\ a[1] \notin lent
    /\ \A f \in lent : f = mHalBufferReqs
    /\ ~mRequestingBuffer => mBufferReqs = None /\ mPendingReturnBufferReqs = Nothing

\* "signaled when a request is done" (mRequestDoneCond): an output thread that is woken
\* finds its request done.
WokenWhenDone == output.pc = "woken" => mPendingReturnBufferReqs # Nothing
=============================================================================
