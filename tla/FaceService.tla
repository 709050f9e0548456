---------------------------- MODULE FaceService ----------------------------
(***************************************************************************)
(* The face service (face/1.0/default/ExtBiometricsFace.cpp).  One binder  *)
(* thread takes the framework's calls and posts them to a looper; the      *)
(* looper's thread hands them to the vendor's algorithm; a thread of the   *)
(* algorithm brings its notices, which go to the framework's callback.     *)
(* mCancelledMutex guards mCancelled alone and is never held during a      *)
(* call; mClientCallbackMutex is held by the notice and by setCallback;    *)
(* the looper's thread uses the callback without it.                       *)
(*                                                                         *)
(* Operations (enroll, authenticate) and camera frames are numbered; a     *)
(* frame belongs to the operation the framework sent it for.               *)
(***************************************************************************)
EXTENDS Naturals, Sequences

CONSTANTS
  MaxOps,      (* bound: operations                                         *)
  MaxFrames,   (* bound: frames                                             *)
  MaxCancels   (* bound: cancellations                                      *)

None == 0
Idle == [what |-> "none"]

VARIABLES
  ops,             \* operations requested
  frames,          \* the operation of each frame sent
  cancels,
  queue,           \* the looper's messages, none of which is begun
  looper,          \* the message being worked off, and how far it is
  mCancelled, sIsAlgoInitialized,
  sToken,          \* the operation whose token it holds
  mClientCallback, \* is one registered?
  running,         \* the operation the algorithm runs
  algo,            \* frames the algorithm has not answered
  notice,          \* the notice being brought, and how far it is
  answers,         \* how often each frame was answered
  dropped,         \* frames freed without an answer
  late             \* results told since the last cancel, no operation having followed

faceVars == <<ops, frames, cancels, queue, looper, mCancelled, sIsAlgoInitialized, sToken,
              mClientCallback, running, algo, notice, answers, dropped, late>>
callVars   == <<ops, frames, cancels, mClientCallback>>
looperVars == <<queue, looper>>
worldVars  == <<running, algo, notice>>
toldVars   == <<answers, dropped, late>>

Init ==
  /\ ops = 0 /\ frames = <<>> /\ cancels = 0 /\ queue = <<>> /\ looper = Idle
  /\ mCancelled = FALSE /\ sIsAlgoInitialized = FALSE /\ sToken = None
  /\ mClientCallback = FALSE
  /\ running = None /\ algo = {} /\ notice = Idle
  /\ answers = <<>> /\ dropped = {} /\ late = 0

---------------------------------------------------------------------------
(* Calls of the framework *)

\* setCallback waits until no notice is being brought.
SetCallback ==
  /\ notice = Idle /\ ~mClientCallback /\ mClientCallback' = TRUE
  /\ UNCHANGED <<ops, frames, cancels, looperVars, mCancelled, sIsAlgoInitialized, sToken,
                 worldVars, toldVars>>

Post(m) == queue' = Append(queue, m) /\ UNCHANGED looper

\* enroll; the token is overwritten, whoever has still to read it.
Enroll ==
  /\ mClientCallback /\ ops < MaxOps /\ ops' = ops + 1
  /\ sToken' = ops' /\ mCancelled' = FALSE /\ late' = 0
  /\ Post([what |-> "enroll", op |-> ops', step |-> "begin"])
  /\ UNCHANGED <<frames, cancels, mClientCallback, sIsAlgoInitialized, worldVars, answers,
                 dropped>>

Authenticate ==
  /\ mClientCallback /\ ops < MaxOps /\ ops' = ops + 1
  /\ mCancelled' = FALSE /\ late' = 0
  /\ Post([what |-> "authenticate", op |-> ops', step |-> "begin"])
  /\ UNCHANGED <<frames, cancels, mClientCallback, sIsAlgoInitialized, sToken, worldVars,
                 answers, dropped>>

Cancel ==
  /\ ops > 0 /\ cancels < MaxCancels /\ cancels' = cancels + 1
  /\ mCancelled' = TRUE /\ late' = 0 /\ Post([what |-> "cancel", step |-> "begin"])
  /\ UNCHANGED <<ops, frames, mClientCallback, sIsAlgoInitialized, sToken, worldVars, answers,
                 dropped>>

\* doEnrollProcess, doAuthenticateProcess
DoProcess ==
  /\ ops > 0 /\ Len(frames) < MaxFrames
  /\ frames' = Append(frames, ops) /\ answers' = Append(answers, 0)
  /\ Post([what |-> "process", frame |-> Len(frames) + 1, step |-> "begin"])
  /\ UNCHANGED <<ops, cancels, mClientCallback, mCancelled, sIsAlgoInitialized, sToken,
                 worldVars, dropped, late>>

---------------------------------------------------------------------------
(* The looper's thread: onMessageReceived *)

Take ==
  /\ looper = Idle /\ queue # <<>>
  /\ looper' = Head(queue) /\ queue' = Tail(queue)
  /\ UNCHANGED <<callVars, mCancelled, sIsAlgoInitialized, sToken, worldVars, toldVars>>

At(what, step) == looper.what \in what /\ looper.step = step
StepTo(step)   == looper' = [looper EXCEPT !.step = step]

\* device->enroll, device->authenticate; sIsAlgoInitialized is set when they have returned.
StartOperation ==
  /\ At({"enroll", "authenticate"}, "begin")
  /\ running' = looper.op /\ StepTo("started")
  /\ UNCHANGED <<callVars, queue, mCancelled, sIsAlgoInitialized, sToken, algo, notice, toldVars>>

OperationStarted ==
  /\ At({"enroll", "authenticate"}, "started")
  /\ sIsAlgoInitialized' = TRUE /\ looper' = Idle
  /\ UNCHANGED <<callVars, queue, mCancelled, sToken, worldVars, toldVars>>

\* device->cancel; the algorithm reports the cancellation in a notice.
CancelOperation ==
  /\ At({"cancel"}, "begin") /\ notice = Idle
  /\ notice' = IF running = None THEN Idle ELSE [what |-> "cancelled", op |-> running, step |-> "begin"]
  /\ running' = None /\ looper' = Idle
  /\ UNCHANGED <<callVars, queue, mCancelled, sIsAlgoInitialized, sToken, algo, toldVars>>

\* A frame is freed unprocessed once the operation is cancelled.

CheckFrame ==
  /\ At({"process"}, "begin")
  /\ IF mCancelled
     THEN looper' = Idle /\ dropped' = dropped \cup {looper.frame}
     ELSE StepTo("process") /\ UNCHANGED dropped
  /\ UNCHANGED <<callVars, queue, mCancelled, sIsAlgoInitialized, sToken, worldVars, answers, late>>

\* It goes back to the framework at once if no algorithm is there to look at it.
ProcessFrame ==
  /\ At({"process"}, "process")
  /\ algo' = IF sIsAlgoInitialized THEN algo \cup {looper.frame} ELSE algo
  /\ answers' = IF sIsAlgoInitialized THEN answers ELSE [answers EXCEPT ![looper.frame] = @ + 1]
  /\ looper' = Idle
  /\ UNCHANGED <<callVars, queue, mCancelled, sIsAlgoInitialized, sToken, running, notice, dropped,
                 late>>

---------------------------------------------------------------------------
(* The algorithm, and notify *)

\* The algorithm answers a frame, or reports the result of its operation, an error, or what
\* it sees.
AlgoAnswers ==
  /\ notice = Idle
  /\ \E f \in algo :
       /\ algo' = algo \ {f}
       /\ notice' = [what |-> "processed", frame |-> f, step |-> "begin"]
  /\ UNCHANGED <<callVars, looperVars, mCancelled, sIsAlgoInitialized, sToken, running, toldVars>>

AlgoReports ==
  /\ notice = Idle /\ running # None
  /\ \E what \in {"result", "error", "acquired"} :
       /\ notice' = [what |-> what, op |-> running, step |-> "begin"]
       /\ running' = IF what = "acquired" THEN running ELSE None
  /\ UNCHANGED <<callVars, looperVars, mCancelled, sIsAlgoInitialized, sToken, algo, toldVars>>

Bringing(what, step) == notice.what \in what /\ notice.step = step
Filtered == {"result", "error"}

\* Results and errors of a cancelled operation end here.
\* Mutant: only results do.
FilteredResults == {"result"}
NoticeFiltered  == Filtered

CheckNotice ==
  /\ Bringing({"result", "error", "cancelled", "acquired", "processed"}, "begin")
  /\ notice' = IF notice.what \in NoticeFiltered /\ mCancelled THEN Idle
               ELSE [notice EXCEPT !.step = "checked"]
  /\ UNCHANGED <<callVars, looperVars, mCancelled, sIsAlgoInitialized, sToken, running, algo,
                 toldVars>>

EndOperation ==
  /\ Bringing(Filtered \cup {"cancelled"}, "checked")
  /\ sIsAlgoInitialized' = FALSE /\ notice' = [notice EXCEPT !.step = "tell"]
  /\ UNCHANGED <<callVars, looperVars, mCancelled, sToken, running, algo, toldVars>>

\* The call of the framework's callback.
Tell ==
  /\ Bringing(Filtered \cup {"cancelled"}, "tell") \/ Bringing({"acquired", "processed"}, "checked")
  /\ notice' = Idle
  /\ answers' = IF notice.what = "processed" THEN [answers EXCEPT ![notice.frame] = @ + 1] ELSE answers
  /\ late' = IF notice.what \in Filtered /\ mCancelled THEN late + 1 ELSE late
  /\ UNCHANGED <<callVars, looperVars, mCancelled, sIsAlgoInitialized, sToken, running, algo, dropped>>

Next ==
  \/ SetCallback \/ Enroll \/ Authenticate \/ Cancel \/ DoProcess
  \/ Take \/ StartOperation \/ OperationStarted \/ CancelOperation \/ CheckFrame \/ ProcessFrame
  \/ AlgoAnswers \/ AlgoReports \/ CheckNotice \/ EndOperation \/ Tell

Spec == Init /\ [][Next]_faceVars

---------------------------------------------------------------------------
TypeOK ==
  /\ ops \in 0..MaxOps /\ sToken \in 0..ops /\ running \in 0..ops
  /\ mCancelled \in BOOLEAN /\ sIsAlgoInitialized \in BOOLEAN /\ mClientCallback \in BOOLEAN
  /\ algo \cup dropped \subseteq DOMAIN frames

\* Once cancel() has returned, and until another operation is requested, the framework is
\* told no result and no error, save the one notice that had passed the check before.
CancelSettles == late <= 1

\* A frame is answered once, or dropped because its operation was cancelled, or still on its
\* way; never two of these.  So its buffer is freed and given back exactly once.
OnItsWay ==
  {queue[i].frame : i \in {j \in DOMAIN queue : queue[j].what = "process"}}
    \cup (IF looper.what = "process" THEN {looper.frame} ELSE {})
    \cup algo \cup (IF notice.what = "processed" THEN {notice.frame} ELSE {})

FramesReturned ==
  \A f \in DOMAIN frames :
    /\ answers[f] + (IF f \in dropped THEN 1 ELSE 0) = (IF f \in OnItsWay THEN 0 ELSE 1)
    /\ f \in dropped => cancels > 0

FaceAnswers == CancelSettles /\ FramesReturned
=============================================================================
