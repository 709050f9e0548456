--------------------------- MODULE ResultBatcher ---------------------------
(***************************************************************************)
(* How the 3.2 camera session returns the answers to a burst of requests   *)
(* in batches: class ResultBatcher of                                      *)
(* camera/device/3.2/default/CameraDeviceSession.cpp, with the calls that  *)
(* feed it (processCaptureRequest, configureStreams, sNotify and           *)
(* sProcessCaptureResult).                                                 *)
(*                                                                         *)
(* The client is the framework's request thread.  The HAL answers on three *)
(* threads: "shutter" and "error" call notify(), "result" calls            *)
(* processCaptureResult().  A step is a section of code between two lock   *)
(* acquisitions, or one callback into the framework.                       *)
(*                                                                         *)
(* A piece of an answer is <<lane, frame>>: lane 0 is the shutter, lanes   *)
(* 1..NumPartial are the partial results, and a stream id is the lane of   *)
(* that stream's buffers.  Every request outputs to every stream.          *)
(***************************************************************************)
EXTENDS Integers, Sequences, FiniteSets

CONSTANTS
  Streams,      (* ids of the configured streams, above NumPartial          *)
  NumPartial,   (* mNumPartialResults                                       *)
  MaxFrames,    (* bound: requests the framework sends                      *)
  BurstSizes,   (* bound: requests in one processCaptureRequest call        *)
  MaxErrors,    (* bound: errors the HAL reports; 0: it refuses nothing too *)
  HalWaits      (* the HAL answers a burst only after the call has returned *)

ASSUME ConstantsAssumption ==
  /\ NumPartial \in Nat \ {0}
  /\ Streams \subseteq Nat /\ IsFiniteSet(Streams)
  /\ \A s \in Streams : s > NumPartial
  /\ MaxFrames \in Nat /\ BurstSizes \subseteq Nat \ {0}
  /\ MaxErrors \in Nat /\ HalWaits \in BOOLEAN

Shutter  == 0
Partials == 1..NumPartial
Lanes    == {Shutter} \cup Partials \cup Streams
Frames   == 1..MaxFrames
Item     == Lanes \X Frames
Threads  == {"shutter", "error", "result"}

VARIABLES
  \* the client's call, and the frames the HAL has accepted
  call, burst, nextFrame, submitted,
  \* ResultBatcher's fields; a batch is named by its first frame
  mStreamsToBatch, mInflightBatches, batch,
  mLock, batchLock, mProcessCaptureResultLock,
  \* the HAL's threads: control point, and the message each carries
  pc, cur,
  errored,      \* frames for which the HAL has reported an error
  sent, got, lost

clientVars == <<call, burst, nextFrame, submitted>>
batchVars  == <<mInflightBatches, batch>>
lockVars   == <<mLock, batchLock>>
dataVars   == <<got, lost, mProcessCaptureResultLock>>
vars == <<clientVars, batchVars, lockVars, dataVars, mStreamsToBatch, pc, cur, errored, sent>>

None == 0
Idle == [frame |-> None, batch |-> None, partial |-> 0, items |-> {}, filled |-> {},
         idx |-> 0]

\* Mutant: mLastFrame one too high.
NewBatchTooLong(first, last) ==
  [last |-> last + 1, shutters |-> {}, shutterDone |-> FALSE,
   bufs |-> [s \in mStreamsToBatch |-> <<>>], bufsDone |-> {},
   mds |-> {}, progress |-> 0, removed |-> FALSE]

NewBatch(first, last) ==
  [last |-> last, shutters |-> {}, shutterDone |-> FALSE,
   bufs |-> [s \in mStreamsToBatch |-> <<>>], bufsDone |-> {},
   mds |-> {}, progress |-> 0, removed |-> FALSE]

NoBatch == [last |-> None, shutters |-> {}, shutterDone |-> FALSE,
            bufs |-> <<>>, bufsDone |-> {}, mds |-> {}, progress |-> 0, removed |-> FALSE]

Init ==
  /\ call = "idle"
  /\ burst = [first |-> 1, last |-> 0]
  /\ nextFrame = 1
  /\ submitted = {}
  /\ mStreamsToBatch = {}
  /\ mInflightBatches = <<>>
  /\ batch = [b \in Frames |-> NoBatch]
  /\ mLock = "free"
  /\ batchLock = [b \in Frames |-> "free"]
  /\ mProcessCaptureResultLock = "free"
  /\ pc = [t \in Threads |-> "idle"]
  /\ cur = [t \in Threads |-> Idle]
  /\ errored = {}
  /\ sent = {}
  /\ got = [i \in Item |-> 0]
  /\ lost = {}

Goto(t, label) == pc' = [pc EXCEPT ![t] = label]

\* The pieces the HAL still owes for the accepted frames.  An error, once notify()
\* has returned, stands for the frame's shutter and metadata; partial results
\* before the last are optional.
Excused     == errored \ {cur["error"].frame}
Optional(i) == i[1] \in 1..(NumPartial - 1) \/ (i[2] \in Excused /\ i[1] \notin Streams)
Owed        == {i \in Lanes \X submitted : i \notin sent /\ ~Optional(i)}

---------------------------------------------------------------------------
(* The client: configureStreams and processCaptureRequest. *)

\* configureStreams refuses while mInflightBuffers holds a buffer; the framework
\* waits until every request is answered.  The video streams are batched.
ConfigureStreams ==
  /\ call = "idle"
  /\ Owed = {}
  /\ \A i \in sent : got[i] > 0 \/ i \in lost
  /\ \E video \in SUBSET Streams \ {mStreamsToBatch} : mStreamsToBatch' = video
  /\ UNCHANGED <<clientVars, batchVars, lockVars, dataVars, pc, cur, errored, sent>>

ProcessCaptureRequest ==
  /\ call = "idle"
  /\ \E n \in BurstSizes :
       /\ nextFrame + n - 1 <= MaxFrames
       /\ burst' = [first |-> nextFrame, last |-> nextFrame + n - 1]
  /\ call' = "submit"
  /\ UNCHANGED <<nextFrame, submitted, batchVars, lockVars, dataVars, mStreamsToBatch,
                 pc, cur, errored, sent>>

\* processOneCaptureRequest hands the next request to the HAL.
RequestAccepted ==
  /\ call = "submit"
  /\ submitted' = submitted \cup {nextFrame}
  /\ nextFrame' = nextFrame + 1
  /\ call' = CASE nextFrame < burst.last -> "submit"
               [] nextFrame = burst.last /\ burst.first < burst.last -> "register"
               [] OTHER -> "idle"
  /\ UNCHANGED <<burst, batchVars, lockVars, dataVars, mStreamsToBatch, pc, cur, errored, sent>>

\* The HAL refuses it: the rest of the burst is given up and no batch registered.
RequestRefused ==
  /\ MaxErrors > 0
  /\ call = "submit"
  /\ nextFrame' = burst.last + 1
  /\ call' = "idle"
  /\ UNCHANGED <<burst, submitted, batchVars, lockVars, dataVars, mStreamsToBatch,
                 pc, cur, errored, sent>>

RegisterBatch ==
  /\ call = "register"
  /\ mLock = "free"
  /\ batch' = [batch EXCEPT ![burst.first] = NewBatch(burst.first, burst.last)]
  /\ mInflightBatches' = Append(mInflightBatches, burst.first)
  /\ call' = "idle"
  /\ UNCHANGED <<burst, nextFrame, submitted, lockVars, dataVars, mStreamsToBatch,
                 pc, cur, errored, sent>>

---------------------------------------------------------------------------
(* Entry of the HAL's calls (external: the HAL keeps the order of each lane). *)

Answerable(f) == f \in submitted /\ (HalWaits => call = "idle" \/ f < burst.first)

\* A piece may be sent: no later piece of its lane was, and no earlier one is owed.
Ready(i) ==
  /\ Answerable(i[2])
  /\ \A j \in sent : j[1] = i[1] => j[2] < i[2]
  /\ \A j \in Owed : j[1] = i[1] => j[2] >= i[2]

\* getBatch, under mLock: the position of a frame's batch in the deque, or none (0).
Holds(k, f) == mInflightBatches[k] <= f /\ f <= batch[mInflightBatches[k]].last

BatchIdx(f) ==
  IF \E k \in DOMAIN mInflightBatches : Holds(k, f)
    THEN CHOOSE k \in DOMAIN mInflightBatches : Holds(k, f)
    ELSE 0

BatchOf(f) == IF BatchIdx(f) = 0 THEN None ELSE mInflightBatches[BatchIdx(f)]

\* A thread of the HAL enters with a message about frame f.
Enter(t, f, partial, items, batched) ==
  /\ pc[t] = "idle"
  /\ mLock = "free"
  /\ sent' = sent \cup items
  /\ cur' = [cur EXCEPT ![t] = [frame |-> f, batch |-> BatchOf(f), partial |-> partial,
                                items |-> items, filled |-> {}, idx |-> BatchIdx(f)]]
  /\ Goto(t, IF BatchOf(f) = None THEN "single" ELSE batched)
  /\ UNCHANGED <<clientVars, batchVars, lockVars, dataVars, mStreamsToBatch>>

ShutterArrives ==
  \E f \in submitted \ errored :
    /\ Ready(<<Shutter, f>>)
    /\ Enter("shutter", f, 0, {<<Shutter, f>>}, "queue")
    /\ UNCHANGED errored

\* A result holds metadata (partial > 0), buffers, or both.
ResultArrives ==
  \E f \in submitted, partial \in 0..NumPartial, bufs \in SUBSET Streams :
    LET items == ((Partials \cap {partial}) \cup bufs) \X {f}
    IN  /\ items # {}
        /\ \A i \in items : Ready(i)
        /\ partial > 0 => /\ f \notin errored
                          /\ \A p \in partial..NumPartial : <<p, f>> \notin sent
        /\ Enter("result", f, partial, items, "queue")
        /\ UNCHANGED errored

\* An error about a request that is still being answered.
ErrorArrives ==
  \E f \in submitted \ errored :
    /\ Cardinality(errored) < MaxErrors
    /\ Answerable(f)
    /\ \E i \in Owed : i[2] = f
    /\ errored' = errored \cup {f}
    /\ Enter("error", f, 0, {}, "lock")

---------------------------------------------------------------------------
(* Callbacks into the framework. *)

Received(items) == got' = [i \in Item |-> IF i \in items THEN got[i] + 1 ELSE got[i]]

\* mCallback->notify.
Notify(items) == Received(items) /\ UNCHANGED <<lost, mProcessCaptureResultLock>>

\* invokeProcessCaptureResultCallback: the lock is held during the callback, and
\* results that cannot get it within a second are dropped.
Invoke(t, items) ==
  \/ /\ mProcessCaptureResultLock = "free"
     /\ mProcessCaptureResultLock' = t
     /\ Received(items)
     /\ UNCHANGED lost
  \/ /\ mProcessCaptureResultLock # "free"
     /\ lost' = lost \cup items
     /\ UNCHANGED <<got, mProcessCaptureResultLock>>

CallbackReturns(t) ==
  /\ mProcessCaptureResultLock = t
  /\ mProcessCaptureResultLock' = "free"
  /\ UNCHANGED <<clientVars, batchVars, lockVars, got, lost, mStreamsToBatch, pc, cur, errored, sent>>

\* The pieces of a batch.  Buffers carry no frame number of their own: the k-th
\* buffer of a stream is returned as the k-th frame of the batch.
BufferItems(b, streams) ==
  UNION {{<<s, b + k - 1>> : k \in DOMAIN batch[b].bufs[s]} : s \in streams \ batch[b].bufsDone}
MetadataItems(b, partial) == {i \in batch[b].mds : i[1] <= partial}

\* sendBatchBuffersLocked: nothing happens when a stream is not batched, and no
\* callback is made when there is nothing to send.
SendBatchBuffers(t, b, streams) ==
  LET items == BufferItems(b, streams)
  IN  IF ~(streams \subseteq DOMAIN batch[b].bufs)
        THEN UNCHANGED <<batch, dataVars>>
        ELSE /\ batch' = [batch EXCEPT
                            ![b].bufsDone = @ \cup streams,
                            ![b].bufs = [s \in DOMAIN @ |->
                               IF items # {} /\ s \in streams THEN <<>> ELSE @[s]]]
             /\ IF items = {} THEN UNCHANGED dataVars ELSE Invoke(t, items)

\* sendBatchMetadataLocked.
SendBatchMetadata(t, b, partial) ==
  IF partial <= batch[b].progress
    THEN UNCHANGED <<batch, dataVars>>
    ELSE /\ batch' = [batch EXCEPT ![b].mds = @ \ MetadataItems(b, partial),
                                   ![b].progress = partial]
         /\ Invoke(t, MetadataItems(b, partial))

\* Mutants: the metadata counts as delivered one partial result early, or late.
DeliveredTooEarly(b) ==
  batch[b].shutterDone /\ batch[b].progress >= NumPartial - 1
    /\ DOMAIN batch[b].bufs \subseteq batch[b].bufsDone
DeliveredTooLate(b) ==
  batch[b].shutterDone /\ batch[b].progress > NumPartial
    /\ DOMAIN batch[b].bufs \subseteq batch[b].bufsDone

\* InflightBatch::allDelivered.
AllDelivered(b) ==
  /\ batch[b].shutterDone
  /\ batch[b].progress >= NumPartial
  /\ DOMAIN batch[b].bufs \subseteq batch[b].bufsDone

---------------------------------------------------------------------------
(* notify(SHUTTER) and processCaptureResult. *)

Done(t) == Goto(t, "idle") /\ cur' = [cur EXCEPT ![t] = Idle]

\* The frame is not batched: the message goes up by itself.
SingleShutter ==
  /\ pc["shutter"] = "single"
  /\ Notify(cur["shutter"].items)
  /\ Done("shutter")
  /\ UNCHANGED <<clientVars, batchVars, lockVars, mStreamsToBatch, errored, sent>>

SingleError ==
  /\ pc["error"] = "single"
  /\ Done("error")
  /\ UNCHANGED <<clientVars, batchVars, lockVars, dataVars, mStreamsToBatch, errored, sent>>

SingleResult ==
  /\ pc["result"] = "single"
  /\ Invoke("result", cur["result"].items)
  /\ Done("result")
  /\ UNCHANGED <<clientVars, batchVars, lockVars, mStreamsToBatch, errored, sent>>

\* The batch may have been removed while the thread waited for its lock.
NeverFallsBack(b) == FALSE      \* mutant: mRemoved is not looked at again
FallsBack(b) == batch[b].removed

\* Mutant: the end of the batch is taken to be exclusive.
IsPastLast(t) == cur[t].frame = batch[cur[t].batch].last + 1
IsLast(t) == cur[t].frame = batch[cur[t].batch].last

\* Under the batch's lock: queue the shutter, and send them all at the last frame.
QueueShutter ==
  LET b == cur["shutter"].batch
      shutters == batch[b].shutters \cup cur["shutter"].items
  IN  /\ pc["shutter"] = "queue"
      /\ batchLock[b] = "free"
      /\ IF FallsBack(b)
           THEN Notify(cur["shutter"].items) /\ Done("shutter") /\ UNCHANGED batch
           ELSE IF ~IsLast("shutter")
             THEN /\ batch' = [batch EXCEPT ![b].shutters = shutters]
                  /\ Done("shutter")
                  /\ UNCHANGED dataVars
             ELSE /\ batch' = [batch EXCEPT ![b].shutters =
                                 IF batch[b].shutterDone THEN shutters ELSE {},
                                            ![b].shutterDone = TRUE]
                  /\ IF batch[b].shutterDone THEN UNCHANGED dataVars ELSE Notify(shutters)
                  /\ Goto("shutter", "check")
                  /\ UNCHANGED cur
      /\ UNCHANGED <<clientVars, mInflightBatches, lockVars, mStreamsToBatch, errored, sent>>

\* The batch is gone: the whole result goes up by itself, under the batch's lock.
ResultOfRemovedBatch ==
  LET b == cur["result"].batch
  IN  /\ pc["result"] = "queue"
      /\ batchLock[b] = "free"
      /\ FallsBack(b)
      /\ batchLock' = [batchLock EXCEPT ![b] = "result"]
      /\ Invoke("result", cur["result"].items)
      /\ Goto("result", "leave")
      /\ UNCHANGED <<clientVars, batchVars, mLock, mStreamsToBatch, cur, errored, sent>>

\* The last frame of the batch sends what is queued.
AfterQueueing == IF IsLast("result") THEN "metadata" ELSE "unlock"

\* The batch's share of the result is queued; cur keeps the buffers of the other
\* streams, and which batched streams were filled.
QueueResult ==
  LET b       == cur["result"].batch
      f       == cur["result"].frame
      filled  == {s \in DOMAIN batch[b].bufs : <<s, f>> \in cur["result"].items}
      metadata == cur["result"].items \cap (Partials \X {f})
      others  == cur["result"].items \ (metadata \cup (filled \X {f}))
  IN  /\ pc["result"] = "queue"
      /\ batchLock[b] = "free"
      /\ ~FallsBack(b)
      /\ batchLock' = [batchLock EXCEPT ![b] = "result"]
      /\ batch' = [batch EXCEPT
                     ![b].mds = @ \cup metadata,
                     ![b].bufs = [s \in DOMAIN @ |->
                        IF s \in filled THEN Append(@[s], f) ELSE @[s]]]
      /\ cur' = [cur EXCEPT !["result"].items = others, !["result"].filled = filled]
      /\ Goto("result", IF others # {} THEN "others" ELSE AfterQueueing)
      /\ UNCHANGED <<clientVars, mInflightBatches, mLock, dataVars, mStreamsToBatch, errored, sent>>

\* Buffers of streams that are not batched are not held back.
SendOthers ==
  /\ pc["result"] = "others"
  /\ Invoke("result", cur["result"].items)
  /\ cur' = [cur EXCEPT !["result"].items = {}]
  /\ Goto("result", AfterQueueing)
  /\ UNCHANGED <<clientVars, batchVars, lockVars, mStreamsToBatch, errored, sent>>

SendMetadata ==
  /\ pc["result"] = "metadata"
  /\ IF cur["result"].partial > 0
       THEN SendBatchMetadata("result", cur["result"].batch, cur["result"].partial)
       ELSE UNCHANGED <<batch, dataVars>>
  /\ Goto("result", "buffers")
  /\ UNCHANGED <<clientVars, mInflightBatches, lockVars, mStreamsToBatch, cur, errored, sent>>

SendBuffers ==
  /\ pc["result"] = "buffers"
  /\ IF cur["result"].filled # {}
       THEN SendBatchBuffers("result", cur["result"].batch, cur["result"].filled)
       ELSE UNCHANGED <<batch, dataVars>>
  /\ Goto("result", "unlock")
  /\ UNCHANGED <<clientVars, mInflightBatches, lockVars, mStreamsToBatch, cur, errored, sent>>

\* The batch's lock goes out of scope.
UnlockBatch ==
  /\ pc["result"] \in {"unlock", "leave"}
  /\ batchLock' = [batchLock EXCEPT ![cur["result"].batch] = "free"]
  /\ IF pc["result"] = "unlock" /\ IsLast("result")
       THEN Goto("result", "check") /\ UNCHANGED cur
       ELSE Done("result")
  /\ UNCHANGED <<clientVars, batchVars, mLock, dataVars, mStreamsToBatch, errored, sent>>

\* checkAndRemoveFirstBatch.
CheckFirstBatch(t) ==
  /\ pc[t] = "check"
  /\ mLock = "free"
  /\ mInflightBatches # <<>> => batchLock[Head(mInflightBatches)] = "free"
  /\ IF mInflightBatches # <<>> /\ AllDelivered(Head(mInflightBatches))
       THEN /\ batch' = [batch EXCEPT ![Head(mInflightBatches)].removed = TRUE]
            /\ mInflightBatches' = Tail(mInflightBatches)
       ELSE UNCHANGED batchVars
  /\ Done(t)
  /\ UNCHANGED <<clientVars, lockVars, dataVars, mStreamsToBatch, errored, sent>>

---------------------------------------------------------------------------
(* notify(ERROR): flush every batch up to the one of the frame. *)

\* idx was looked up under an earlier, shorter hold of mLock.
LockForFlush ==
  /\ pc["error"] = "lock"
  /\ mLock = "free"
  /\ mLock' = "error"
  /\ Goto("error", "first")
  /\ UNCHANGED <<clientVars, batchVars, batchLock, dataVars, mStreamsToBatch, cur, errored, sent>>

\* mInflightBatches[0] of an empty deque is undefined: the process stops here.
FlushMissingBatch ==
  /\ pc["error"] = "first"
  /\ mInflightBatches = <<>>
  /\ Goto("error", "crashed")
  /\ UNCHANGED <<clientVars, batchVars, lockVars, dataVars, mStreamsToBatch, cur, errored, sent>>

FlushShutters ==
  /\ pc["error"] = "first"
  /\ mInflightBatches # <<>>
  /\ LET b == Head(mInflightBatches)
     IN  /\ batchLock[b] = "free"
         /\ batchLock' = [batchLock EXCEPT ![b] = "error"]
         /\ batch' = [batch EXCEPT ![b].shutters = IF batch[b].shutterDone THEN @ ELSE {},
                                   ![b].shutterDone = TRUE]
         /\ IF batch[b].shutterDone THEN UNCHANGED dataVars ELSE Notify(batch[b].shutters)
  /\ Goto("error", "buffers")
  /\ UNCHANGED <<clientVars, mInflightBatches, mLock, mStreamsToBatch, cur, errored, sent>>

FlushBuffers ==
  /\ pc["error"] = "buffers"
  /\ SendBatchBuffers("error", Head(mInflightBatches), mStreamsToBatch)
  /\ Goto("error", "metadata")
  /\ UNCHANGED <<clientVars, mInflightBatches, lockVars, mStreamsToBatch, cur, errored, sent>>

FlushMetadata ==
  /\ pc["error"] = "metadata"
  /\ SendBatchMetadata("error", Head(mInflightBatches), NumPartial)
  /\ Goto("error", "pop")
  /\ UNCHANGED <<clientVars, mInflightBatches, lockVars, mStreamsToBatch, cur, errored, sent>>

\* The batch leaves the deque; after the last one the error itself goes up.
PopFlushed ==
  LET b == Head(mInflightBatches)
  IN  /\ pc["error"] = "pop"
      /\ batch' = [batch EXCEPT ![b].removed = TRUE]
      /\ batchLock' = [batchLock EXCEPT ![b] = "free"]
      /\ mInflightBatches' = Tail(mInflightBatches)
      /\ IF cur["error"].idx > 1
           THEN /\ cur' = [cur EXCEPT !["error"].idx = @ - 1]
                /\ Goto("error", "first")
                /\ UNCHANGED mLock
           ELSE /\ Done("error")
                /\ mLock' = "free"
      /\ UNCHANGED <<clientVars, dataVars, mStreamsToBatch, errored, sent>>

---------------------------------------------------------------------------
ClientStep  == ProcessCaptureRequest \/ RequestAccepted \/ RequestRefused \/ RegisterBatch
ShutterStep == ShutterArrives \/ SingleShutter \/ QueueShutter \/ CheckFirstBatch("shutter")
ResultStep  == \/ ResultArrives \/ SingleResult \/ ResultOfRemovedBatch \/ QueueResult
               \/ SendOthers \/ SendMetadata \/ SendBuffers \/ UnlockBatch
               \/ CheckFirstBatch("result")
ErrorStep   == \/ ErrorArrives \/ SingleError \/ LockForFlush \/ FlushMissingBatch
               \/ FlushShutters \/ FlushBuffers \/ FlushMetadata \/ PopFlushed

\* A thread is inside its callback while it holds mProcessCaptureResultLock.
InCallback(t) == mProcessCaptureResultLock = t

Crashed == pc["error"] = "crashed"

\* Every request of the bound is answered, or the process has crashed.
Quiet ==
  /\ Crashed \/ ((\A n \in BurstSizes : nextFrame + n - 1 > MaxFrames) /\ call = "idle" /\ Owed = {}
                 /\ \A t \in Threads : pc[t] = "idle")
  /\ UNCHANGED vars

Next ==
  \/ /\ ~Crashed
     /\ \/ ConfigureStreams
        \/ ClientStep
        \/ ShutterStep
        \/ ~InCallback("result") /\ ResultStep
        \/ ~InCallback("error") /\ ErrorStep
        \/ \E t \in Threads : CallbackReturns(t)
  \/ Quiet

Spec == Init /\ [][Next]_vars

\* The client goes on with a call it has begun, the HAL answers what it owes and
\* runs its threads, and the framework's callbacks return.  New calls and errors
\* need not come.
Fairness ==
  /\ WF_vars(RequestAccepted \/ RegisterBatch)
  /\ WF_vars(ShutterStep)
  /\ WF_vars(~InCallback("result") /\ ResultStep)
  /\ WF_vars(~InCallback("error") /\ ErrorStep /\ pc["error"] # "idle")
  /\ \A t \in Threads : WF_vars(CallbackReturns(t))

FairSpec == Spec /\ Fairness

---------------------------------------------------------------------------
(* Properties. *)

BatchTypeOK(B) ==
  /\ B.last \in Frames \cup {None}
  /\ B.shutters \cup B.mds \subseteq Item
  /\ B.bufsDone \subseteq DOMAIN B.bufs /\ DOMAIN B.bufs \subseteq Streams
  /\ \A s \in DOMAIN B.bufs : B.bufs[s] \in Seq(Frames)
  /\ B.progress \in 0..NumPartial
  /\ B.shutterDone \in BOOLEAN /\ B.removed \in BOOLEAN

TypeOK ==
  /\ call \in {"idle", "submit", "register"}
  /\ nextFrame \in 1..(MaxFrames + 1)
  /\ submitted \subseteq Frames
  /\ mStreamsToBatch \subseteq Streams
  /\ mInflightBatches \in Seq(Frames)
  /\ \A b \in Frames : BatchTypeOK(batch[b])
  /\ mLock \in {"free", "error"}
  /\ batchLock \in [Frames -> {"free", "result", "error"}]
  /\ mProcessCaptureResultLock \in {"free", "result", "error"}
  /\ \A t \in Threads : cur[t].items \subseteq Item /\ cur[t].idx \in 0..MaxFrames
  /\ sent \subseteq Item /\ lost \subseteq Item /\ got \in [Item -> Nat]

\* Batching is invisible but for the delay: with its deque, locks and threads the
\* batcher keeps the contract of FrameDelivery (at most once, in order, under the
\* right frame number).  Partial results before the last may overtake: those of a
\* batch wait for its last frame, those of a later request sent alone do not.
Contract == INSTANCE FrameDelivery WITH Loose <- 1..(NumPartial - 1)
DeliveryKept == Contract!Spec

\* No piece is stranded: what the HAL sent and the framework has not received is
\* queued in a batch still in the deque, or in the hands of a thread.  A piece put
\* into a batch that has just been removed would stay there for ever.
Queued(b) ==
  batch[b].shutters \cup batch[b].mds
    \cup UNION {{s} \X {batch[b].bufs[s][k] : k \in DOMAIN batch[b].bufs[s]} :
                  s \in DOMAIN batch[b].bufs}

NothingStranded ==
  \A i \in sent :
    \/ got[i] > 0 \/ i \in lost
    \/ \E t \in Threads : i \in cur[t].items
    \/ \E k \in DOMAIN mInflightBatches : i \in Queued(mInflightBatches[k])

\* A batch that is complete leaves the deque, although each call looks only at the
\* first one: once all is answered and no call is running, the deque is empty.
QuiescentBatchesGone ==
  call = "idle" /\ Owed = {} /\ (\A t \in Threads : pc[t] = "idle")
    => mInflightBatches = <<>>

\* Without errors every accepted request is answered in full, unless a callback
\* that took more than a second made the session drop a piece.
AnsweredInFull ==
  \A f \in Frames :
    f \in submitted ~> \A l \in Lanes : Optional(<<l, f>>) \/ got[<<l, f>>] > 0 \/ <<l, f>> \in lost

\* "When error happened, stop batching for all batches earlier": the flush takes
\* batches up to the one of the frame in error, and none beyond.
ErrorFlushStaysEarlier ==
  pc["error"] = "first" =>
    mInflightBatches # <<>> /\ Head(mInflightBatches) <= cur["error"].frame

\* "since HAL must always send buffers in order, no frameNumber tracking is needed":
\* the k-th buffer a batch holds for a stream is that of its k-th frame.
PositionGivesFrame ==
  \A b \in Frames : \A s \in DOMAIN batch[b].bufs : \A k \in DOMAIN batch[b].bufs[s] :
    batch[b].bufs[s][k] = b + k - 1
=============================================================================
