------------------------ MODULE ResultBatcherProofs ------------------------
(***************************************************************************)
(* ResultBatcher implements FrameDelivery, for every set of streams, every *)
(* number of partial results, of requests and of errors, if the HAL        *)
(* answers a burst only after the call has returned; then, that no batch   *)
(* stays behind, and the types.                                            *)
(*                                                                         *)
(* A lemma <Action>Step says of an action that it keeps the invariant and  *)
(* is a step of the contract, or none of its variables change.             *)
(***************************************************************************)
EXTENDS ResultBatcher, TLAPS

---------------------------------------------------------------------------
(* What the invariant speaks of. *)

Live        == {mInflightBatches[k] : k \in DOMAIN mInflightBatches}
FramesOf(b) == b..batch[b].last
Strict      == {Shutter, NumPartial} \cup Streams     \* lanes whose order is promised
Handled(i)  == got[i] > 0 \/ i \in lost
Newest(l, f) == <<l, f>> \in sent /\ \A j \in sent : j[1] = l => j[2] <= f

\* What a batch holds back; a buffer has the frame of its position.
HeldBuffers(b) == {i \in Item : /\ i[1] \in DOMAIN batch[b].bufs
                                /\ i[2] - b + 1 \in DOMAIN batch[b].bufs[i[1]]}
Waiting(b) == batch[b].shutters \cup batch[b].mds \cup HeldBuffers(b)

\* What a thread has brought in and neither queued nor handed on.
ShutterHand == IF pc["shutter"] \in {"single", "queue"} THEN cur["shutter"].items ELSE {}
ResultHand  == IF pc["result"] \in {"single", "queue", "others"} THEN cur["result"].items ELSE {}
Hand        == ShutterHand \cup ResultHand

\* The thread that brings the last frame of a batch is about to empty the lane.
Carries(s) ==
  \/ pc["result"] = "queue" /\ <<s, cur["result"].frame>> \in cur["result"].items
  \/ pc["result"] \in {"others", "metadata", "buffers"} /\ s \in cur["result"].filled

AtLast(l, b) ==
  \/ l = Shutter /\ pc["shutter"] = "queue" /\ cur["shutter"].frame = batch[b].last
  \/ /\ cur["result"].frame = batch[b].last
     /\ \/ /\ l = NumPartial
           /\ pc["result"] \in {"queue", "others", "metadata"}
           /\ cur["result"].partial = NumPartial
        \/ l \in Streams /\ Carries(l)

DoneLane(l, b) ==
  \/ l = Shutter /\ batch[b].shutterDone
  \/ l = NumPartial /\ batch[b].progress = NumPartial
  \/ l \in batch[b].bufsDone

---------------------------------------------------------------------------
(* The invariant. *)

Batch == [last : Nat, shutters : SUBSET Item, shutterDone : BOOLEAN,
          bufs : UNION {[S -> Seq(Frames)] : S \in SUBSET Streams}, bufsDone : SUBSET Streams,
          mds : SUBSET Item, progress : 0..NumPartial, removed : BOOLEAN]

Message == [frame : Frames \cup {None}, batch : Frames \cup {None}, partial : 0..NumPartial,
            items : SUBSET Item, filled : SUBSET Streams, idx : Nat]

Holding  == {"others", "metadata", "buffers", "unlock", "leave"}
Flushing == {"buffers", "metadata", "pop"}
Labels   == {"idle", "single", "queue", "check", "lock", "first", "crashed"} \cup Holding \cup Flushing

Types ==
  /\ call \in {"idle", "submit", "register"}
  /\ burst \in [first : Nat, last : Nat]
  /\ nextFrame \in 1..(MaxFrames + 1)
  /\ submitted \subseteq Frames
  /\ mStreamsToBatch \subseteq Streams
  /\ mInflightBatches \in Seq(Frames)
  /\ batch \in [Frames -> Batch]
  /\ mLock \in {"free", "error"}
  /\ batchLock \in [Frames -> {"free", "result", "error"}]
  /\ mProcessCaptureResultLock \in {"free", "result", "error"}
  /\ pc \in [Threads -> Labels]
  /\ pc["shutter"] \in {"idle", "single", "queue", "check"}
  /\ pc["result"] \in {"idle", "single", "queue", "check"} \cup Holding
  /\ pc["error"] \in {"idle", "single", "lock", "first", "crashed"} \cup Flushing
  /\ cur \in [Threads -> Message]
  /\ errored \subseteq submitted
  /\ sent \subseteq Item /\ lost \subseteq Item /\ got \in [Item -> Nat]

\* The client's call: the frames of its burst so far, none of them answered yet.
Client ==
  /\ \A f \in submitted : f < nextFrame
  /\ call # "idle" =>
       /\ burst.first \in Frames /\ burst.last \in Frames
       /\ burst.first <= nextFrame
       /\ \A f \in Frames : burst.first <= f /\ f < nextFrame => f \in submitted
       /\ \A i \in sent : i[2] < burst.first
       /\ \A f \in errored : f < burst.first
  /\ call = "submit" => nextFrame <= burst.last
  /\ call = "register" => burst.first < burst.last /\ nextFrame = burst.last + 1

\* Batches in the deque: of accepted frames, in their order; those removed came before.
Settled(b) == b <= batch[b].last /\ batch[b].last < nextFrame
                /\ (call # "idle" => batch[b].last < burst.first)
Deque ==
  /\ \A b \in Live : ~batch[b].removed /\ Settled(b) /\ FramesOf(b) \subseteq submitted
  /\ \A j, k \in DOMAIN mInflightBatches :
       j < k => batch[mInflightBatches[j]].last < mInflightBatches[k]
  /\ \A b \in Frames : batch[b].removed => Settled(b) /\ \A a \in Live : batch[b].last < a

\* Each lane is complete up to the piece sent last, but for what errors stand for.
LanesFull ==
  /\ \A i \in sent : i[2] \in submitted
  /\ \A i \in sent : i[1] \in Strict =>
       \A f \in submitted : f < i[2] => <<i[1], f>> \in sent \/ (f \in Excused /\ i[1] \notin Streams)

\* An error that has been told has taken its batch out of the deque; one under way will.
Errors ==
  /\ pc["error"] = "idle" => cur["error"].frame = None
  /\ pc["error"] # "idle" => cur["error"].frame \in errored
  /\ \A f \in Excused : \A b \in Live : f \notin FramesOf(b)
  /\ pc["error"] = "single" => \A b \in Live : cur["error"].frame \notin FramesOf(b)
  /\ pc["error"] \in {"lock", "first"} \cup Flushing =>
       \A k \in DOMAIN mInflightBatches :
         cur["error"].frame \in FramesOf(mInflightBatches[k]) => k <= cur["error"].idx

Locks ==
  /\ mLock = "error" <=> pc["error"] \in {"first", "crashed"} \cup Flushing
  /\ pc["error"] \in Flushing => mInflightBatches # <<>>
  /\ \A b \in Frames :
       /\ batchLock[b] = "result" <=> pc["result"] \in Holding /\ cur["result"].batch = b
       /\ batchLock[b] = "error" <=> pc["error"] \in Flushing /\ Head(mInflightBatches) = b

\* A thread's message and its batch.
Workers ==
  /\ pc["shutter"] \in {"single", "queue"} =>
       cur["shutter"].items = {<<Shutter, cur["shutter"].frame>>}
  /\ pc["shutter"] = "queue" =>
       /\ cur["shutter"].batch \in Frames
       /\ cur["shutter"].frame \in FramesOf(cur["shutter"].batch)
       /\ cur["shutter"].batch \in Live \/ batch[cur["shutter"].batch].removed
  /\ pc["result"] \in {"single", "queue"} =>
       /\ cur["result"].items # {}
       /\ cur["result"].items \subseteq (Partials \cup Streams) \X {cur["result"].frame}
       /\ \A p \in Partials :
            <<p, cur["result"].frame>> \in cur["result"].items <=> p = cur["result"].partial
  /\ pc["result"] \in {"queue"} \cup (Holding \ {"leave"}) =>
       /\ cur["result"].batch \in Frames
       /\ cur["result"].frame \in FramesOf(cur["result"].batch)
       /\ cur["result"].batch \in Live
            \/ (pc["result"] = "queue" /\ batch[cur["result"].batch].removed)
       /\ cur["result"].partial > 0 => Newest(cur["result"].partial, cur["result"].frame)
  /\ pc["result"] = "others" =>
       cur["result"].items \subseteq
         (Streams \ DOMAIN batch[cur["result"].batch].bufs) \X {cur["result"].frame}
  /\ pc["result"] \in {"others", "metadata", "buffers"} =>
       /\ cur["result"].filled \subseteq DOMAIN batch[cur["result"].batch].bufs
       /\ \A s \in cur["result"].filled : Newest(s, cur["result"].frame)
  /\ pc["result"] \in {"metadata", "buffers"} => cur["result"].frame = batch[cur["result"].batch].last
  /\ pc["result"] = "leave" => cur["result"].batch \in Frames
  /\ pc["shutter"] = "single" => \A b \in Live : cur["shutter"].frame \notin FramesOf(b)
  /\ pc["result"] = "single" => \A b \in Live : cur["result"].frame \notin FramesOf(b)

\* A piece in a thread's hand is the last of its lane, and unhandled.
InHand ==
  /\ Hand \subseteq sent
  /\ \A i \in Hand : ~Handled(i) /\ Newest(i[1], i[2])
  /\ \A i \in Hand : i[1] \in Partials => \A q \in Partials : q > i[1] => <<q, i[2]>> \notin sent

\* A piece held back is of its batch, sent, unhandled, and in no thread's hand.
HeldBack ==
  \A b \in Live :
    /\ batch[b].shutters \subseteq {Shutter} \X Frames /\ batch[b].mds \subseteq Partials \X Frames
    /\ \A i \in Waiting(b) : i \in sent /\ i[2] \in FramesOf(b) /\ ~Handled(i) /\ i \notin Hand

\* A batched stream has as many buffers as were sent, unless it was handed on.
Positions ==
  \A b \in Live : \A s \in DOMAIN batch[b].bufs :
    /\ \A k \in DOMAIN batch[b].bufs[s] : batch[b].bufs[s][k] = b + k - 1
    /\ s \notin batch[b].bufsDone =>
         \A f \in FramesOf(b) : f < b + Len(batch[b].bufs[s]) <=> <<s, f>> \in sent \ ResultHand

\* A lane that counts as delivered holds nothing back, and its last piece has come.
Delivered ==
  \A b \in Live :
    /\ batch[b].bufsDone \subseteq DOMAIN batch[b].bufs
    /\ batch[b].shutterDone => batch[b].shutters = {}
    /\ batch[b].progress = NumPartial => batch[b].mds = {}
    /\ \A s \in batch[b].bufsDone : batch[b].bufs[s] = <<>>
    /\ batchLock[b] # "error" =>
         \A l \in Strict : DoneLane(l, b) => <<l, batch[b].last>> \in sent /\ ~AtLast(l, b)

\* A lane holds something back only until its last piece has come and its bearer is through.
Emptied ==
  \A b \in Live : \A i \in Waiting(b) :
    i[1] \in Strict => <<i[1], batch[b].last>> \notin sent \/ AtLast(i[1], b)

\* Nothing is stranded, and nothing is handled that was not sent.
Placed ==
  /\ \A i \in sent : Handled(i) \/ i \in Hand \/ \E b \in Live : i \in Waiting(b)
  /\ \A i \in Item : Handled(i) => i \in sent

\* A batch of streams configured before has all its buffers behind it.
Reconfigured ==
  \A b \in Live : DOMAIN batch[b].bufs # mStreamsToBatch =>
    \A s \in DOMAIN batch[b].bufs :
      batch[b].bufs[s] = <<>> /\ <<s, batch[b].last>> \in sent /\ Handled(<<s, batch[b].last>>)

\* How far the flush of the first batch is.
Flushed ==
  pc["error"] \in Flushing =>
    LET b == Head(mInflightBatches)
    IN  /\ batch[b].shutterDone
        /\ pc["error"] \in {"metadata", "pop"} => \A s \in DOMAIN batch[b].bufs : batch[b].bufs[s] = <<>>
        /\ pc["error"] = "pop" => batch[b].progress = NumPartial

IInv == /\ Types /\ Client /\ Deque /\ LanesFull /\ Errors /\ Locks /\ Workers /\ InHand /\ HeldBack
        /\ Positions /\ Delivered /\ Emptied /\ Placed /\ Reconfigured /\ Flushed

---------------------------------------------------------------------------
(* Lanes, pieces and batches. *)

\* Numbers and lanes: no stream is taken for a partial result or the shutter.
LEMMA Constants ==
  /\ NumPartial \in Nat \ {0} /\ MaxFrames \in Nat
  /\ Streams \subseteq Nat /\ \A s \in Streams : s > NumPartial
  /\ NumPartial \in Partials /\ 0 \notin Partials /\ 0 \notin Streams
  /\ Partials \cap Streams = {}
  /\ Partials \subseteq Nat /\ Frames \subseteq Nat /\ Lanes \subseteq Nat
  /\ \A p \in Partials : 0 < p /\ p <= NumPartial
  /\ \A f \in Frames : 1 <= f /\ f <= MaxFrames
<1>1. /\ NumPartial \in Nat \ {0} /\ MaxFrames \in Nat
      /\ Streams \subseteq Nat /\ \A s \in Streams : s > NumPartial
  BY ConstantsAssumption
<1> QED BY <1>1 DEF Partials, Frames, Lanes, Shutter

\* A piece is a pair of a lane and a frame.
LEMMA Pieces ==
  /\ \A i \in Item : i = <<i[1], i[2]>> /\ i[1] \in Lanes /\ i[2] \in Frames /\ i[2] \in Nat /\ i[1] \in Nat
  /\ \A l \in Lanes, f \in Frames : <<l, f>> \in Item
  /\ \A l, f : <<l, f>> \in Item => l \in Lanes /\ f \in Frames
  /\ Partials \cup Streams \cup {Shutter} \cup Strict \subseteq Lanes
<1>1. Partials \cup Streams \cup {Shutter} \cup Strict \subseteq Lanes
  BY Constants DEF Lanes, Strict
<1>2. \A l \in Lanes, f \in Frames : <<l, f>> \in Item
  BY DEF Item
<1>3. \A i \in Item : i = <<i[1], i[2]>> /\ i[1] \in Lanes /\ i[2] \in Frames
  BY DEF Item
<1>4. \A l, f : <<l, f>> \in Item => l \in Lanes /\ f \in Frames
  BY DEF Item
<1> QED BY <1>1, <1>2, <1>3, <1>4, Constants

\* The batches of the deque are named by frames.
LEMMA LiveBatches ==
  ASSUME Types
  PROVE  /\ Live \subseteq Frames
         /\ mInflightBatches # <<>> => Head(mInflightBatches) \in Live
         /\ \A b \in Live : \E k \in DOMAIN mInflightBatches : b = mInflightBatches[k]
         /\ \A k \in DOMAIN mInflightBatches : mInflightBatches[k] \in Live
<1>1. mInflightBatches \in Seq(Frames)
  BY DEF Types
<1> QED BY <1>1 DEF Live

\* The batches in the deque are in the order of their frames, which do not meet.
LEMMA Ordered ==
  ASSUME Types, Deque
  PROVE  /\ \A b \in Live : b \in Nat /\ batch[b].last \in Nat /\ b <= batch[b].last
                            /\ b \in FramesOf(b) /\ batch[b].last \in FramesOf(b)
                            /\ batch[b].last \in Frames /\ FramesOf(b) \subseteq Frames
         /\ \A a, b \in Live : a # b => batch[a].last < b \/ batch[b].last < a
         /\ \A b \in Live : b # Head(mInflightBatches) => batch[Head(mInflightBatches)].last < b
         /\ \A a, b \in Live : \A f \in FramesOf(a) : f \in FramesOf(b) => a = b
         /\ \A j, k \in DOMAIN mInflightBatches : mInflightBatches[j] = mInflightBatches[k] => j = k
<1>1. mInflightBatches \in Seq(Frames) /\ \A b \in Frames : b \in Nat /\ batch[b].last \in Nat
  BY Constants DEF Types, Batch
<1>2. Live \subseteq Frames
  BY LiveBatches
<1>3. \A b \in Live : b \in Nat /\ batch[b].last \in Nat /\ b <= batch[b].last
  BY <1>1, <1>2 DEF Deque, Settled
<1>4. \A b \in Live : /\ b \in FramesOf(b) /\ batch[b].last \in FramesOf(b)
                      /\ batch[b].last \in Frames /\ FramesOf(b) \subseteq Frames
  <2>1. \A b \in Live : b \in FramesOf(b) /\ batch[b].last \in FramesOf(b)
    BY <1>3 DEF FramesOf
  <2> QED BY <2>1 DEF Deque, Types
<1>5. \A j, k \in DOMAIN mInflightBatches :
        j < k => batch[mInflightBatches[j]].last < mInflightBatches[k]
  BY DEF Deque
<1>6. DOMAIN mInflightBatches = 1..Len(mInflightBatches)
  BY <1>1
<1>7. \A a, b \in Live : a # b => batch[a].last < b \/ batch[b].last < a
  BY <1>1, <1>5, <1>6 DEF Live
<1>8. \A b \in Live : b # Head(mInflightBatches) => batch[Head(mInflightBatches)].last < b
  BY <1>1, <1>5, <1>6 DEF Live
<1>9. \A a, b \in Live : \A f \in FramesOf(a) : f \in FramesOf(b) => a = b
  BY <1>3, <1>7 DEF FramesOf
<1>10. \A j, k \in DOMAIN mInflightBatches : mInflightBatches[j] = mInflightBatches[k] => j = k
  <2>1. \A j, k \in DOMAIN mInflightBatches : j < k => mInflightBatches[j] # mInflightBatches[k]
    BY <1>1, <1>3, <1>5, <1>6 DEF Live
  <2> QED BY <2>1, <1>6
<1> QED BY <1>3, <1>4, <1>7, <1>8, <1>9, <1>10

\* What is in a batch, field by field.
LEMMA WhatWaits ==
  ASSUME NEW b
  PROVE  \A i : i \in Waiting(b) <=>
           \/ i \in batch[b].shutters \/ i \in batch[b].mds
           \/ /\ i \in Item /\ i[1] \in DOMAIN batch[b].bufs
              /\ i[2] - b + 1 \in DOMAIN batch[b].bufs[i[1]]
BY DEF Waiting, HeldBuffers

\* A batch's fields, each with its type.
LEMMA BatchFields ==
  ASSUME Types, NEW b \in Frames
  PROVE  /\ batch[b] \in Batch
         /\ batch[b].last \in Nat /\ batch[b].shutters \subseteq Item /\ batch[b].mds \subseteq Item
         /\ batch[b].shutterDone \in BOOLEAN /\ batch[b].removed \in BOOLEAN
         /\ batch[b].progress \in 0..NumPartial /\ batch[b].bufsDone \subseteq Streams
         /\ DOMAIN batch[b].bufs \subseteq Streams
         /\ batch[b].bufs \in [DOMAIN batch[b].bufs -> Seq(Frames)]
         /\ \A s \in DOMAIN batch[b].bufs :
              batch[b].bufs[s] \in Seq(Frames)
                /\ DOMAIN batch[b].bufs[s] = 1..Len(batch[b].bufs[s]) /\ Len(batch[b].bufs[s]) \in Nat
<1>1. batch[b] \in Batch
  BY DEF Types
<1>2. PICK S \in SUBSET Streams : batch[b].bufs \in [S -> Seq(Frames)]
  BY <1>1 DEF Batch
<1>3. \A s \in S : batch[b].bufs[s] \in Seq(Frames)
  BY <1>2
<1> QED BY <1>1, <1>2, <1>3 DEF Batch

\* The lanes of what waits in a live batch, and its frames.
LEMMA LanesHeld ==
  ASSUME Types, Deque, HeldBack, NEW b \in Live
  PROVE  /\ \A i \in Waiting(b) : i \in sent /\ i \in Item /\ i[2] \in FramesOf(b)
         /\ \A i \in Waiting(b) : i[1] = Shutter <=> i \in batch[b].shutters
         /\ \A i \in Waiting(b) : i[1] \in Partials <=> i \in batch[b].mds
         /\ \A i \in Waiting(b) : i[1] \in Streams <=> i \in HeldBuffers(b)
<1>1. b \in Frames /\ DOMAIN batch[b].bufs \subseteq Streams
  BY LiveBatches, BatchFields
<1>2. \A i \in Waiting(b) : i \in sent /\ i \in Item /\ i[2] \in FramesOf(b)
  BY DEF HeldBack, Types
<1>3. \A i \in batch[b].shutters : i[1] = Shutter
  BY DEF HeldBack
<1>4. \A i \in batch[b].mds : i[1] \in Partials
  BY DEF HeldBack
<1>5. \A i \in HeldBuffers(b) : i[1] \in Streams
  BY <1>1 DEF HeldBuffers
<1> QED BY <1>2, <1>3, <1>4, <1>5, Constants DEF Waiting, Shutter

---------------------------------------------------------------------------
(* Why nothing is overtaken. *)

\* Within a live batch the strict lanes are full up to any piece that was sent.
LEMMA NoGap ==
  ASSUME Types, Deque, LanesFull, Errors, NEW i \in sent, i[1] \in Strict,
         NEW b \in Live, NEW f \in FramesOf(b), f <= i[2]
  PROVE  <<i[1], f>> \in sent
<1>1. i \in Item /\ f \in submitted /\ f \in Nat
  BY Ordered, Constants DEF Types, Deque
<1>2. CASE f = i[2]
  BY <1>1, <1>2, Pieces
<1>3. CASE f # i[2]
  <2>1. f < i[2]
    BY <1>1, <1>3, Pieces
  <2>2. f \notin Excused
    BY DEF Errors
  <2> QED BY <1>1, <2>1, <2>2 DEF LanesFull
<1> QED BY <1>2, <1>3

\* Whoever is about to empty a lane has brought its newest piece.
LEMMA CarrierNewest ==
  ASSUME Types, Workers, InHand, NEW l \in Strict, NEW b \in Live, AtLast(l, b)
  PROVE  Newest(l, batch[b].last)
<1>1. CASE l = Shutter
  <2>1. pc["shutter"] = "queue" /\ cur["shutter"].frame = batch[b].last
    BY <1>1, Constants DEF AtLast, Shutter
  <2>2. <<Shutter, batch[b].last>> \in Hand
    BY <2>1 DEF Workers, Hand, ShutterHand
  <2> QED BY <1>1, <2>2 DEF InHand
<1>2. CASE l = NumPartial
  BY <1>2, Constants DEF AtLast, Workers, Holding, Shutter
<1>3. CASE l \in Streams
  <2>1. cur["result"].frame = batch[b].last /\ Carries(l)
    BY <1>3, Constants DEF AtLast, Shutter
  <2>2. CASE pc["result"] = "queue" /\ <<l, cur["result"].frame>> \in cur["result"].items
    <3>1. <<l, batch[b].last>> \in Hand
      BY <2>1, <2>2 DEF Hand, ResultHand
    <3> QED BY <3>1 DEF InHand
  <2>3. CASE pc["result"] \in {"others", "metadata", "buffers"} /\ l \in cur["result"].filled
    BY <2>1, <2>3 DEF Workers
  <2> QED BY <2>1, <2>2, <2>3 DEF Carries
<1> QED BY <1>1, <1>2, <1>3 DEF Strict

\* An unhandled piece before another of its lane waits in the batch of both.
LEMMA WaitsTogether ==
  ASSUME IInv, NEW i \in sent, i[1] \in Strict,
         NEW j \in sent, j[1] = i[1], j[2] < i[2], ~Handled(j)
  PROVE  \E b \in Live : j \in Waiting(b) /\ i[2] \in FramesOf(b)
<1> USE DEF IInv
<1>1. /\ i \in Item /\ i[2] \in Nat /\ j \in Item /\ j[2] \in Nat
      /\ i = <<i[1], i[2]>> /\ j = <<j[1], j[2]>>
  BY Pieces DEF Types
<1>2. j \notin Hand
  BY <1>1 DEF InHand, Newest
<1>3. PICK b \in Live : j \in Waiting(b)
  BY <1>2 DEF Placed
<1>4. j[2] \in FramesOf(b) /\ b \in Nat /\ batch[b].last \in Nat /\ batch[b].last \in FramesOf(b)
  BY <1>3, LanesHeld, Ordered
<1>5. CASE i[2] <= batch[b].last
  BY <1>1, <1>3, <1>4, <1>5 DEF FramesOf
<1>6. CASE batch[b].last < i[2]
  <2>1. <<i[1], batch[b].last>> \in sent
    BY <1>4, <1>6, NoGap, <1>1
  <2>2. AtLast(i[1], b)
    BY <1>3, <2>1 DEF Emptied
  <2>3. Newest(i[1], batch[b].last)
    BY <2>2, CarrierNewest
  <2> QED BY <1>1, <1>4, <1>6, <2>3 DEF Newest
<1> QED BY <1>1, <1>4, <1>5, <1>6

\* The framework gets the pieces of a callback, or they are thrown away.
HandsOn(items) ==
  \/ got' = [i \in Item |-> IF i \in items THEN got[i] + 1 ELSE got[i]] /\ lost' = lost
  \/ got' = got /\ lost' = lost \cup items

LEMMA Callbacks ==
  /\ \A items : Notify(items) => HandsOn(items) /\ mProcessCaptureResultLock' = mProcessCaptureResultLock
  /\ \A t, items : Invoke(t, items) =>
       HandsOn(items) /\ mProcessCaptureResultLock' \in {t, mProcessCaptureResultLock}
BY DEF HandsOn, Notify, Invoke, Received

\* Handing on unhandled pieces, with all that waits before them in their batch, is a step
\* of the contract.
LEMMA StepOfContract ==
  ASSUME IInv, NEW I \in SUBSET sent, HandsOn(I), sent' = sent,
         \A i \in I : ~Handled(i),
         \A i \in I : i[1] \in Strict =>
           \A b \in Live : i[2] \in FramesOf(b) =>
             \A j \in Waiting(b) : j[1] = i[1] /\ j[2] < i[2] => j \in I
  PROVE  /\ [Contract!Next]_(Contract!vars)
         /\ \A i \in Item : Handled(i)' <=> Handled(i) \/ i \in I
         /\ got' \in [Item -> Nat] /\ lost' \subseteq Item
<1>1. sent \subseteq Item /\ got \in [Item -> Nat] /\ lost \subseteq Item
  BY DEF IInv, Types
<1>2. I \in SUBSET Contract!Pending
  BY DEF Contract!Pending, Contract!Handled, Handled
<1>3. Contract!InOrder(I)
  <2> SUFFICES ASSUME NEW i \in I, NEW j \in Contract!Pending,
                      i[1] \notin 1..(NumPartial - 1), j[1] = i[1], j[2] < i[2]
               PROVE  j \in I
    BY DEF Contract!InOrder
  <2>1. i[1] \in Strict
    <3>1. i[1] \in Lanes
      BY <1>1, Pieces
    <3>2. i[1] \in Partials => i[1] = NumPartial
      BY Constants DEF Partials
    <3> QED BY <3>1, <3>2 DEF Lanes, Strict
  <2>2. j \in sent /\ ~Handled(j)
    BY DEF Contract!Pending, Contract!Handled, Handled
  <2>3. PICK b \in Live : j \in Waiting(b) /\ i[2] \in FramesOf(b)
    BY <2>1, <2>2, WaitsTogether
  <2> QED BY <2>1, <2>3
<1>4. Contract!Deliver(I) \/ Contract!Drop(I)
  BY <1>3 DEF HandsOn, Contract!Deliver, Contract!Drop, Item, Contract!Item, Contract!Frames, Frames
<1>5. [Contract!Next]_(Contract!vars)
  BY <1>2, <1>4 DEF Contract!Next
<1>6. /\ \A i \in Item : Handled(i)' <=> Handled(i) \/ i \in I
      /\ got' \in [Item -> Nat] /\ lost' \subseteq Item
  BY <1>1 DEF HandsOn, Handled
<1> QED BY <1>5, <1>6

---------------------------------------------------------------------------
(* What steps leave as it is. *)

LEMMA InitIInv == Init => IInv
<1> SUFFICES ASSUME Init PROVE IInv
  OBVIOUS
<1> USE DEF Init
<1>1. /\ Live = {} /\ Hand = {} /\ sent = {} /\ submitted = {}
      /\ \A t \in Threads : pc[t] = "idle"
  BY DEF Live, Hand, ShutterHand, ResultHand, Threads
<1>2. pc["shutter"] = "idle" /\ pc["result"] = "idle" /\ pc["error"] = "idle"
  BY DEF Threads
<1>3. Types
  <2>1. NoBatch \in Batch
    <3>1. <<>> \in [{} -> Seq(Frames)]
      OBVIOUS
    <3>2. <<>> \in UNION {[S -> Seq(Frames)] : S \in SUBSET Streams}
      BY <3>1
    <3>3. 0 \in 0..NumPartial
      BY Constants
    <3> QED BY <3>2, <3>3 DEF NoBatch, Batch, None
  <2>2. Idle \in Message
    BY Constants DEF Idle, Message, None
  <2>3. pc \in [Threads -> Labels]
    BY DEF Labels
  <2> QED BY <1>2, <2>1, <2>2, <2>3, Constants DEF Types
<1>4. Client /\ Deque /\ LanesFull
  BY <1>1 DEF Client, Deque, LanesFull, NoBatch
<1>5. Errors
  BY <1>1, <1>2 DEF Errors, Excused, Threads, Idle, None, Flushing
<1>6. Locks /\ Workers /\ Flushed
  BY <1>2 DEF Locks, Workers, Flushed, Holding, Flushing
<1>7. InHand /\ HeldBack /\ Positions /\ Delivered /\ Emptied /\ Placed /\ Reconfigured
  BY <1>1 DEF InHand, HeldBack, Positions, Delivered, Emptied, Placed, Handled, Reconfigured
<1> QED BY <1>3, <1>4, <1>5, <1>6, <1>7 DEF IInv

\* The frames, removal and streams of the batches stay.
SameShape ==
  /\ mInflightBatches' = mInflightBatches
  /\ \A b \in Frames : /\ batch'[b].last = batch[b].last /\ batch'[b].removed = batch[b].removed
                       /\ DOMAIN batch'[b].bufs = DOMAIN batch[b].bufs

\* Only thread t moves.
OnlyMoves(t) == \A u \in Threads \ {t} : pc'[u] = pc[u] /\ cur'[u] = cur[u]

\* Without a change of shape the batches keep their frames.
LEMMA ShapeKept ==
  ASSUME IInv, SameShape
  PROVE  Live' = Live /\ \A b \in Frames : FramesOf(b)' = FramesOf(b)
BY DEF SameShape, Live, FramesOf

\* The steps of a HAL thread that neither bring a piece nor remove a batch.
LEMMA StructureKept ==
  ASSUME IInv, SameShape, UNCHANGED <<clientVars, sent, errored, mStreamsToBatch>>,
         NEW t \in {"shutter", "result"}, OnlyMoves(t)
  PROVE  Client' /\ Deque' /\ LanesFull' /\ Errors' /\ Excused' = Excused
<1>1. /\ UNCHANGED <<call, burst, nextFrame, submitted, sent, errored, mStreamsToBatch>>
      /\ mInflightBatches' = mInflightBatches
      /\ pc'["error"] = pc["error"] /\ cur'["error"] = cur["error"]
  BY DEF clientVars, OnlyMoves, Threads, SameShape
<1>2. Live' = Live /\ \A b \in Frames : FramesOf(b)' = FramesOf(b)
  BY ShapeKept
<1>3. Live \subseteq Frames
  BY LiveBatches DEF IInv
<1>4. Client'
  BY <1>1 DEF IInv, Client
<1>5. Deque'
  <2>1. \A b \in Frames : Settled(b)' <=> Settled(b)
    BY <1>1 DEF Settled, SameShape
  <2>2. \A k \in DOMAIN mInflightBatches : mInflightBatches[k] \in Frames
    BY <1>3 DEF Live
  <2> QED BY <1>1, <1>2, <1>3, <2>1, <2>2 DEF IInv, Deque, SameShape
<1>6. Excused' = Excused
  BY <1>1 DEF Excused
<1>7. LanesFull'
  BY <1>1, <1>6 DEF IInv, LanesFull
<1>8. Errors'
  <2>1. \A k \in DOMAIN mInflightBatches : mInflightBatches[k] \in Frames
    BY <1>3 DEF Live
  <2> QED BY <1>1, <1>2, <1>3, <1>6, <2>1 DEF IInv, Errors
<1> QED BY <1>4, <1>5, <1>6, <1>7, <1>8

\* Steps that hand on what was in a hand and leave the batches alone.
LEMMA BatchesLeft ==
  ASSUME IInv, NEW I \in SUBSET Hand,
         batch' = batch, mInflightBatches' = mInflightBatches, sent' = sent,
         mStreamsToBatch' = mStreamsToBatch \/ Reconfigured',
         \A i \in Item : Handled(i)' <=> Handled(i) \/ i \in I,
         Hand' = Hand \ I,
         \A b \in Live : \A s \in DOMAIN batch[b].bufs, f \in FramesOf(b) :
           <<s, f>> \in ResultHand' <=> <<s, f>> \in ResultHand,
         \A l \in Strict, b \in Live : AtLast(l, b)' <=> AtLast(l, b),
         \A b \in Live : batchLock'[b] = "error" <=> batchLock[b] = "error"
  PROVE  InHand' /\ HeldBack' /\ Positions' /\ Delivered' /\ Emptied' /\ Placed' /\ Reconfigured'
<1> USE DEF IInv
<1>1. Live' = Live /\ \A b : FramesOf(b)' = FramesOf(b) /\ Waiting(b)' = Waiting(b)
  BY DEF Live, FramesOf, Waiting, HeldBuffers
<1>2. sent \subseteq Item
  BY DEF Types
<1>3. InHand'
  <2>1. \A i \in Hand' : i \in Hand /\ i \notin I /\ i \in Item
    BY <1>2 DEF InHand
  <2>2. \A i \in Hand' : ~Handled(i)'
    BY <2>1 DEF InHand
  <2> QED BY <2>1, <2>2 DEF InHand, Newest
<1>4. HeldBack'
  <2>1. \A b \in Live : \A i \in Waiting(b) : i \in Item /\ i \notin I /\ i \notin Hand'
    BY <1>2 DEF HeldBack
  <2> QED BY <1>1, <2>1 DEF HeldBack
<1>5. Positions'
  <2> SUFFICES ASSUME NEW b \in Live, NEW s \in DOMAIN batch[b].bufs
               PROVE  /\ \A k \in DOMAIN batch[b].bufs[s] : batch[b].bufs[s][k] = b + k - 1
                      /\ s \notin batch[b].bufsDone =>
                           \A f \in FramesOf(b) :
                             f < b + Len(batch[b].bufs[s]) <=> <<s, f>> \in sent \ ResultHand'
    BY <1>1 DEF Positions
  <2> QED BY DEF Positions
<1>6. Delivered'
  <2>1. \A l : \A b \in Live : DoneLane(l, b)' <=> DoneLane(l, b)
    BY DEF DoneLane
  <2> QED BY <1>1, <2>1 DEF Delivered
<1>7. Emptied'
  BY <1>1 DEF Emptied
<1>8. Placed'
  <2>1. \A i \in sent : Handled(i)' \/ i \in Hand' \/ \E b \in Live : i \in Waiting(b)
    BY <1>2 DEF Placed
  <2>2. \A i \in Item : Handled(i)' => i \in sent
    BY DEF InHand, Placed
  <2> QED BY <1>1, <2>1, <2>2 DEF Placed
<1>9. Reconfigured'
  <2>1. \A b \in Live : \A s \in DOMAIN batch[b].bufs : <<s, batch[b].last>> \in sent =>
          (Handled(<<s, batch[b].last>>) => Handled(<<s, batch[b].last>>)')
    BY <1>2
  <2> QED BY <1>1, <2>1 DEF Reconfigured
<1> QED BY <1>3, <1>4, <1>5, <1>6, <1>7, <1>8, <1>9

\* A thread that goes to a label leaves the others where they are.
LEMMA Moves ==
  ASSUME Types, NEW t \in Threads, NEW label \in Labels, Goto(t, label)
  PROVE  /\ pc' \in [Threads -> Labels] /\ pc'[t] = label
         /\ \A u \in Threads \ {t} : pc'[u] = pc[u]
BY DEF Types, Goto

\* So does a thread that is done.
LEMMA DoneMoves ==
  ASSUME Types, NEW t \in Threads, Done(t)
  PROVE  /\ pc' \in [Threads -> Labels] /\ pc'[t] = "idle" /\ cur' \in [Threads -> Message]
         /\ cur'[t] = Idle /\ OnlyMoves(t)
<1>1. Idle \in Message
  BY Constants DEF Idle, Message, None
<1>2. "idle" \in Labels
  BY DEF Labels
<1>3. pc' \in [Threads -> Labels] /\ pc'[t] = "idle" /\ \A u \in Threads \ {t} : pc'[u] = pc[u]
  BY <1>2, Moves DEF Done
<1> QED BY <1>1, <1>3 DEF Types, Done, OnlyMoves

---------------------------------------------------------------------------
(* Messages that go up by themselves. *)

\* A shutter of no batch, or of one that is gone.
LEMMA ShutterGoesUp ==
  ASSUME IInv, pc["shutter"] \in {"single", "queue"},
         \A b \in Live : cur["shutter"].frame \notin FramesOf(b),
         Notify(cur["shutter"].items), Done("shutter"),
         UNCHANGED <<clientVars, batchVars, lockVars, mStreamsToBatch, errored, sent>>
  PROVE  IInv' /\ [Contract!Next]_(Contract!vars)
<1> USE DEF IInv
<1> DEFINE I == cur["shutter"].items
<1>1. /\ pc["shutter"] \in {"single", "queue"} /\ Notify(I) /\ Done("shutter")
      /\ UNCHANGED <<call, burst, nextFrame, submitted, mInflightBatches, batch, mLock, batchLock,
                     mStreamsToBatch, errored, sent>>
  BY DEF clientVars, batchVars, lockVars
<1>2. /\ pc' \in [Threads -> Labels] /\ cur' \in [Threads -> Message] /\ OnlyMoves("shutter")
      /\ pc'["shutter"] = "idle" /\ cur'["shutter"] = Idle
      /\ pc'["result"] = pc["result"] /\ cur'["result"] = cur["result"]
      /\ pc'["error"] = pc["error"] /\ cur'["error"] = cur["error"]
  BY <1>1, DoneMoves DEF Threads, OnlyMoves
<1>3. I = ShutterHand /\ I = {<<Shutter, cur["shutter"].frame>>}
  BY <1>1 DEF ShutterHand, Workers
<1>4. ShutterHand' = {} /\ ResultHand' = ResultHand
  BY <1>2 DEF ShutterHand, ResultHand
<1>5. I \subseteq Hand /\ Hand' = Hand \ I
  <2>1. \A i \in ResultHand : i \notin I
    BY <1>3, Constants DEF ResultHand, Workers, Shutter
  <2> QED BY <1>3, <1>4, <2>1 DEF Hand
<1>6. /\ [Contract!Next]_(Contract!vars)
      /\ \A i \in Item : Handled(i)' <=> Handled(i) \/ i \in I
      /\ got' \in [Item -> Nat] /\ lost' \subseteq Item
  <2>1. I \subseteq sent /\ \A i \in I : ~Handled(i)
    BY <1>5 DEF InHand
  <2>2. \A i \in I : \A b \in Live : i[2] \notin FramesOf(b)
    BY <1>3
  <2>3. HandsOn(I)
    BY <1>1, Callbacks
  <2> QED BY <1>1, <2>1, <2>2, <2>3, StepOfContract
<1>7. mProcessCaptureResultLock' = mProcessCaptureResultLock
  BY <1>1, Callbacks
<1>8. Types'
  BY <1>1, <1>2, <1>6, <1>7 DEF Types
<1>9. Client' /\ Deque' /\ LanesFull' /\ Errors'
  BY <1>1, <1>2, StructureKept DEF SameShape, clientVars
<1>10. Locks'
  BY <1>1, <1>2 DEF Locks
<1>11. Live' = Live /\ \A b : FramesOf(b)' = FramesOf(b)
  BY <1>1 DEF Live, FramesOf
<1>12. Workers'
  BY <1>1, <1>2, <1>11 DEF Workers, Newest
<1>13. Flushed'
  BY <1>1, <1>2 DEF Flushed
<1>14. \A l \in Strict, b \in Live : AtLast(l, b)' <=> AtLast(l, b)
  BY <1>1, <1>2, Ordered DEF AtLast, Carries
<1> QED BY <1>1, <1>4, <1>5, <1>6, <1>8, <1>9, <1>10, <1>12, <1>13, <1>14, BatchesLeft

LEMMA SingleShutterStep ==
  ASSUME IInv, SingleShutter
  PROVE  IInv' /\ [Contract!Next]_(Contract!vars)
<1>1. \A b \in Live : cur["shutter"].frame \notin FramesOf(b)
  BY DEF IInv, Workers, SingleShutter
<1> QED BY <1>1, ShutterGoesUp DEF SingleShutter

\* A batch that was removed has no frame of those in the deque.
LEMMA RemovedApart ==
  ASSUME Types, Deque, NEW b \in Frames, batch[b].removed, NEW a \in Live
  PROVE  \A f \in FramesOf(b) : f \notin FramesOf(a)
<1>1. batch[b].last < a /\ a \in Nat /\ b \in Nat /\ batch[b].last \in Nat
  BY LiveBatches, BatchFields, Constants DEF Deque
<1> QED BY <1>1 DEF FramesOf

\* The results' thread hands on what it brought in.
LEMMA ResultGoesUp ==
  ASSUME IInv, pc["result"] \in {"single", "queue"}, pc'["result"] \in {"idle", "leave"},
         \A b \in Live : cur["result"].frame \notin FramesOf(b),
         Invoke("result", cur["result"].items), OnlyMoves("result"),
         pc' \in [Threads -> Labels], cur' \in [Threads -> Message],
         batchLock' \in [Frames -> {"free", "result", "error"}],
         UNCHANGED <<clientVars, batchVars, mLock, mStreamsToBatch, errored, sent>>,
         Locks', Workers'
  PROVE  IInv' /\ [Contract!Next]_(Contract!vars)
<1> USE DEF IInv
<1> DEFINE I == cur["result"].items
<1>1. UNCHANGED <<call, burst, nextFrame, submitted, mInflightBatches, batch, mLock,
                  mStreamsToBatch, errored, sent>>
  BY DEF clientVars, batchVars
<1>2. /\ pc'["shutter"] = pc["shutter"] /\ cur'["shutter"] = cur["shutter"]
      /\ pc'["error"] = pc["error"] /\ cur'["error"] = cur["error"]
  BY DEF Threads, OnlyMoves
<1>3. I = ResultHand /\ I \subseteq (Partials \cup Streams) \X {cur["result"].frame}
  BY DEF ResultHand, Workers
<1>4. ShutterHand' = ShutterHand /\ ResultHand' = {}
  BY <1>2 DEF ShutterHand, ResultHand
<1>5. I \subseteq Hand /\ Hand' = Hand \ I
  <2>1. \A i \in ShutterHand : i \notin I
    BY <1>3, Constants DEF ShutterHand, Workers, Shutter
  <2> QED BY <1>3, <1>4, <2>1 DEF Hand
<1>6. /\ [Contract!Next]_(Contract!vars)
      /\ \A i \in Item : Handled(i)' <=> Handled(i) \/ i \in I
      /\ got' \in [Item -> Nat] /\ lost' \subseteq Item
  <2>1. I \subseteq sent /\ \A i \in I : ~Handled(i)
    BY <1>5 DEF InHand
  <2>2. \A i \in I : \A b \in Live : i[2] \notin FramesOf(b)
    BY <1>3
  <2>3. HandsOn(I)
    BY Callbacks
  <2> QED BY <1>1, <2>1, <2>2, <2>3, StepOfContract
<1>7. mProcessCaptureResultLock' \in {"result", mProcessCaptureResultLock}
  BY Callbacks
<1>8. Types'
  <2>1. pc'["result"] \in {"idle", "single", "queue", "check"} \cup Holding
    BY DEF Holding
  <2> QED BY <1>1, <1>2, <1>6, <1>7, <2>1 DEF Types
<1>9. Client' /\ Deque' /\ LanesFull' /\ Errors'
  BY <1>1, StructureKept DEF SameShape, clientVars
<1>10. Flushed'
  BY <1>1, <1>2 DEF Flushed
<1>11. \A l \in Strict, b \in Live : AtLast(l, b)' <=> AtLast(l, b)
  BY <1>1, <1>2, Ordered DEF AtLast, Carries
<1>12. \A b \in Live : batchLock'[b] = "error" <=> batchLock[b] = "error"
  BY <1>1, <1>2, LiveBatches DEF Locks
<1>13. \A b \in Live : \A s \in DOMAIN batch[b].bufs, f \in FramesOf(b) :
         <<s, f>> \in ResultHand' <=> <<s, f>> \in ResultHand
  BY <1>3, <1>4
<1> QED BY <1>1, <1>5, <1>6, <1>8, <1>9, <1>10, <1>11, <1>12, <1>13, BatchesLeft

LEMMA SingleResultStep ==
  ASSUME IInv, SingleResult
  PROVE  IInv' /\ [Contract!Next]_(Contract!vars)
<1> USE DEF IInv
<1>1. /\ pc["result"] = "single" /\ Invoke("result", cur["result"].items) /\ Done("result")
      /\ UNCHANGED <<clientVars, batchVars, lockVars, mStreamsToBatch, errored, sent>>
  BY DEF SingleResult
<1>2. /\ pc' \in [Threads -> Labels] /\ cur' \in [Threads -> Message] /\ OnlyMoves("result")
      /\ pc'["result"] = "idle"
      /\ pc'["shutter"] = pc["shutter"] /\ cur'["shutter"] = cur["shutter"]
      /\ pc'["error"] = pc["error"] /\ cur'["error"] = cur["error"]
  BY <1>1, DoneMoves DEF Threads, OnlyMoves
<1>3. Live' = Live /\ \A b : FramesOf(b)' = FramesOf(b)
  BY <1>1 DEF Live, FramesOf, batchVars
<1>4. Locks'
  BY <1>1, <1>2 DEF Locks, Holding, batchVars, lockVars
<1>5. Workers'
  BY <1>1, <1>2, <1>3 DEF Workers, Holding, batchVars
<1>6. \A b \in Live : cur["result"].frame \notin FramesOf(b)
  BY <1>1 DEF Workers
<1> QED BY <1>1, <1>2, <1>4, <1>5, <1>6, ResultGoesUp DEF lockVars, Types

LEMMA ResultOfRemovedBatchStep ==
  ASSUME IInv, ResultOfRemovedBatch
  PROVE  IInv' /\ [Contract!Next]_(Contract!vars)
<1> USE DEF IInv
<1> DEFINE b == cur["result"].batch
<1>1. /\ pc["result"] = "queue" /\ batchLock[b] = "free" /\ batch[b].removed
      /\ batchLock' = [batchLock EXCEPT ![b] = "result"] /\ Goto("result", "leave")
      /\ Invoke("result", cur["result"].items)
      /\ UNCHANGED <<clientVars, batchVars, mLock, mStreamsToBatch, cur, errored, sent>>
  BY DEF ResultOfRemovedBatch, FallsBack
<1>2. "leave" \in Labels /\ "result" \in Threads
  BY DEF Labels, Holding, Threads
<1>3. /\ pc' \in [Threads -> Labels] /\ pc'["result"] = "leave" /\ OnlyMoves("result")
      /\ pc'["shutter"] = pc["shutter"] /\ pc'["error"] = pc["error"]
  BY <1>1, <1>2, Moves DEF Threads, OnlyMoves
<1>4. b \in Frames /\ cur["result"].frame \in FramesOf(b)
  BY <1>1 DEF Workers
<1>5. Live' = Live /\ \A a : FramesOf(a)' = FramesOf(a)
  BY <1>1 DEF Live, FramesOf, batchVars
<1>6. batchLock' \in [Frames -> {"free", "result", "error"}]
  BY <1>1 DEF Types
<1>7. Locks'
  BY <1>1, <1>3, <1>4 DEF Types, Locks, Holding, Flushing, batchVars
<1>8. Workers'
  BY <1>1, <1>3, <1>4, <1>5 DEF Workers, Holding, batchVars
<1>9. \A a \in Live : cur["result"].frame \notin FramesOf(a)
  BY <1>1, <1>4, RemovedApart
<1> QED BY <1>1, <1>3, <1>6, <1>7, <1>8, <1>9, ResultGoesUp DEF Types

---------------------------------------------------------------------------
(* Steps that touch neither a piece nor a batch. *)

\* A step that sends nothing and leaves the batches alone.
LEMMA BatchesUntouched ==
  ASSUME IInv, UNCHANGED <<batch, mInflightBatches, sent, got, lost>>,
         mStreamsToBatch' = mStreamsToBatch \/ Reconfigured',
         Hand' = Hand, ResultHand' = ResultHand,
         \A l \in Strict, b \in Live : AtLast(l, b)' <=> AtLast(l, b),
         \A b \in Live : batchLock'[b] = "error" <=> batchLock[b] = "error"
  PROVE  /\ InHand' /\ HeldBack' /\ Positions' /\ Delivered' /\ Emptied' /\ Placed' /\ Reconfigured'
         /\ [Contract!Next]_(Contract!vars)
<1> DEFINE I == {}
<1>1. \A i \in Item : Handled(i)' <=> Handled(i) \/ i \in I
  BY DEF Handled
<1>2. InHand' /\ HeldBack' /\ Positions' /\ Delivered' /\ Emptied' /\ Placed' /\ Reconfigured'
  <2>1. I \in SUBSET Hand /\ Hand' = Hand \ I
    OBVIOUS
  <2> HIDE DEF I
  <2> QED BY <1>1, <2>1, BatchesLeft
<1> QED BY <1>2 DEF Contract!vars

LEMMA UnlockBatchStep ==
  ASSUME IInv, UnlockBatch
  PROVE  IInv' /\ [Contract!Next]_(Contract!vars)
<1> USE DEF IInv
<1>1. /\ pc["result"] \in {"unlock", "leave"}
      /\ batchLock' = [batchLock EXCEPT ![cur["result"].batch] = "free"]
      /\ (Goto("result", "check") /\ UNCHANGED cur) \/ Done("result")
      /\ UNCHANGED <<clientVars, batchVars, mLock, dataVars, mStreamsToBatch, errored, sent>>
  BY DEF UnlockBatch
<1>2. /\ pc' \in [Threads -> Labels] /\ cur' \in [Threads -> Message] /\ OnlyMoves("result")
      /\ pc'["result"] \in {"idle", "check"}
      /\ pc'["shutter"] = pc["shutter"] /\ cur'["shutter"] = cur["shutter"]
      /\ pc'["error"] = pc["error"] /\ cur'["error"] = cur["error"]
  <2>1. "check" \in Labels
    BY DEF Labels
  <2> QED BY <1>1, <2>1, Moves, DoneMoves DEF Threads, OnlyMoves, Types
<1>3. UNCHANGED <<call, burst, nextFrame, submitted, mInflightBatches, batch, mLock,
                  mStreamsToBatch, errored, sent, got, lost, mProcessCaptureResultLock>>
  BY <1>1 DEF clientVars, batchVars, dataVars
<1>4. Hand' = Hand /\ ResultHand' = ResultHand
  BY <1>1, <1>2 DEF Hand, ShutterHand, ResultHand
<1>5. Client' /\ Deque' /\ LanesFull' /\ Errors'
  BY <1>3, <1>2, StructureKept DEF SameShape, clientVars
<1>6. cur["result"].batch \in Frames
  BY <1>1 DEF Workers, Holding
<1>7. Types'
  BY <1>2, <1>3, <1>1 DEF Types
<1>8. Locks'
  BY <1>1, <1>2, <1>3, <1>6 DEF Types, Locks, Holding
<1>9. Live' = Live /\ \A b : FramesOf(b)' = FramesOf(b)
  BY <1>3 DEF Live, FramesOf
<1>10. Workers'
  BY <1>2, <1>3, <1>9 DEF Workers, Holding
<1>11. Flushed'
  BY <1>2, <1>3 DEF Flushed
<1>12. \A l \in Strict, b \in Live : AtLast(l, b)' <=> AtLast(l, b)
  BY <1>1, <1>2, <1>3 DEF AtLast, Carries
<1>13. \A b \in Live : batchLock'[b] = "error" <=> batchLock[b] = "error"
  BY <1>1, <1>2, <1>6, <1>8, <1>3, LiveBatches DEF Locks
<1> QED BY <1>3, <1>4, <1>5, <1>7, <1>8, <1>10, <1>11, <1>12, <1>13, BatchesUntouched

\* Steps of the thread that reports an error, before and after the flush.
LEMMA OnlyErrorMoves ==
  ASSUME IInv, OnlyMoves("error"), pc' \in [Threads -> Labels], cur' \in [Threads -> Message],
         pc'["error"] \in {"idle", "single", "lock", "first", "crashed"},
         UNCHANGED <<clientVars, batchVars, batchLock, dataVars, mStreamsToBatch, sent>>,
         errored' = errored \/ (errored' \subseteq submitted /\ Client'),
         mLock' \in {"free", "error"},
         pc["error"] \notin Flushing, Errors', LanesFull', Locks'
  PROVE  IInv' /\ [Contract!Next]_(Contract!vars)
<1> USE DEF IInv
<1>1. /\ pc'["shutter"] = pc["shutter"] /\ cur'["shutter"] = cur["shutter"]
      /\ pc'["result"] = pc["result"] /\ cur'["result"] = cur["result"]
  BY DEF Threads, OnlyMoves
<1>2. UNCHANGED <<call, burst, nextFrame, submitted, mInflightBatches, batch, batchLock,
                  mStreamsToBatch, sent, got, lost, mProcessCaptureResultLock>>
  BY DEF clientVars, batchVars, dataVars
<1>3. Types'
  BY <1>1, <1>2 DEF Types
<1>4. Live' = Live /\ \A b : FramesOf(b)' = FramesOf(b)
  BY <1>2 DEF Live, FramesOf
<1>5. Client' /\ Deque'
  <2>1. \A b : Settled(b)' <=> Settled(b)
    BY <1>2 DEF Settled
  <2> QED BY <1>2, <1>4, <2>1 DEF Client, Deque
<1>6. Workers'
  BY <1>1, <1>2, <1>4 DEF Workers, Newest
<1>7. Flushed'
  BY DEF Flushed, Flushing
<1>8. Hand' = Hand /\ ResultHand' = ResultHand
  BY <1>1 DEF Hand, ShutterHand, ResultHand
<1>9. \A l \in Strict, b \in Live : AtLast(l, b)' <=> AtLast(l, b)
  BY <1>1, <1>2 DEF AtLast, Carries
<1> QED BY <1>2, <1>3, <1>5, <1>6, <1>7, <1>8, <1>9, BatchesUntouched

LEMMA SingleErrorStep ==
  ASSUME IInv, SingleError
  PROVE  IInv' /\ [Contract!Next]_(Contract!vars)
<1> USE DEF IInv
<1>1. /\ pc["error"] = "single" /\ Done("error")
      /\ UNCHANGED <<clientVars, batchVars, lockVars, dataVars, mStreamsToBatch, errored, sent>>
  BY DEF SingleError
<1>2. /\ pc' \in [Threads -> Labels] /\ cur' \in [Threads -> Message] /\ OnlyMoves("error")
      /\ pc'["error"] = "idle" /\ cur'["error"] = Idle
      /\ pc'["shutter"] = pc["shutter"] /\ cur'["shutter"] = cur["shutter"]
      /\ pc'["result"] = pc["result"] /\ cur'["result"] = cur["result"]
  BY <1>1, DoneMoves DEF Threads, OnlyMoves
<1>3. UNCHANGED <<submitted, mInflightBatches, batch, mLock, batchLock, errored, sent>>
  BY <1>1 DEF clientVars, batchVars, lockVars
<1>4. cur'["error"].frame = None
  BY <1>2 DEF Idle
<1>5. Excused \subseteq Excused' /\ \A f \in Excused' : f \in Excused \/ f = cur["error"].frame
  BY <1>3, <1>4, Constants DEF Excused, Types, None
<1>6. Live' = Live /\ \A b : FramesOf(b)' = FramesOf(b)
  BY <1>3 DEF Live, FramesOf
<1>7. Errors'
  BY <1>1, <1>2, <1>3, <1>4, <1>5, <1>6 DEF Errors, Flushing
<1>8. LanesFull'
  BY <1>3, <1>5 DEF LanesFull
<1>9. Locks'
  BY <1>1, <1>2, <1>3 DEF Locks, Flushing
<1>10. mLock' \in {"free", "error"} /\ pc["error"] \notin Flushing /\ UNCHANGED batchLock
  BY <1>1, <1>3 DEF Types, Flushing
<1> QED BY <1>1, <1>2, <1>7, <1>8, <1>9, <1>10, OnlyErrorMoves

LEMMA LockForFlushStep ==
  ASSUME IInv, LockForFlush
  PROVE  IInv' /\ [Contract!Next]_(Contract!vars)
<1> USE DEF IInv
<1>1. /\ pc["error"] = "lock" /\ mLock' = "error" /\ Goto("error", "first")
      /\ UNCHANGED <<clientVars, batchVars, batchLock, dataVars, mStreamsToBatch, cur, errored, sent>>
  BY DEF LockForFlush
<1>2. "first" \in Labels /\ "error" \in Threads
  BY DEF Labels, Threads
<1>3. /\ pc' \in [Threads -> Labels] /\ pc'["error"] = "first" /\ OnlyMoves("error")
      /\ pc'["shutter"] = pc["shutter"] /\ pc'["result"] = pc["result"]
  BY <1>1, <1>2, Moves DEF Threads, OnlyMoves
<1>4. UNCHANGED <<submitted, mInflightBatches, batch, batchLock, cur, errored, sent>>
  BY <1>1 DEF clientVars, batchVars
<1>5. Live' = Live /\ Excused' = Excused /\ \A b : FramesOf(b)' = FramesOf(b)
  BY <1>4 DEF Live, FramesOf, Excused
<1>6. Errors'
  BY <1>1, <1>3, <1>4, <1>5 DEF Errors
<1>7. LanesFull'
  BY <1>4, <1>5 DEF LanesFull
<1>8. Locks'
  BY <1>1, <1>3, <1>4 DEF Locks, Flushing
<1>9. pc["error"] \notin Flushing /\ cur' \in [Threads -> Message]
  BY <1>1, <1>4 DEF Types, Flushing
<1> QED BY <1>1, <1>3, <1>6, <1>7, <1>8, <1>9, OnlyErrorMoves

LEMMA FlushMissingBatchStep ==
  ASSUME IInv, FlushMissingBatch
  PROVE  IInv' /\ [Contract!Next]_(Contract!vars)
<1> USE DEF IInv
<1>1. /\ pc["error"] = "first" /\ Goto("error", "crashed")
      /\ UNCHANGED <<clientVars, batchVars, lockVars, dataVars, mStreamsToBatch, cur, errored, sent>>
  BY DEF FlushMissingBatch
<1>2. "crashed" \in Labels /\ "error" \in Threads
  BY DEF Labels, Threads
<1>3. /\ pc' \in [Threads -> Labels] /\ pc'["error"] = "crashed" /\ OnlyMoves("error")
      /\ pc'["shutter"] = pc["shutter"] /\ pc'["result"] = pc["result"]
  BY <1>1, <1>2, Moves DEF Threads, OnlyMoves
<1>4. UNCHANGED <<submitted, mInflightBatches, batch, mLock, batchLock, cur, errored, sent>>
  BY <1>1 DEF clientVars, batchVars, lockVars
<1>5. Live' = Live /\ Excused' = Excused /\ \A b : FramesOf(b)' = FramesOf(b)
  BY <1>4 DEF Live, FramesOf, Excused
<1>6. Errors'
  BY <1>1, <1>3, <1>4, <1>5 DEF Errors, Flushing
<1>7. LanesFull'
  BY <1>4, <1>5 DEF LanesFull
<1>8. Locks'
  BY <1>1, <1>3, <1>4 DEF Locks, Flushing
<1>9. pc["error"] \notin Flushing /\ cur' \in [Threads -> Message] /\ mLock' \in {"free", "error"}
  BY <1>1, <1>4 DEF Types, Flushing
<1> QED BY <1>1, <1>3, <1>4, <1>6, <1>7, <1>8, <1>9, OnlyErrorMoves

LEMMA CallbackReturnsStep ==
  ASSUME IInv, NEW t \in Threads, CallbackReturns(t)
  PROVE  IInv' /\ [Contract!Next]_(Contract!vars)
<1> USE DEF IInv
<1>1. /\ UNCHANGED <<call, burst, nextFrame, submitted, mInflightBatches, batch, mLock, batchLock,
                     mStreamsToBatch, pc, cur, errored, sent, got, lost>>
      /\ mProcessCaptureResultLock' = "free"
  BY DEF CallbackReturns, clientVars, batchVars, lockVars
<1>2. Live' = Live /\ Excused' = Excused /\ \A b : FramesOf(b)' = FramesOf(b)
  BY <1>1 DEF Live, FramesOf, Excused
<1>3. Types' /\ Client' /\ Deque' /\ LanesFull' /\ Errors' /\ Locks' /\ Flushed'
  <2>1. \A b : Settled(b)' <=> Settled(b)
    BY <1>1 DEF Settled
  <2> QED BY <1>1, <1>2, <2>1 DEF Types, Client, Deque, LanesFull, Errors, Locks, Flushed
<1>4. Workers'
  BY <1>1, <1>2 DEF Workers, Newest
<1>5. Hand' = Hand /\ ResultHand' = ResultHand /\ \A l, b : AtLast(l, b)' <=> AtLast(l, b)
  BY <1>1 DEF Hand, ShutterHand, ResultHand, AtLast, Carries
<1> QED BY <1>1, <1>3, <1>4, <1>5, BatchesUntouched

---------------------------------------------------------------------------
(* Steps of the client. *)

\* Before a batch is registered, its streams and frames are at rest.
LEMMA OnlyClientMoves ==
  ASSUME IInv,
         UNCHANGED <<batchVars, lockVars, dataVars, pc, cur, errored, sent>>,
         mStreamsToBatch' = mStreamsToBatch \/ Reconfigured',
         mStreamsToBatch' \subseteq Streams,
         call' \in {"idle", "submit", "register"}, burst' \in [first : Nat, last : Nat],
         nextFrame' \in 1..(MaxFrames + 1), submitted \subseteq submitted', submitted' \subseteq Frames,
         Client', LanesFull', \A b \in Frames : Settled(b) => Settled(b)'
  PROVE  IInv' /\ [Contract!Next]_(Contract!vars)
<1> USE DEF IInv
<1>1. UNCHANGED <<mInflightBatches, batch, mLock, batchLock, pc, cur, errored, sent, got, lost,
                  mProcessCaptureResultLock>>
  BY DEF batchVars, lockVars, dataVars
<1>2. Live' = Live /\ Excused' = Excused /\ \A b : FramesOf(b)' = FramesOf(b)
  BY <1>1 DEF Live, FramesOf, Excused
<1>3. Types'
  BY <1>1 DEF Types
<1>4. Errors' /\ Locks' /\ Flushed'
  BY <1>1, <1>2 DEF Errors, Locks, Flushed
<1>5. Deque'
  BY <1>1, <1>2, LiveBatches DEF Deque
<1>6. Workers'
  BY <1>1, <1>2 DEF Workers, Newest
<1>7. Hand' = Hand /\ ResultHand' = ResultHand /\ \A l, b : AtLast(l, b)' <=> AtLast(l, b)
  BY <1>1 DEF Hand, ShutterHand, ResultHand, AtLast, Carries
<1> QED BY <1>1, <1>3, <1>4, <1>5, <1>6, <1>7, BatchesUntouched

LEMMA ConfigureStreamsStep ==
  ASSUME IInv, ConfigureStreams
  PROVE  IInv' /\ [Contract!Next]_(Contract!vars)
<1> USE DEF IInv
<1>1. /\ call = "idle" /\ Owed = {} /\ \A i \in sent : Handled(i)
      /\ mStreamsToBatch' \subseteq Streams
      /\ UNCHANGED <<clientVars, batchVars, lockVars, dataVars, pc, cur, errored, sent>>
  BY DEF ConfigureStreams, Handled
<1>2. UNCHANGED <<call, burst, nextFrame, submitted, mInflightBatches, batch, errored, cur,
                  sent, got, lost>>
  BY <1>1 DEF clientVars, batchVars, dataVars
<1>3. ASSUME NEW b \in Live, NEW s \in DOMAIN batch[b].bufs
      PROVE  batch[b].bufs[s] = <<>> /\ <<s, batch[b].last>> \in sent
  <2>1. /\ b \in Frames /\ s \in Streams /\ batch[b].bufs[s] \in Seq(Frames)
        /\ DOMAIN batch[b].bufs[s] = 1..Len(batch[b].bufs[s]) /\ Len(batch[b].bufs[s]) \in Nat
    BY LiveBatches, BatchFields
  <2>2. <<s, b>> \in Item /\ s \in Lanes /\ b \in Nat
    BY <2>1, Pieces, Constants
  <2>3. ASSUME Len(batch[b].bufs[s]) > 0 PROVE FALSE
    <3>1. <<s, b>> \in HeldBuffers(b)
      BY <2>1, <2>2, <2>3 DEF HeldBuffers
    <3> QED BY <3>1, <1>1 DEF Waiting, HeldBack
  <2>4. batch[b].last \in submitted
    BY Ordered DEF Deque
  <2>5. ~Optional(<<s, batch[b].last>>)
    BY <2>1, Constants DEF Optional, Partials
  <2>6. <<s, batch[b].last>> \in Lanes \X submitted
    BY <2>2, <2>4
  <2> QED BY <1>1, <2>1, <2>3, <2>5, <2>6 DEF Owed
<1>4. Reconfigured'
  <2>1. Live' = Live
    BY <1>2 DEF Live
  <2>2. \A i \in sent : Handled(i)'
    BY <1>1, <1>2 DEF Handled
  <2> QED BY <1>2, <1>3, <2>1, <2>2 DEF Reconfigured
<1>5. Client' /\ LanesFull' /\ \A b \in Frames : Settled(b) => Settled(b)'
  BY <1>2 DEF Client, LanesFull, Excused, Settled
<1> QED BY <1>1, <1>2, <1>4, <1>5, OnlyClientMoves DEF Types

LEMMA ProcessCaptureRequestStep ==
  ASSUME IInv, ProcessCaptureRequest
  PROVE  IInv' /\ [Contract!Next]_(Contract!vars)
<1> USE DEF IInv
<1>1. PICK n \in BurstSizes :
        /\ nextFrame + n - 1 <= MaxFrames
        /\ burst' = [first |-> nextFrame, last |-> nextFrame + n - 1]
  BY DEF ProcessCaptureRequest
<1>2. /\ call = "idle" /\ call' = "submit"
      /\ UNCHANGED <<nextFrame, submitted, batchVars, lockVars, dataVars, mStreamsToBatch,
                     pc, cur, errored, sent>>
  BY DEF ProcessCaptureRequest
<1>3. n \in Nat /\ n >= 1 /\ nextFrame \in Nat /\ nextFrame >= 1 /\ MaxFrames \in Nat
  BY ConstantsAssumption DEF Types
<1>4. /\ burst'.first = nextFrame /\ burst'.last = nextFrame + n - 1
      /\ burst' \in [first : Nat, last : Nat] /\ burst'.first \in Frames /\ burst'.last \in Frames
  BY <1>1, <1>3 DEF Frames
<1>5. UNCHANGED <<mInflightBatches, batch>>
  BY <1>2 DEF batchVars
<1>6. Client'
  <2>1. \A i \in sent : i[2] < nextFrame
    BY DEF Client, LanesFull
  <2>2. \A f \in errored : f < nextFrame
    BY DEF Client, Types
  <2>3. nextFrame <= burst'.last
    BY <1>3, <1>4
  <2>4. \A f \in Frames : ~(nextFrame <= f /\ f < nextFrame)
    BY <1>3, Constants
  <2> QED BY <1>2, <1>3, <1>4, <2>1, <2>2, <2>3, <2>4 DEF Client
<1>7. LanesFull' /\ \A b \in Frames : Settled(b) => Settled(b)'
  BY <1>2, <1>4, <1>5 DEF LanesFull, Excused, Settled
<1> QED BY <1>2, <1>4, <1>6, <1>7, OnlyClientMoves DEF Types

LEMMA RequestAcceptedStep ==
  ASSUME IInv, RequestAccepted
  PROVE  IInv' /\ [Contract!Next]_(Contract!vars)
<1> USE DEF IInv
<1>1. /\ call = "submit" /\ submitted' = submitted \cup {nextFrame} /\ nextFrame' = nextFrame + 1
      /\ UNCHANGED <<burst, batchVars, lockVars, dataVars, mStreamsToBatch, pc, cur, errored, sent>>
  BY DEF RequestAccepted
<1>2. /\ burst.first \in Nat /\ burst.last \in Nat /\ burst.first \in Frames /\ burst.last \in Frames
      /\ nextFrame \in Nat /\ nextFrame >= 1 /\ nextFrame <= burst.last /\ burst.first <= nextFrame
      /\ nextFrame \in Frames /\ burst.last <= MaxFrames /\ MaxFrames \in Nat
  BY <1>1, Constants DEF Client, Types, Frames
<1>3. \/ call' = "submit" /\ nextFrame < burst.last
      \/ call' = "register" /\ nextFrame = burst.last /\ burst.first < burst.last
      \/ call' = "idle"
  <2>1. call' = CASE nextFrame < burst.last -> "submit"
                  [] nextFrame = burst.last /\ burst.first < burst.last -> "register"
                  [] OTHER -> "idle"
    BY DEF RequestAccepted
  <2> QED BY <2>1
<1>4. UNCHANGED <<mInflightBatches, batch>>
  BY <1>1 DEF batchVars
<1>5. Client'
  <2>1. \A f \in submitted' : f < nextFrame'
    BY <1>1, <1>2, Constants DEF Client, Types
  <2>2. \A f \in Frames : burst.first <= f /\ f < nextFrame' => f \in submitted'
    BY <1>1, <1>2, Constants DEF Client
  <2>3. call' = "submit" => nextFrame' <= burst.last
    BY <1>1, <1>2, <1>3
  <2>4. call' = "register" => burst.first < burst.last /\ nextFrame' = burst.last + 1
    BY <1>1, <1>2, <1>3
  <2>5. (\A i \in sent : i[2] < burst.first) /\ \A f \in errored : f < burst.first
    BY <1>1 DEF Client
  <2>6. burst.first <= nextFrame'
    BY <1>1, <1>2
  <2> QED BY <1>1, <1>2, <2>1, <2>2, <2>3, <2>4, <2>5, <2>6 DEF Client
<1>6. LanesFull'
  <2>1. \A i \in sent : ~(nextFrame < i[2])
    <3>1. \A i \in sent : i[2] < burst.first /\ i[2] \in Nat
      BY <1>1, Pieces DEF Client, Types
    <3> QED BY <3>1, <1>2
  <2> QED BY <1>1, <2>1 DEF LanesFull, Excused
<1>7. \A b \in Frames : Settled(b) => Settled(b)'
  BY <1>1, <1>2, <1>4, BatchFields DEF Settled
<1>8. nextFrame' \in 1..(MaxFrames + 1) /\ submitted' \subseteq Frames
  BY <1>1, <1>2 DEF Types
<1> QED BY <1>1, <1>3, <1>5, <1>6, <1>7, <1>8, OnlyClientMoves DEF Types

LEMMA RequestRefusedStep ==
  ASSUME IInv, RequestRefused
  PROVE  IInv' /\ [Contract!Next]_(Contract!vars)
<1> USE DEF IInv
<1>1. /\ call = "submit" /\ call' = "idle" /\ nextFrame' = burst.last + 1
      /\ UNCHANGED <<burst, submitted, batchVars, lockVars, dataVars, mStreamsToBatch,
                     pc, cur, errored, sent>>
  BY DEF RequestRefused
<1>2. /\ burst.last \in Nat /\ burst.last \in Frames /\ nextFrame \in Nat
      /\ nextFrame <= burst.last /\ burst.last <= MaxFrames /\ MaxFrames \in Nat
  BY <1>1, Constants DEF Client, Types, Frames
<1>3. UNCHANGED <<mInflightBatches, batch>>
  BY <1>1 DEF batchVars
<1>4. Client'
  <2>1. \A f \in submitted : f < burst.last + 1
    BY <1>2, Constants DEF Client, Types
  <2> QED BY <1>1, <2>1 DEF Client
<1>5. LanesFull'
  BY <1>1 DEF LanesFull, Excused
<1>6. \A b \in Frames : Settled(b) => Settled(b)'
  BY <1>1, <1>2, <1>3, BatchFields DEF Settled
<1>7. nextFrame' \in 1..(MaxFrames + 1)
  BY <1>1, <1>2
<1> QED BY <1>1, <1>4, <1>5, <1>6, <1>7, OnlyClientMoves DEF Types

\* The new batch is at the end of the deque, empty, and of frames nobody has answered.
LEMMA RegisterBatchStep ==
  ASSUME IInv, RegisterBatch
  PROVE  IInv' /\ [Contract!Next]_(Contract!vars)
<1> USE DEF IInv
<1>0. PICK n \in Frames : n = burst.first
  BY DEF RegisterBatch, Client
<1>1. /\ call = "register" /\ mLock = "free" /\ call' = "idle"
      /\ batch' = [batch EXCEPT ![n] = NewBatch(n, burst.last)]
      /\ mInflightBatches' = Append(mInflightBatches, n)
      /\ UNCHANGED <<burst, nextFrame, submitted, mLock, batchLock, got, lost,
                     mProcessCaptureResultLock, mStreamsToBatch, pc, cur, errored, sent>>
  BY <1>0 DEF RegisterBatch, lockVars, dataVars
<1>2. /\ n \in Frames /\ n \in Nat /\ burst.last \in Frames /\ burst.last \in Nat /\ n <= burst.last
      /\ nextFrame = burst.last + 1
      /\ \A i \in sent : i[2] < n
      /\ \A f \in errored : f < n
  BY <1>0, <1>1, Constants DEF Client, Types
<1>3. NewBatch(n, burst.last) \in Batch
  <2>1. [s \in mStreamsToBatch |-> <<>>] \in [mStreamsToBatch -> Seq(Frames)]
    OBVIOUS
  <2>2. [s \in mStreamsToBatch |-> <<>>] \in UNION {[S -> Seq(Frames)] : S \in SUBSET Streams}
    BY <2>1 DEF Types
  <2>3. 0 \in 0..NumPartial
    BY Constants
  <2> QED BY <1>2, <2>2, <2>3 DEF NewBatch, Batch
<1>4. \A b \in Live : b \in Frames /\ b \in Nat /\ batch[b].last \in Nat /\ b <= batch[b].last
                      /\ batch[b].last < n /\ b # n
  BY <1>0, <1>1, <1>2, Ordered, LiveBatches DEF Deque, Settled
<1>5. \A b \in Frames : batch[b].removed => b # n /\ b \in Nat /\ batch[b].last < n
  BY <1>0, <1>1, <1>2, Constants, BatchFields DEF Deque, Settled
<1>6. /\ \A b \in Frames \ {n} : batch'[b] = batch[b]
      /\ batch'[n] = NewBatch(n, burst.last) /\ batch' \in [Frames -> Batch]
  BY <1>1, <1>2, <1>3 DEF Types
<1>7. /\ mInflightBatches \in Seq(Frames) /\ mInflightBatches' \in Seq(Frames)
      /\ Len(mInflightBatches') = Len(mInflightBatches) + 1 /\ Len(mInflightBatches) \in Nat
      /\ DOMAIN mInflightBatches = 1..Len(mInflightBatches)
      /\ DOMAIN mInflightBatches' = 1..(Len(mInflightBatches) + 1)
      /\ \A k \in DOMAIN mInflightBatches : mInflightBatches'[k] = mInflightBatches[k]
      /\ mInflightBatches'[Len(mInflightBatches) + 1] = n
  BY <1>1, <1>2 DEF Types
<1>8. /\ Live' = Live \cup {n}
      /\ \A b \in Live : FramesOf(b)' = FramesOf(b) /\ Waiting(b)' = Waiting(b)
      /\ \A b \in Frames \ {n} : FramesOf(b)' = FramesOf(b)
      /\ FramesOf(n)' = n..burst.last
  <2>1. Live' = Live \cup {n}
    BY <1>7 DEF Live
  <2> QED BY <2>1, <1>4, <1>6 DEF FramesOf, Waiting, HeldBuffers, NewBatch
<1>9. /\ ~batch'[n].removed /\ batch'[n].last = burst.last /\ ~batch'[n].shutterDone
      /\ batch'[n].shutters = {} /\ batch'[n].mds = {} /\ batch'[n].progress = 0
      /\ batch'[n].bufsDone = {} /\ DOMAIN batch'[n].bufs = mStreamsToBatch
      /\ \A s \in mStreamsToBatch : batch'[n].bufs[s] = <<>>
  BY <1>6 DEF NewBatch
<1>10. Waiting(n)' = {}
  BY <1>9 DEF Waiting, HeldBuffers
<1>11. Types'
  BY <1>1, <1>6, <1>7 DEF Types
<1>12. Client'
  BY <1>1 DEF Client
<1>13. Deque'
  <2>1. Settled(n)'
    BY <1>1, <1>2, <1>9 DEF Settled
  <2>2. \A b \in Frames \ {n} : Settled(b) => Settled(b)'
    BY <1>1, <1>6 DEF Settled
  <2>3. n..burst.last \subseteq submitted
    BY <1>0, <1>1, <1>2, Constants DEF Client, Frames
  <2>4. \A b \in Live' : ~batch'[b].removed /\ Settled(b)' /\ FramesOf(b)' \subseteq submitted'
    BY <1>1, <1>4, <1>6, <1>8, <1>9, <2>1, <2>2, <2>3 DEF Deque
  <2>5. \A j, k \in DOMAIN mInflightBatches' :
          j < k => batch'[mInflightBatches'[j]].last < mInflightBatches'[k]
    <3> SUFFICES ASSUME NEW j \in DOMAIN mInflightBatches', NEW k \in DOMAIN mInflightBatches', j < k
                 PROVE  batch'[mInflightBatches'[j]].last < mInflightBatches'[k]
      OBVIOUS
    <3>1. j \in DOMAIN mInflightBatches /\ mInflightBatches[j] \in Live
          /\ batch'[mInflightBatches'[j]] = batch[mInflightBatches[j]]
      BY <1>4, <1>6, <1>7 DEF Live
    <3>2. CASE k \in DOMAIN mInflightBatches
      BY <1>7, <3>1, <3>2 DEF Deque
    <3>3. CASE k = Len(mInflightBatches) + 1
      BY <1>4, <1>7, <3>1, <3>3
    <3> QED BY <1>7, <3>2, <3>3
  <2>6. \A b \in Frames : batch'[b].removed =>
          Settled(b)' /\ \A a \in Live' : batch'[b].last < a
    BY <1>5, <1>6, <1>8, <1>9, <2>2 DEF Deque
  <2> QED BY <2>4, <2>5, <2>6 DEF Deque
<1>14. LanesFull'
  BY <1>1 DEF LanesFull, Excused
<1>15. Errors'
  <2>0. UNCHANGED <<pc, cur, errored>> /\ Excused' = Excused /\ Excused \subseteq errored
    BY <1>1 DEF Excused
  <2>1. \A f \in errored : f \notin FramesOf(n)'
    BY <1>2, <1>8, Constants DEF Types
  <2>2. \A f \in Excused' : \A b \in Live' : f \notin FramesOf(b)'
    BY <1>8, <2>0, <2>1, ZenonT(60) DEF Errors
  <2>3. pc["error"] = "single" => \A b \in Live' : cur["error"].frame \notin FramesOf(b)'
    BY <1>8, <2>0, <2>1 DEF Errors
  <2>4. ASSUME pc["error"] \in {"lock", "first"} \cup Flushing, NEW k \in DOMAIN mInflightBatches',
               (cur["error"].frame \in FramesOf(mInflightBatches[k]))'
        PROVE  k <= cur["error"].idx
    <3>1. cur["error"].frame \in errored
      BY <2>4 DEF Errors, Flushing
    <3>2. mInflightBatches'[k] # n
      BY <2>0, <2>1, <2>4, <3>1
    <3>3. k \in DOMAIN mInflightBatches /\ mInflightBatches[k] \in Live
      BY <1>7, <3>2 DEF Live
    <3> QED BY <2>0, <1>7, <1>8, <2>4, <3>3 DEF Errors
  <2> QED BY <2>0, <2>2, <2>3, <2>4 DEF Errors
<1>16. pc["error"] \notin {"first", "crashed"} \cup Flushing
  BY <1>1 DEF Locks
<1>17. Locks' /\ Flushed'
  BY <1>1, <1>16 DEF Locks, Flushed, Flushing
<1>18. Workers'
  <2>1. pc["shutter"] = "single" => cur["shutter"].frame < n
    <3> HAVE pc["shutter"] = "single"
    <3>1. <<Shutter, cur["shutter"].frame>> \in Hand
      BY DEF Workers, Hand, ShutterHand
    <3> QED BY <1>2, <3>1 DEF InHand
  <2>2. pc["result"] = "single" => cur["result"].frame < n
    <3> HAVE pc["result"] = "single"
    <3>1. PICK i \in cur["result"].items : i[2] = cur["result"].frame
      BY DEF Workers
    <3>2. i \in Hand
      BY DEF Hand, ResultHand
    <3> QED BY <1>2, <3>1, <3>2 DEF InHand
  <2>3. pc["shutter"] = "single" => \A b \in Live' : cur["shutter"].frame \notin FramesOf(b)'
    BY <1>2, <1>8, <2>1, Constants DEF Workers
  <2>4. pc["result"] = "single" => \A b \in Live' : cur["result"].frame \notin FramesOf(b)'
    BY <1>2, <1>8, <2>2, Constants DEF Workers
  <2>5. \A b \in Frames : b \in Live \/ batch[b].removed =>
          batch'[b] = batch[b] /\ FramesOf(b)' = FramesOf(b)
    BY <1>4, <1>5, <1>6, <1>8
  <2>6. pc["result"] \in {"others", "metadata", "buffers"} => cur["result"].batch \in Live
    BY DEF Workers, Holding
  <2>7. UNCHANGED <<pc, cur, sent>> /\ \A l, f : Newest(l, f)' <=> Newest(l, f)
    BY <1>1 DEF Newest
  <2>8. pc["shutter"] = "queue" =>
          /\ cur["shutter"].batch \in Frames
          /\ (cur["shutter"].frame \in FramesOf(cur["shutter"].batch))'
          /\ cur["shutter"].batch \in Live' \/ batch'[cur["shutter"].batch].removed
    BY <1>8, <2>5, <2>7 DEF Workers
  <2>9. pc["result"] \in {"queue"} \cup (Holding \ {"leave"}) =>
          /\ cur["result"].batch \in Frames
          /\ (cur["result"].frame \in FramesOf(cur["result"].batch))'
          /\ cur["result"].batch \in Live'
               \/ (pc["result"] = "queue" /\ batch'[cur["result"].batch].removed)
          /\ cur["result"].partial > 0 => Newest(cur["result"].partial, cur["result"].frame)
    BY <1>8, <2>5, <2>7 DEF Workers, Holding
  <2>10. pc["result"] \in {"others", "metadata", "buffers"} =>
          batch'[cur["result"].batch] = batch[cur["result"].batch]
    BY <2>5, <2>6, LiveBatches
  <2>11. pc["result"] = "others" =>
           cur["result"].items \subseteq
             (Streams \ DOMAIN batch'[cur["result"].batch].bufs) \X {cur["result"].frame}
    BY <2>10 DEF Workers
  <2>12. pc["result"] \in {"others", "metadata", "buffers"} =>
           /\ cur["result"].filled \subseteq DOMAIN batch'[cur["result"].batch].bufs
           /\ \A s \in cur["result"].filled : Newest(s, cur["result"].frame)
    BY <2>10 DEF Workers
  <2>13. pc["result"] \in {"metadata", "buffers"} =>
           cur["result"].frame = batch'[cur["result"].batch].last
    BY <2>10 DEF Workers
  <2>14. Workers
    BY DEF IInv
  <2> HIDE DEF IInv
  <2> QED BY <2>3, <2>4, <2>7, <2>8, <2>9, <2>11, <2>12, <2>13, <2>14 DEF Workers
<1>19. Hand' = Hand /\ ResultHand' = ResultHand /\ \A i : Handled(i)' <=> Handled(i)
  BY <1>1 DEF Hand, ShutterHand, ResultHand, Handled
<1>20. InHand'
  BY <1>1, <1>19 DEF InHand, Newest
<1>21. HeldBack'
  BY <1>1, <1>4, <1>6, <1>8, <1>9, <1>10, <1>19 DEF HeldBack
<1>22. Positions'
  <2>1. ASSUME NEW s \in mStreamsToBatch, NEW f \in FramesOf(n)'
        PROVE  ~(f < n + Len(batch'[n].bufs[s])) /\ <<s, f>> \notin sent
    BY <1>2, <1>8, <1>9, <2>1
  <2>2. \A s \in mStreamsToBatch : DOMAIN batch'[n].bufs[s] = {}
    BY <1>9
  <2>3. \A b \in Live : batch'[b] = batch[b]
    BY <1>4, <1>6
  <2>4. ASSUME NEW b \in Live, NEW s \in DOMAIN batch'[b].bufs
        PROVE  /\ \A k \in DOMAIN batch'[b].bufs[s] : batch'[b].bufs[s][k] = b + k - 1
               /\ s \notin batch'[b].bufsDone =>
                    \A f \in FramesOf(b)' :
                      f < b + Len(batch'[b].bufs[s]) <=> <<s, f>> \in sent' \ ResultHand'
    BY <1>1, <1>8, <1>19, <2>3 DEF Positions
  <2>5. ASSUME NEW s \in DOMAIN batch'[n].bufs
        PROVE  /\ \A k \in DOMAIN batch'[n].bufs[s] : batch'[n].bufs[s][k] = n + k - 1
               /\ s \notin batch'[n].bufsDone =>
                    \A f \in FramesOf(n)' :
                      f < n + Len(batch'[n].bufs[s]) <=> <<s, f>> \in sent' \ ResultHand'
    BY <1>1, <1>9, <2>1, <2>2
  <2> QED BY <1>8, <2>4, <2>5 DEF Positions
<1>23. \A l, b : b \in Live => (AtLast(l, b)' <=> AtLast(l, b)) /\ (DoneLane(l, b)' <=> DoneLane(l, b))
  BY <1>1, <1>4, <1>6 DEF AtLast, Carries, DoneLane
<1>24. Delivered'
  <2>1. \A l \in Strict : ~DoneLane(l, n)'
    BY <1>9, Constants DEF DoneLane
  <2> QED BY <1>1, <1>4, <1>6, <1>8, <1>9, <1>23, <2>1, Constants DEF Delivered
<1>25. Emptied'
  BY <1>1, <1>4, <1>6, <1>8, <1>10, <1>23 DEF Emptied
<1>26. Placed'
  BY <1>1, <1>8, <1>19 DEF Placed
<1>27. Reconfigured'
  BY <1>1, <1>4, <1>6, <1>8, <1>9, <1>19 DEF Reconfigured
<1> QED BY <1>1, <1>11, <1>12, <1>13, <1>14, <1>15, <1>17, <1>18, <1>20, <1>21, <1>22, <1>24, <1>25,
           <1>26, <1>27 DEF Contract!vars

---------------------------------------------------------------------------
(* Entry of the HAL's calls. *)

\* What getBatch finds.
LEMMA BatchFound ==
  ASSUME IInv, NEW f \in Frames
  PROVE  /\ BatchOf(f) \in Frames \cup {None} /\ BatchIdx(f) \in Nat
         /\ BatchOf(f) = None => \A b \in Live : f \notin FramesOf(b)
         /\ BatchOf(f) # None =>
              /\ BatchOf(f) \in Live /\ f \in FramesOf(BatchOf(f))
              /\ \A k \in DOMAIN mInflightBatches :
                   f \in FramesOf(mInflightBatches[k]) => k <= BatchIdx(f)
<1> USE DEF IInv
<1>1. /\ mInflightBatches \in Seq(Frames) /\ DOMAIN mInflightBatches = 1..Len(mInflightBatches)
      /\ f \in Nat /\ \A b \in Frames : b \in Nat /\ b # None /\ batch[b].last \in Nat
  BY Constants, BatchFields DEF Types, None
<1>2. \A k \in DOMAIN mInflightBatches :
        mInflightBatches[k] \in Live /\ (Holds(k, f) <=> f \in FramesOf(mInflightBatches[k]))
  BY <1>1 DEF Live, Holds, FramesOf
<1>3. CASE \E k \in DOMAIN mInflightBatches : Holds(k, f)
  <2>1. BatchIdx(f) = CHOOSE k \in DOMAIN mInflightBatches : Holds(k, f)
    BY <1>3 DEF BatchIdx
  <2>2. BatchIdx(f) \in DOMAIN mInflightBatches /\ Holds(BatchIdx(f), f)
    BY <1>3, <2>1
  <2>3. BatchOf(f) = mInflightBatches[BatchIdx(f)] /\ BatchIdx(f) \in Nat
    BY <1>1, <2>2 DEF BatchOf
  <2>4. BatchOf(f) \in Live /\ f \in FramesOf(BatchOf(f)) /\ BatchOf(f) \in Frames
    BY <1>2, <2>2, <2>3, LiveBatches
  <2>5. \A k \in DOMAIN mInflightBatches : f \in FramesOf(mInflightBatches[k]) => k = BatchIdx(f)
    BY <1>2, <2>2, <2>3, <2>4, Ordered
  <2>6. ASSUME NEW k \in DOMAIN mInflightBatches, f \in FramesOf(mInflightBatches[k])
        PROVE  k <= BatchIdx(f)
    <3>1. k = BatchIdx(f) /\ k \in Nat
      BY <1>1, <2>5, <2>6
    <3> QED BY <3>1
  <2>7. BatchOf(f) # None
    BY <1>1, <2>4
  <2> QED BY <2>3, <2>4, <2>6, <2>7
<1>4. CASE ~\E k \in DOMAIN mInflightBatches : Holds(k, f)
  <2>1. BatchIdx(f) = 0 /\ BatchOf(f) = None
    BY <1>4 DEF BatchIdx, BatchOf
  <2> QED BY <1>2, <1>4, <2>1, LiveBatches
<1> QED BY <1>3, <1>4

\* A piece that is ready is new, is the newest of its lane, and its lane is full before it.
LEMMA ReadyPieces ==
  ASSUME IInv, HalWaits, NEW i \in Item, Ready(i)
  PROVE  /\ i \notin sent /\ ~Handled(i) /\ i[2] \in submitted
         /\ call # "idle" => i[2] < burst.first
         /\ \A j \in sent : j[1] = i[1] => j[2] < i[2]
         /\ i[1] \in Strict =>
              \A f \in submitted : f < i[2] => <<i[1], f>> \in sent \/ (f \in Excused /\ i[1] \notin Streams)
<1>1. /\ i[2] \in submitted /\ (call = "idle" \/ i[2] < burst.first)
      /\ \A j \in sent : j[1] = i[1] => j[2] < i[2]
      /\ \A j \in Owed : j[1] = i[1] => j[2] >= i[2]
  BY DEF Ready, Answerable
<1>2. i[1] \in Lanes /\ i[2] \in Nat
  BY Pieces
<1>3. i \notin sent
  BY <1>1, <1>2
<1>4. ~Handled(i)
  BY <1>3 DEF IInv, Placed
<1>5. ASSUME i[1] \in Strict, NEW f \in submitted, f < i[2]
      PROVE  <<i[1], f>> \in sent \/ (f \in Excused /\ i[1] \notin Streams)
  <2>1. f \in Nat
    BY Constants DEF IInv, Types
  <2>2. <<i[1], f>> \notin Owed
    BY <1>1, <1>2, <1>5, <2>1
  <2>3. i[1] \notin 1..(NumPartial - 1)
    BY <1>5, Constants DEF Strict, Shutter
  <2> QED BY <1>2, <2>2, <2>3 DEF Owed, Optional
<1> QED BY <1>1, <1>3, <1>4, <1>5

\* A call of the shutter's or the results' thread brings new pieces of one frame.
LEMMA Arrives ==
  ASSUME IInv, HalWaits, NEW t \in {"shutter", "result"}, NEW f \in submitted,
         NEW partial \in 0..NumPartial, NEW items \in SUBSET Item, items # {},
         \A i \in items : i[2] = f /\ Ready(i),
         Enter(t, f, partial, items, "queue"), errored' = errored,
         t = "shutter" => items = {<<Shutter, f>>},
         t = "result" =>
           /\ items \subseteq (Partials \cup Streams) \X {f}
           /\ \A p \in Partials : <<p, f>> \in items <=> p = partial
           /\ partial > 0 => \A q \in Partials : q >= partial => <<q, f>> \notin sent
  PROVE  IInv' /\ [Contract!Next]_(Contract!vars)
<1> USE DEF IInv
<1> DEFINE message == [frame |-> f, batch |-> BatchOf(f), partial |-> partial,
                       items |-> items, filled |-> {}, idx |-> BatchIdx(f)]
<1>1. /\ pc[t] = "idle" /\ mLock = "free" /\ sent' = sent \cup items
      /\ cur' = [cur EXCEPT ![t] = message]
      /\ Goto(t, IF BatchOf(f) = None THEN "single" ELSE "queue")
      /\ UNCHANGED <<call, burst, nextFrame, submitted, mInflightBatches, batch, mLock, batchLock,
                     got, lost, mProcessCaptureResultLock, mStreamsToBatch, errored>>
  BY DEF Enter, clientVars, batchVars, lockVars, dataVars
<1>2. f \in Frames /\ f \in Nat /\ t \in Threads
  BY Constants DEF Types, Threads
<1>3. message \in Message
  BY <1>2, BatchFound DEF Message
<1>4. /\ pc' \in [Threads -> Labels] /\ cur' \in [Threads -> Message] /\ cur'[t] = message
      /\ pc'[t] = (IF BatchOf(f) = None THEN "single" ELSE "queue")
      /\ OnlyMoves(t)
  <2>1. {"single", "queue"} \subseteq Labels
    BY DEF Labels
  <2>2. /\ pc' \in [Threads -> Labels] /\ \A u \in Threads \ {t} : pc'[u] = pc[u]
        /\ pc'[t] = (IF BatchOf(f) = None THEN "single" ELSE "queue")
    BY <1>1, <1>2, <2>1, Moves
  <2> QED BY <1>1, <1>2, <1>3, <2>2 DEF Types, OnlyMoves
<1>5. /\ cur'[t].frame = f /\ cur'[t].batch = BatchOf(f) /\ cur'[t].partial = partial
      /\ cur'[t].items = items
  BY <1>4
<1>6. /\ pc'[t] \in {"single", "queue"}
      /\ pc'[t] = "queue" <=> BatchOf(f) # None
      /\ pc'[t] = "single" <=> BatchOf(f) = None
      /\ pc'["error"] = pc["error"] /\ cur'["error"] = cur["error"]
      /\ \/ t = "shutter" /\ pc'["result"] = pc["result"] /\ cur'["result"] = cur["result"]
         \/ t = "result" /\ pc'["shutter"] = pc["shutter"] /\ cur'["shutter"] = cur["shutter"]
  BY <1>4 DEF OnlyMoves, Threads
<1> HIDE DEF message
<1>7. \A i \in items :
        /\ i \in Item /\ i = <<i[1], f>> /\ i[2] = f /\ i[1] \in Lanes
        /\ i \notin sent /\ ~Handled(i)
        /\ \A j \in sent : j[1] = i[1] => j[2] < f
  BY ReadyPieces, Pieces
<1>8. Live' = Live /\ Excused' = Excused /\ \A b : FramesOf(b)' = FramesOf(b) /\ Waiting(b)' = Waiting(b)
  BY <1>1, <1>6 DEF Live, FramesOf, Waiting, HeldBuffers, Excused
<1>9. /\ BatchOf(f) = None => \A b \in Live : f \notin FramesOf(b)
      /\ BatchOf(f) # None => BatchOf(f) \in Live /\ f \in FramesOf(BatchOf(f)) /\ BatchOf(f) \in Frames
  BY <1>2, BatchFound, LiveBatches
<1>10. \A i : Handled(i)' <=> Handled(i)
  BY <1>1 DEF Handled
<1>11. /\ Hand' = Hand \cup items
       /\ \A i \in Hand, j \in items :
            j[1] # i[1] /\ (i[1] \in Partials => j[1] \notin Partials)
       /\ ResultHand' = IF t = "result" THEN items ELSE ResultHand
       /\ t = "result" => ResultHand = {}
  <2>1. CASE t = "shutter"
    <3>1. ShutterHand = {} /\ ShutterHand' = items /\ ResultHand' = ResultHand
      BY <1>1, <1>5, <1>6, <2>1 DEF ShutterHand, ResultHand
    <3>2. \A i \in ResultHand : i[1] \in Partials \cup Streams
      BY DEF ResultHand, Workers
    <3>3. \A j \in items : j[1] = Shutter
      BY <2>1
    <3> QED BY <2>1, <3>1, <3>2, <3>3, Constants DEF Hand, Shutter
  <2>2. CASE t = "result"
    <3>1. ResultHand = {} /\ ResultHand' = items /\ ShutterHand' = ShutterHand
      BY <1>1, <1>5, <1>6, <2>2 DEF ShutterHand, ResultHand
    <3>2. \A i \in ShutterHand : i[1] = Shutter
      BY DEF ShutterHand, Workers
    <3>3. \A j \in items : j[1] \in Partials \cup Streams
      BY <2>2
    <3> QED BY <2>2, <3>1, <3>2, <3>3, Constants DEF Hand, Shutter
  <2> QED BY <2>1, <2>2
<1>12. Types'
  <2>1. /\ pc'["shutter"] \in {"idle", "single", "queue", "check"}
        /\ pc'["result"] \in {"idle", "single", "queue", "check"} \cup Holding
        /\ pc'["error"] \in {"idle", "single", "lock", "first", "crashed"} \cup Flushing
    BY <1>6 DEF Types
  <2>2. sent' \subseteq Item
    BY <1>1 DEF Types
  <2> QED BY <1>1, <1>4, <2>1, <2>2 DEF Types
<1>13. Client'
  <2>1. call # "idle" => \A i \in items : i[2] < burst.first
    BY ReadyPieces
  <2> QED BY <1>1, <2>1 DEF Client
<1>14. Deque'
  <2>1. \A b : Settled(b)' <=> Settled(b)
    BY <1>1 DEF Settled
  <2> QED BY <1>1, <1>8, <2>1 DEF Deque
<1>15. LanesFull'
  <2>1. \A i \in items : i[2] \in submitted
    BY <1>7
  <2>2. \A i \in items : i[1] \in Strict =>
          \A g \in submitted : g < i[2] => <<i[1], g>> \in sent \/ (g \in Excused /\ i[1] \notin Streams)
    BY ReadyPieces
  <2> QED BY <1>1, <1>8, <2>1, <2>2 DEF LanesFull
<1>16. Errors'
  BY <1>1, <1>6, <1>8 DEF Errors
<1>17. Locks' /\ Flushed'
  BY <1>1, <1>6 DEF Locks, Flushed, Holding
<1>18. \A l : \A g : Newest(l, g) => Newest(l, g)' \/ \E j \in items : j[1] = l
  BY <1>1 DEF Newest
<1>29. \A i \in items : Newest(i[1], f)'
  <2>1. \A j \in sent : j[2] \in Nat
    BY Pieces DEF Types
  <2>2. \A i \in items, j \in sent' : j[1] = i[1] => j[2] <= f
    BY <1>1, <1>2, <1>7, <2>1
  <2> QED BY <1>1, <1>7, <2>2 DEF Newest
<1>19. Workers'
  <2>2. CASE t = "shutter"
    <3>1. UNCHANGED <<batch, pc["result"], cur["result"]>>
      BY <1>1, <1>6, <2>2, Constants
    <3>2. \A l \in Partials \cup Streams : \A g : Newest(l, g) => Newest(l, g)'
      BY <1>18, <2>2, Constants DEF Shutter
    <3>3. cur["result"].partial > 0 => cur["result"].partial \in Partials
      BY Constants DEF Types, Message, Partials, Threads
    <3>4. \A s \in cur["result"].filled : s \in Streams
      BY DEF Types, Message, Threads
    <3>5. cur'["shutter"].items = {<<Shutter, cur'["shutter"].frame>>}
      BY <1>5, <2>2
    <3>6. pc'["shutter"] = "queue" =>
            /\ cur'["shutter"].batch \in Frames
            /\ (cur["shutter"].frame \in FramesOf(cur["shutter"].batch))'
            /\ cur'["shutter"].batch \in Live'
      BY <1>5, <1>6, <1>8, <1>9, <2>2
    <3>7. pc'["shutter"] = "single" => \A b \in Live' : cur'["shutter"].frame \notin FramesOf(b)'
      BY <1>5, <1>6, <1>8, <1>9, <2>2
    <3> QED BY <1>8, <3>1, <3>2, <3>3, <3>4, <3>5, <3>6, <3>7 DEF Workers
  <2>3. CASE t = "result"
    <3>1. UNCHANGED <<batch, pc["shutter"], cur["shutter"]>>
      BY <1>1, <1>6, <2>3, Constants
    <3>2. /\ cur'["result"].items # {}
          /\ cur'["result"].items \subseteq (Partials \cup Streams) \X {cur'["result"].frame}
          /\ \A p \in Partials :
               <<p, cur'["result"].frame>> \in cur'["result"].items <=> p = cur'["result"].partial
      BY <1>5, <2>3
    <3>3. pc'["result"] = "queue" =>
            /\ cur'["result"].batch \in Frames
            /\ (cur["result"].frame \in FramesOf(cur["result"].batch))'
            /\ cur'["result"].batch \in Live'
      BY <1>5, <1>6, <1>8, <1>9, <2>3
    <3>4. cur'["result"].partial > 0 => Newest(cur["result"].partial, cur["result"].frame)'
      <4>1. ASSUME partial > 0 PROVE <<partial, f>> \in items
        BY <2>3, <4>1, Constants DEF Partials
      <4> QED BY <1>5, <1>29, <2>3, <4>1
    <3>5. pc'["result"] = "single" => \A b \in Live' : cur'["result"].frame \notin FramesOf(b)'
      BY <1>5, <1>6, <1>8, <1>9, <2>3
    <3>6. pc'["result"] \notin Holding
      BY <1>6, <2>3 DEF Holding
    <3> QED BY <1>8, <2>3, <1>6, <3>1, <3>2, <3>3, <3>4, <3>5, <3>6 DEF Workers, Holding
  <2> QED BY <2>2, <2>3
<1>20. InHand'
  <2>1. ASSUME NEW i \in Hand
        PROVE  /\ i \in sent' /\ ~Handled(i)' /\ Newest(i[1], i[2])'
               /\ i[1] \in Partials => \A q \in Partials : q > i[1] => <<q, i[2]>> \notin sent'
    <3>1. \A q : <<q, i[2]>> \in items => q # i[1] /\ (i[1] \in Partials => q \notin Partials)
      BY <1>11
    <3> QED BY <1>1, <1>10, <1>11, <1>18, <3>1 DEF InHand
  <2>2. ASSUME NEW i \in items
        PROVE  /\ i \in sent' /\ ~Handled(i)' /\ Newest(i[1], i[2])'
               /\ i[1] \in Partials => \A q \in Partials : q > i[1] => <<q, i[2]>> \notin sent'
    <3>1. i \in sent' /\ ~Handled(i)' /\ Newest(i[1], i[2])'
      BY <1>1, <1>7, <1>10, <1>29
    <3>2. ASSUME i[1] \in Partials, NEW q \in Partials, q > i[1]
          PROVE  <<q, i[2]>> \notin sent'
      <4>1. t = "result" /\ i = <<i[1], f>> /\ i[2] = f
        BY <1>7, <3>2, Constants DEF Shutter
      <4>2. i[1] = partial /\ q # partial /\ q >= partial /\ partial > 0
        BY <3>2, <4>1, Constants
      <4>3. <<q, f>> \notin sent /\ <<q, f>> \notin items
        BY <4>1, <4>2
      <4> QED BY <1>1, <4>1, <4>3
    <3> QED BY <3>1, <3>2
  <2> QED BY <1>11, <2>1, <2>2 DEF InHand
<1>21. HeldBack'
  BY <1>1, <1>7, <1>8, <1>10, <1>11 DEF HeldBack
<1>22. Positions'
  <2>1. ASSUME NEW b \in Live, NEW s \in DOMAIN batch[b].bufs, NEW g
        PROVE  <<s, g>> \in sent' \ ResultHand' <=> <<s, g>> \in sent \ ResultHand
    <3>1. s \in Streams
      BY LiveBatches, BatchFields
    <3>2. CASE t = "shutter"
      BY <1>1, <1>11, <3>1, <3>2, Constants DEF Shutter
    <3>3. CASE t = "result"
      BY <1>1, <1>7, <1>11, <3>3
    <3> QED BY <3>2, <3>3
  <2> QED BY <1>1, <1>8, <2>1 DEF Positions
<1>23. \A l, b : DoneLane(l, b)' <=> DoneLane(l, b)
  BY <1>1 DEF DoneLane
<1>24. Delivered'
  <2>1. ASSUME NEW b \in Live, batchLock[b] # "error", NEW l \in Strict, DoneLane(l, b)
        PROVE  <<l, batch[b].last>> \in sent' /\ ~AtLast(l, b)'
    <3>1. <<l, batch[b].last>> \in sent /\ ~AtLast(l, b)
      BY <2>1 DEF Delivered
    <3>2. <<l, batch[b].last>> \notin items
      BY <1>7, <3>1
    <3>3. CASE t = "shutter"
      BY <1>1, <1>5, <1>6, <3>1, <3>2, <3>3, Constants DEF AtLast, Carries, Strict, Shutter
    <3>4. CASE t = "result"
      BY <1>1, <1>5, <1>6, <3>1, <3>2, <3>4, Constants DEF AtLast, Carries, Strict, Shutter
    <3> QED BY <1>1, <3>1, <3>3, <3>4
  <2> QED BY <1>1, <1>8, <1>23, <2>1 DEF Delivered
<1>25. Emptied'
  <2> SUFFICES ASSUME NEW b \in Live, NEW i \in Waiting(b), i[1] \in Strict,
                      <<i[1], batch[b].last>> \in sent'
               PROVE  AtLast(i[1], b)'
    BY <1>1, <1>8 DEF Emptied
  <2>1. CASE <<i[1], batch[b].last>> \in sent
    <3>1. AtLast(i[1], b)
      BY <2>1 DEF Emptied
    <3> QED BY <1>1, <1>6, <3>1, Constants DEF AtLast, Carries, Strict, Shutter
  <2>2. CASE <<i[1], batch[b].last>> \in items
    <3>1. f = batch[b].last /\ f \in FramesOf(b) /\ b \in Frames
      BY <1>7, <2>2, Ordered, LiveBatches
    <3>2. pc'[t] = "queue"
      BY <1>6, <1>9, <3>1
    <3>3. CASE t = "shutter"
      BY <1>1, <1>5, <2>2, <3>1, <3>2, <3>3 DEF AtLast
    <3>4. CASE t = "result"
      <4>1. i[1] = NumPartial => partial = NumPartial
        BY <2>2, <3>1, <3>4, Constants
      <4>2. i[1] \in Streams \/ i[1] = NumPartial
        BY <2>2, <3>4, Constants DEF Strict, Shutter
      <4> QED BY <1>1, <1>5, <2>2, <3>1, <3>2, <3>4, <4>1, <4>2 DEF AtLast, Carries
    <3> QED BY <3>3, <3>4
  <2> QED BY <1>1, <2>1, <2>2
<1>26. Placed'
  BY <1>1, <1>8, <1>10, <1>11 DEF Placed
<1>27. Reconfigured'
  BY <1>1, <1>8, <1>10 DEF Reconfigured
<1>28. [Contract!Next]_(Contract!vars)
  <2>1. sent' \in SUBSET Item
    BY <1>12 DEF Types
  <2>2. \A i \in sent' \ sent, j \in sent : j[1] = i[1] => j[2] < i[2]
    BY <1>1, <1>7
  <2> QED BY <1>1, <2>1, <2>2
        DEF Contract!Next, Contract!Send, Item, Contract!Item, Contract!Frames, Frames
<1> QED BY <1>12, <1>13, <1>14, <1>15, <1>16, <1>17, <1>19, <1>20, <1>21, <1>22, <1>24, <1>25,
           <1>26, <1>27, <1>28

LEMMA ShutterArrivesStep ==
  ASSUME IInv, HalWaits, ShutterArrives
  PROVE  IInv' /\ [Contract!Next]_(Contract!vars)
<1>1. PICK f \in submitted \ errored :
        /\ Ready(<<Shutter, f>>)
        /\ Enter("shutter", f, 0, {<<Shutter, f>>}, "queue")
        /\ UNCHANGED errored
  BY DEF ShutterArrives
<1> DEFINE items == {<<Shutter, f>>}
<1>2. items \in SUBSET Item /\ 0 \in 0..NumPartial /\ f \in submitted /\ items # {}
  <2>1. f \in Frames /\ Shutter \in Lanes
    BY Pieces DEF IInv, Types
  <2>2. <<Shutter, f>> \in Item
    BY <2>1, Pieces
  <2> QED BY <2>2, Constants
<1>3. /\ \A i \in items : i[2] = f /\ Ready(i)
      /\ Enter("shutter", f, 0, items, "queue") /\ errored' = errored /\ items = {<<Shutter, f>>}
  BY <1>1
<1> HIDE DEF items
<1> QED BY <1>2, <1>3, Arrives

LEMMA ResultArrivesStep ==
  ASSUME IInv, HalWaits, ResultArrives
  PROVE  IInv' /\ [Contract!Next]_(Contract!vars)
<1>1. PICK f \in submitted, partial \in 0..NumPartial, bufs \in SUBSET Streams :
        LET items == ((Partials \cap {partial}) \cup bufs) \X {f}
        IN  /\ items # {}
            /\ \A i \in items : Ready(i)
            /\ partial > 0 => /\ f \notin errored
                              /\ \A p \in partial..NumPartial : <<p, f>> \notin sent
            /\ Enter("result", f, partial, items, "queue")
            /\ UNCHANGED errored
  BY DEF ResultArrives
<1> DEFINE items == ((Partials \cap {partial}) \cup bufs) \X {f}
<1>2. f \in Frames
  BY DEF IInv, Types
<1>3. items \in SUBSET Item
  BY <1>2, Pieces
<1>4. \A i \in items : i[2] = f
  OBVIOUS
<1>5. items \subseteq (Partials \cup Streams) \X {f}
  OBVIOUS
<1>6. \A p \in Partials : <<p, f>> \in items <=> p = partial
  BY Constants
<1>7. partial > 0 => \A q \in Partials : q >= partial => <<q, f>> \notin sent
  BY <1>1, Constants
<1>8. /\ items # {} /\ \A i \in items : Ready(i)
      /\ Enter("result", f, partial, items, "queue") /\ errored' = errored
  BY <1>1
<1> HIDE DEF items
<1> QED BY <1>3, <1>4, <1>5, <1>6, <1>7, <1>8, Arrives

\* The error is noted for its frame; the batch of the frame is looked up.
LEMMA ErrorArrivesStep ==
  ASSUME IInv, HalWaits, ErrorArrives
  PROVE  IInv' /\ [Contract!Next]_(Contract!vars)
<1> USE DEF IInv
<1>1. PICK f \in submitted \ errored :
        Answerable(f) /\ errored' = errored \cup {f} /\ Enter("error", f, 0, {}, "lock")
  BY DEF ErrorArrives
<1> DEFINE message == [frame |-> f, batch |-> BatchOf(f), partial |-> 0,
                       items |-> {}, filled |-> {}, idx |-> BatchIdx(f)]
<1>2. /\ pc["error"] = "idle" /\ mLock = "free" /\ sent' = sent
      /\ cur' = [cur EXCEPT !["error"] = message]
      /\ Goto("error", IF BatchOf(f) = None THEN "single" ELSE "lock")
      /\ UNCHANGED <<clientVars, batchVars, lockVars, dataVars, mStreamsToBatch>>
  BY <1>1 DEF Enter
<1>3. f \in Frames /\ f \in Nat /\ f # None
  BY Constants DEF Types, None
<1>4. message \in Message
  BY <1>3, BatchFound, Constants DEF Message
<1>5. /\ pc' \in [Threads -> Labels] /\ cur' \in [Threads -> Message] /\ OnlyMoves("error")
      /\ cur'["error"] = message
      /\ pc'["error"] = (IF BatchOf(f) = None THEN "single" ELSE "lock")
      /\ pc'["shutter"] = pc["shutter"] /\ pc'["result"] = pc["result"]
      /\ cur'["shutter"] = cur["shutter"] /\ cur'["result"] = cur["result"]
  <2>1. {"single", "lock"} \subseteq Labels /\ "error" \in Threads
    BY DEF Labels, Threads
  <2>2. /\ pc' \in [Threads -> Labels] /\ \A u \in Threads \ {"error"} : pc'[u] = pc[u]
        /\ pc'["error"] = (IF BatchOf(f) = None THEN "single" ELSE "lock")
    BY <1>2, <2>1, Moves
  <2> QED BY <1>2, <1>4, <2>1, <2>2 DEF Types, OnlyMoves, Threads
<1>6. cur'["error"].frame = f /\ cur'["error"].idx = BatchIdx(f)
  BY <1>5
<1> HIDE DEF message
<1>7. UNCHANGED <<call, burst, nextFrame, submitted, mInflightBatches, batch, mLock, batchLock, sent>>
  BY <1>2 DEF clientVars, batchVars, lockVars
<1>8. Excused' = Excused
  BY <1>1, <1>2, <1>3, <1>6 DEF Excused, Errors, Types, None, Frames
<1>9. Live' = Live /\ \A b : FramesOf(b)' = FramesOf(b)
  BY <1>7 DEF Live, FramesOf
<1>10. Errors'
  <2>1. pc'["error"] = "single" => \A b \in Live' : cur'["error"].frame \notin FramesOf(b)'
    BY <1>3, <1>5, <1>6, <1>9, BatchFound
  <2>2. pc'["error"] \in {"lock", "first"} \cup Flushing =>
          \A k \in DOMAIN mInflightBatches :
            f \in FramesOf(mInflightBatches[k]) => k <= BatchIdx(f)
    BY <1>3, <1>5, BatchFound DEF Flushing
  <2>3. pc'["error"] # "idle" /\ cur'["error"].frame \in errored'
    BY <1>1, <1>5, <1>6
  <2>4. \A k \in DOMAIN mInflightBatches :
          FramesOf(mInflightBatches[k])' = FramesOf(mInflightBatches[k])
    BY <1>7, <1>9
  <2> QED BY <1>6, <1>7, <1>8, <1>9, <2>1, <2>2, <2>3, <2>4 DEF Errors
<1>11. LanesFull'
  BY <1>7, <1>8 DEF LanesFull
<1>12. Locks'
  BY <1>2, <1>5, <1>7 DEF Locks, Flushing
<1>13. Client'
  BY <1>1, <1>7 DEF Client, Answerable
<1>14. /\ pc'["error"] \in {"idle", "single", "lock", "first", "crashed"}
       /\ mLock' \in {"free", "error"} /\ pc["error"] \notin Flushing /\ UNCHANGED batchLock
       /\ errored' \subseteq submitted
  BY <1>1, <1>2, <1>5, <1>7 DEF Types, Flushing
<1> QED BY <1>2, <1>5, <1>10, <1>11, <1>12, <1>13, <1>14, OnlyErrorMoves

---------------------------------------------------------------------------
(* Work on a batch. *)

\* What a thread or a batch holds is handed on, stays, or moves into the batch.
LEMMA Conserved ==
  ASSUME IInv, SameShape, NEW b \in Live, NEW I \in SUBSET (Waiting(b) \cup Hand), sent' = sent,
         \A i \in Item : Handled(i)' <=> Handled(i) \/ i \in I,
         \A a \in Live : a # b => Waiting(a)' = Waiting(a) /\ batch'[a] = batch[a],
         Hand' \subseteq Hand, Waiting(b)' \cup Hand' = (Waiting(b) \cup Hand) \ I,
         Waiting(b)' \cap Hand' = {}, \A i \in Waiting(b)' : i[2] \in FramesOf(b),
         batch'[b].shutters \subseteq {Shutter} \X Frames, batch'[b].mds \subseteq Partials \X Frames
  PROVE  InHand' /\ HeldBack' /\ Placed'
<1> USE DEF IInv
<1>1. Live' = Live /\ \A a \in Live : FramesOf(a)' = FramesOf(a)
  BY ShapeKept, LiveBatches
<1>2. sent \subseteq Item
  BY DEF Types
<1>3. \A i \in Waiting(b) \cup Hand : i \in sent /\ i \in Item /\ ~Handled(i)
  BY <1>2 DEF InHand, HeldBack
<1>4. InHand'
  <2>1. \A i \in Hand' : i \in Hand /\ i \in sent /\ ~Handled(i)'
    BY <1>3
  <2> QED BY <2>1 DEF InHand, Newest
<1>5. HeldBack'
  <2>1. ASSUME NEW a \in Live, a # b, NEW i \in Waiting(a)
        PROVE  i \in sent /\ i[2] \in FramesOf(a) /\ ~Handled(i)' /\ i \notin Hand'
    <3>1. i \in sent /\ i \in Item /\ i[2] \in FramesOf(a) /\ ~Handled(i) /\ i \notin Hand
      BY <1>2 DEF HeldBack
    <3>2. i \notin Waiting(b)
      BY <2>1, <3>1, LanesHeld, Ordered
    <3> QED BY <3>1, <3>2
  <2>2. \A i \in Waiting(b)' : i \in sent /\ ~Handled(i)' /\ i \notin Hand'
    BY <1>3
  <2>3. \A a \in Live : batch'[a].shutters \subseteq {Shutter} \X Frames
                          /\ batch'[a].mds \subseteq Partials \X Frames
    BY DEF HeldBack
  <2> QED BY <1>1, <2>1, <2>2, <2>3 DEF HeldBack
<1>6. Placed'
  <2>1. ASSUME NEW i \in sent
        PROVE  Handled(i)' \/ i \in Hand' \/ \E a \in Live : i \in Waiting(a)'
    <3>1. CASE Handled(i)
      BY <1>2, <3>1
    <3>2. CASE i \in Hand
      BY <1>2, <3>2
    <3>3. ASSUME NEW a \in Live, i \in Waiting(a)
          PROVE  Handled(i)' \/ i \in Hand' \/ \E c \in Live : i \in Waiting(c)'
      <4>1. CASE a = b
        BY <1>2, <3>3, <4>1
      <4>2. CASE a # b
        BY <3>3, <4>2
      <4> QED BY <4>1, <4>2
    <3> QED BY <3>1, <3>2, <3>3 DEF Placed
  <2>2. \A i \in Item : Handled(i)' => i \in sent
    BY <1>3 DEF Placed
  <2> QED BY <1>1, <2>1, <2>2 DEF Placed
<1> QED BY <1>4, <1>5, <1>6

\* Only the content of one batch changes.
OnlyBatch(b) == mInflightBatches' = mInflightBatches /\ \A a \in Frames \ {b} : batch'[a] = batch[a]

\* A change within one batch leaves what is said of the others.
LEMMA OthersAlone ==
  ASSUME IInv, NEW b \in Live, OnlyBatch(b),
         batch'[b].last = batch[b].last, batch'[b].removed = batch[b].removed,
         DOMAIN batch'[b].bufs = DOMAIN batch[b].bufs
  PROVE  /\ SameShape /\ Live' = Live
         /\ \A a \in Frames : FramesOf(a)' = FramesOf(a)
         /\ \A a \in Live : a # b =>
              /\ batch'[a] = batch[a] /\ Waiting(a)' = Waiting(a)
              /\ \A l : DoneLane(l, a)' <=> DoneLane(l, a)
<1>1. SameShape
  BY DEF SameShape, OnlyBatch
<1>2. Live' = Live /\ \A a \in Frames : FramesOf(a)' = FramesOf(a)
  BY <1>1, ShapeKept
<1>3. Live \subseteq Frames
  BY LiveBatches DEF IInv
<1> QED BY <1>1, <1>2, <1>3 DEF OnlyBatch, Waiting, HeldBuffers, DoneLane

---------------------------------------------------------------------------
(* The last shutter of a batch brings them all. *)

LEMMA QueueShutterStep ==
  ASSUME IInv, QueueShutter
  PROVE  IInv' /\ [Contract!Next]_(Contract!vars)
<1> USE DEF IInv
<1> DEFINE message == cur["shutter"]
<1>1. PICK b \in Frames : b = message.batch
  BY DEF QueueShutter, Workers
<1>2. PICK items : items = message.items
  OBVIOUS
<1>3. PICK f : f = message.frame
  OBVIOUS
<1>4. /\ pc["shutter"] = "queue" /\ batchLock[b] = "free"
      /\ UNCHANGED <<clientVars, mInflightBatches, lockVars, mStreamsToBatch, errored, sent>>
  BY <1>1 DEF QueueShutter
<1>5. /\ items = {<<Shutter, f>>} /\ f \in FramesOf(b) /\ (b \in Live \/ batch[b].removed)
      /\ ShutterHand = items /\ items \subseteq Hand
  BY <1>1, <1>2, <1>3, <1>4 DEF Workers, Hand, ShutterHand
<1>6. CASE FallsBack(b)
  <2>1. Notify(message.items) /\ Done("shutter") /\ UNCHANGED batch
    BY <1>1, <1>6 DEF QueueShutter
  <2>2. \A a \in Live : message.frame \notin FramesOf(a)
    BY <1>3, <1>5, <1>6, RemovedApart DEF FallsBack
  <2>3. UNCHANGED batchVars
    BY <1>4, <2>1 DEF batchVars
  <2> QED BY <1>4, <2>1, <2>2, <2>3, ShutterGoesUp
<1>7. CASE ~FallsBack(b)
  <2>1. b \in Live
    BY <1>5, <1>7 DEF FallsBack
  <2>2. Newest(Shutter, f) /\ f \in Nat /\ batch[b].last \in Nat /\ f <= batch[b].last
    BY <1>5, <2>1, Ordered, Constants DEF InHand, FramesOf
  <2>3. ~batch[b].shutterDone
    <3> SUFFICES ASSUME batch[b].shutterDone PROVE FALSE
      OBVIOUS
    <3>1. <<Shutter, batch[b].last>> \in sent /\ ~AtLast(Shutter, b)
      BY <1>4, <2>1 DEF Delivered, DoneLane, Strict
    <3>2. f = batch[b].last
      BY <2>2, <3>1 DEF Newest
    <3> QED BY <1>3, <1>4, <3>1, <3>2 DEF AtLast
  <2>4. \/ /\ f # batch[b].last /\ Done("shutter") /\ UNCHANGED dataVars
           /\ batch' = [batch EXCEPT ![b].shutters = batch[b].shutters \cup items]
        \/ /\ f = batch[b].last /\ Goto("shutter", "check") /\ UNCHANGED cur
           /\ Notify(batch[b].shutters \cup items)
           /\ batch' = [batch EXCEPT ![b].shutters = {}, ![b].shutterDone = TRUE]
    BY <1>1, <1>2, <1>3, <1>7, <2>3 DEF QueueShutter, IsLast
  <2>5. PICK I : I = (IF f = batch[b].last THEN batch[b].shutters \cup items ELSE {})
    OBVIOUS
  <2>6. HandsOn(I) /\ mProcessCaptureResultLock' = mProcessCaptureResultLock
    <3>1. CASE f # batch[b].last
      <4>1. \A i \in Item : got[i] \in Nat
        BY DEF Types
      <4> QED BY <2>4, <2>5, <3>1, <4>1 DEF HandsOn, dataVars
    <3>2. CASE f = batch[b].last
      BY <2>4, <2>5, <3>2, Callbacks
    <3> QED BY <3>1, <3>2
  <2>7. /\ pc' \in [Threads -> Labels] /\ cur' \in [Threads -> Message] /\ OnlyMoves("shutter")
        /\ pc'["shutter"] \in {"idle", "check"}
        /\ pc'["result"] = pc["result"] /\ cur'["result"] = cur["result"]
        /\ pc'["error"] = pc["error"] /\ cur'["error"] = cur["error"]
    <3>1. "check" \in Labels
      BY DEF Labels
    <3> QED BY <2>4, <3>1, Moves, DoneMoves DEF Threads, OnlyMoves, Types
  <2>8. OnlyBatch(b) /\ batch[b] \in Batch /\ batch \in [Frames -> Batch] /\ items \subseteq Item
    BY <1>4, <1>5, <2>4 DEF OnlyBatch, InHand, Types
  <2>9. /\ batch' \in [Frames -> Batch]
        /\ batch'[b].last = batch[b].last /\ batch'[b].removed = batch[b].removed
        /\ batch'[b].bufs = batch[b].bufs /\ batch'[b].mds = batch[b].mds
        /\ batch'[b].bufsDone = batch[b].bufsDone /\ batch'[b].progress = batch[b].progress
        /\ batch'[b].shutters = (batch[b].shutters \cup items) \ I
        /\ batch'[b].shutterDone <=> f = batch[b].last
    <3>1. CASE f # batch[b].last
      <4>1. batch'[b] = [batch[b] EXCEPT !.shutters = batch[b].shutters \cup items]
        BY <2>4, <2>8, <3>1
      <4>2. batch'[b] \in Batch /\ I = {}
        BY <2>5, <2>8, <3>1, <4>1 DEF Batch
      <4> QED BY <2>3, <2>4, <2>8, <3>1, <4>1, <4>2 DEF Batch
    <3>2. CASE f = batch[b].last
      <4>1. batch'[b] = [batch[b] EXCEPT !.shutters = {}, !.shutterDone = TRUE]
        BY <2>4, <2>8, <3>2
      <4>2. batch'[b] \in Batch /\ (batch[b].shutters \cup items) \ I = {}
        BY <2>5, <2>8, <3>2, <4>1 DEF Batch
      <4>3. batch' \in [Frames -> Batch]
        BY <2>4, <2>8, <4>2
      <4>4. batch'[b].shutters = {} /\ batch'[b].shutterDone
        BY <2>8, <4>1 DEF Batch
      <4>5. /\ batch'[b].last = batch[b].last /\ batch'[b].removed = batch[b].removed
            /\ batch'[b].bufs = batch[b].bufs /\ batch'[b].mds = batch[b].mds
            /\ batch'[b].bufsDone = batch[b].bufsDone /\ batch'[b].progress = batch[b].progress
        BY <2>8, <4>1 DEF Batch
      <4> QED BY <3>2, <4>2, <4>3, <4>4, <4>5
    <3> QED BY <3>1, <3>2
  <2>10. /\ SameShape /\ Live' = Live
         /\ \A a \in Frames : FramesOf(a)' = FramesOf(a)
         /\ \A a \in Live : a # b =>
              /\ batch'[a] = batch[a] /\ Waiting(a)' = Waiting(a)
              /\ \A l : DoneLane(l, a)' <=> DoneLane(l, a)
    BY <2>1, <2>8, <2>9, OthersAlone
  <2>11. Hand' = ResultHand /\ ResultHand' = ResultHand
    BY <2>7 DEF Hand, ShutterHand, ResultHand
  <2>12. /\ \A i \in Waiting(b) : i[1] = Shutter <=> i \in batch[b].shutters
         /\ \A i : i \in Waiting(b)' <=> (i \in Waiting(b) \/ i \in items) /\ i \notin I
    <3>1. \A i \in batch[b].mds : i \notin I
      BY <1>5, <2>1, <2>5, Constants DEF HeldBack, Shutter
    <3>2. \A i \in HeldBuffers(b) : i \notin I
      BY <1>5, <2>1, <2>5, LanesHeld, Constants DEF Waiting, Shutter, HeldBack
    <3>3. HeldBuffers(b)' = HeldBuffers(b)
      BY <2>9 DEF HeldBuffers
    <3>4. \A i \in Waiting(b) : i[1] = Shutter <=> i \in batch[b].shutters
      BY <2>1, LanesHeld
    <3> QED BY <2>9, <3>1, <3>2, <3>3, <3>4 DEF Waiting
  <2>13. /\ I \subseteq Waiting(b) \cup Hand /\ \A i \in I : i \in sent /\ ~Handled(i) /\ i[1] = Shutter
    <3>1. \A i \in batch[b].shutters : i \in Waiting(b) /\ i[1] = Shutter
      BY <2>1, <2>12 DEF Waiting, HeldBack
    <3> QED BY <1>5, <2>1, <2>5, <3>1 DEF HeldBack, InHand
  <2>14. /\ [Contract!Next]_(Contract!vars)
         /\ \A i \in Item : Handled(i)' <=> Handled(i) \/ i \in I
         /\ got' \in [Item -> Nat] /\ lost' \subseteq Item
    <3>1. ASSUME NEW i \in I, NEW a \in Live, i[2] \in FramesOf(a),
                 NEW j \in Waiting(a), j[1] = i[1]
          PROVE  j \in I
      <4>1. i \in Waiting(b) \/ i \in items
        BY <1>5, <2>5, <2>13, <3>1 DEF Waiting
      <4>2. i[2] \in FramesOf(b)
        BY <1>5, <2>1, <4>1, LanesHeld
      <4>3. a = b /\ j \in batch[b].shutters
        BY <2>1, <2>12, <2>13, <3>1, <4>2, Ordered
      <4> QED BY <2>5, <3>1, <4>3
    <3> QED BY <1>4, <2>6, <2>13, <3>1, StepOfContract
  <2>15. InHand' /\ HeldBack' /\ Placed'
    <3>1. \A i \in ResultHand : i \notin items
      BY <1>5, Constants DEF ResultHand, Workers, Shutter
    <3>2. Hand = ResultHand \cup items
      BY <1>5 DEF Hand
    <3>3. \A i \in ResultHand : i \notin I /\ i \notin Waiting(b)
      BY <2>1, <2>5, <3>1, <3>2 DEF HeldBack, Waiting
    <3>4. /\ Hand' \subseteq Hand /\ Waiting(b)' \cup Hand' = (Waiting(b) \cup Hand) \ I
          /\ Waiting(b)' \cap Hand' = {}
      BY <2>11, <2>12, <3>1, <3>2, <3>3
    <3>5. \A i \in Waiting(b)' : i[2] \in FramesOf(b)
      BY <1>5, <2>1, <2>12, LanesHeld
    <3>6. /\ batch'[b].shutters \subseteq {Shutter} \X Frames
          /\ batch'[b].mds \subseteq Partials \X Frames
      <4>1. f \in Frames
        BY <1>5, <2>1, Ordered
      <4> QED BY <1>5, <2>1, <2>9, <4>1 DEF HeldBack
    <3> QED BY <1>4, <2>1, <2>10, <2>13, <2>14, <3>4, <3>5, <3>6, Conserved
  <2>16. Types'
    <3>1. pc'["shutter"] \in {"idle", "single", "queue", "check"}
      BY <2>7
    <3> QED BY <1>4, <2>6, <2>7, <2>9, <2>14, <3>1 DEF Types, clientVars, lockVars
  <2>17. Client' /\ Deque' /\ LanesFull' /\ Errors'
    BY <1>4, <2>7, <2>10, StructureKept
  <2>18. Locks'
    BY <1>4, <2>7 DEF Locks, lockVars
  <2>19. UNCHANGED <<pc["result"], cur["result"], pc["error"], mInflightBatches>>
    BY <1>4, <2>7
  <2>20. \A a \in Frames : batch'[a].last = batch[a].last /\ batch'[a].removed = batch[a].removed
                            /\ DOMAIN batch'[a].bufs = DOMAIN batch[a].bufs
    BY <2>10 DEF SameShape
  <2>21. Workers'
    <3>1. \A l, g : Newest(l, g)' <=> Newest(l, g)
      BY <1>4 DEF Newest
    <3>2. pc["result"] \in {"others", "metadata", "buffers"} => cur["result"].batch \in Frames
      BY DEF Workers, Holding
    <3>3. pc["result"] \in {"others", "metadata", "buffers"} =>
            /\ batch'[cur["result"].batch].last = batch[cur["result"].batch].last
            /\ DOMAIN batch'[cur["result"].batch].bufs = DOMAIN batch[cur["result"].batch].bufs
      BY <2>20, <3>2
    <3>4. pc["result"] \in {"queue"} \cup (Holding \ {"leave"}) =>
            /\ FramesOf(cur["result"].batch)' = FramesOf(cur["result"].batch)
            /\ batch'[cur["result"].batch].removed = batch[cur["result"].batch].removed
      BY <2>10, <2>19, <2>20 DEF Workers
    <3>5. \A a \in Live : FramesOf(a)' = FramesOf(a)
      BY <2>10, LiveBatches
    <3>6. Workers /\ Live' = Live /\ pc'["result"] = pc["result"] /\ cur'["result"] = cur["result"]
      BY <2>7, <2>10
    <3> HIDE DEF IInv
    <3> QED BY <2>7, <3>1, <3>3, <3>4, <3>5, <3>6 DEF Workers, Holding
  <2>22. Flushed'
    <3>1. pc["error"] \in Flushing => Head(mInflightBatches) # b
      BY <1>1, <1>4 DEF Locks
    <3>2. pc["error"] \in Flushing => Head(mInflightBatches) \in Frames
      BY LiveBatches DEF Locks
    <3>3. pc["error"] \in Flushing =>
            batch'[Head(mInflightBatches)] = batch[Head(mInflightBatches)]
      BY <2>8, <3>1, <3>2 DEF OnlyBatch
    <3> QED BY <2>7, <2>19, <3>3 DEF Flushed, Flushing
  <2>23. Positions'
    <3>1. \A a \in Live : /\ batch'[a].bufs = batch[a].bufs /\ batch'[a].bufsDone = batch[a].bufsDone
                          /\ FramesOf(a)' = FramesOf(a)
      BY <2>9, <2>10, LiveBatches
    <3>2. sent' = sent /\ ResultHand' = ResultHand /\ Live' = Live
      BY <1>4, <2>10, <2>11
    <3> QED BY <3>1, <3>2 DEF Positions
  <2>24. \A l \in Strict, a \in Live :
           AtLast(l, a)' <=> AtLast(l, a) /\ ~(l = Shutter /\ a = b)
    <3>1. \A a \in Live : f = batch[a].last => a = b
      BY <1>5, <2>1, Ordered
    <3>2. \A a \in Live : a \in Frames
      BY LiveBatches
    <3> QED BY <1>3, <1>4, <2>7, <2>19, <2>20, <3>1, <3>2, Constants DEF AtLast, Carries, Strict, Shutter
  <2>25. Delivered'
    <3>1. \A l \in Strict : l # Shutter => (DoneLane(l, b)' <=> DoneLane(l, b))
      BY <2>9 DEF DoneLane
    <3>2. DoneLane(Shutter, b)' => <<Shutter, batch[b].last>> \in sent
      BY <2>2, <2>9, Constants, BatchFields DEF DoneLane, Newest, Shutter
    <3>3. \A a \in Live : \A l \in Strict : batchLock[a] # "error" /\ DoneLane(l, a)' =>
            <<l, batch[a].last>> \in sent /\ ~AtLast(l, a)'
      BY <2>1, <2>10, <2>24, <3>1, <3>2 DEF Delivered
    <3>4. /\ batch'[b].shutterDone => batch'[b].shutters = {}
          /\ \A a \in Live : a # b => batch'[a] = batch[a]
      BY <2>5, <2>9, <2>10
    <3> QED BY <1>4, <2>1, <2>9, <2>10, <2>20, <3>3, <3>4, LiveBatches DEF Delivered, lockVars
  <2>26. Emptied'
    <3> SUFFICES ASSUME NEW a \in Live, NEW i \in Waiting(a)', i[1] \in Strict,
                        <<i[1], batch[a].last>> \in sent
                 PROVE  AtLast(i[1], a)'
      BY <1>4, <2>10, <2>20, LiveBatches DEF Emptied
    <3>1. CASE a # b \/ i[1] # Shutter
      <4>1. i \in Waiting(a)
        BY <1>5, <2>10, <2>12, <3>1
      <4> QED BY <2>24, <3>1, <4>1 DEF Emptied
    <3>2. CASE a = b /\ i[1] = Shutter
      <4>1. i \notin I /\ (i \in batch[b].shutters \/ i \in items)
        BY <2>12, <3>2
      <4>2. f # batch[b].last
        BY <2>5, <4>1
      <4> QED BY <2>2, <3>2, <4>2 DEF Newest
    <3> QED BY <3>1, <3>2
  <2>27. Reconfigured'
    BY <1>4, <2>1, <2>9, <2>10, <2>14 DEF Reconfigured, Types
  <2> QED BY <2>14, <2>15, <2>16, <2>17, <2>18, <2>21, <2>22, <2>23, <2>25, <2>26, <2>27
<1> QED BY <1>6, <1>7

---------------------------------------------------------------------------
(* A result is split: its batch's share is queued, the rest goes up. *)

LEMMA SendOthersStep ==
  ASSUME IInv, SendOthers
  PROVE  IInv' /\ [Contract!Next]_(Contract!vars)
<1> USE DEF IInv
<1> DEFINE I == cur["result"].items
<1>1. PICK b \in Live : b = cur["result"].batch
  BY DEF SendOthers, Workers, Holding
<1>2. PICK f : f = cur["result"].frame
  OBVIOUS
<1>3. /\ pc["result"] = "others" /\ Invoke("result", I)
      /\ cur' = [cur EXCEPT !["result"].items = {}]
      /\ Goto("result", IF f = batch[b].last THEN "metadata" ELSE "unlock")
      /\ UNCHANGED <<clientVars, batchVars, lockVars, mStreamsToBatch, errored, sent>>
  BY <1>1, <1>2 DEF SendOthers, AfterQueueing, IsLast
<1>4. UNCHANGED <<call, burst, nextFrame, submitted, mInflightBatches, batch, mLock, batchLock,
                  mStreamsToBatch, errored, sent>>
  BY <1>3 DEF clientVars, batchVars, lockVars
<1>5. /\ pc' \in [Threads -> Labels] /\ cur' \in [Threads -> Message] /\ OnlyMoves("result")
      /\ pc'["result"] = (IF f = batch[b].last THEN "metadata" ELSE "unlock")
      /\ cur'["result"] = [cur["result"] EXCEPT !.items = {}]
      /\ pc'["shutter"] = pc["shutter"] /\ cur'["shutter"] = cur["shutter"]
      /\ pc'["error"] = pc["error"] /\ cur'["error"] = cur["error"]
  <2>1. {"metadata", "unlock"} \subseteq Labels /\ "result" \in Threads
    BY DEF Labels, Holding, Threads
  <2>2. /\ pc' \in [Threads -> Labels] /\ \A u \in Threads \ {"result"} : pc'[u] = pc[u]
        /\ pc'["result"] = (IF f = batch[b].last THEN "metadata" ELSE "unlock")
    BY <1>3, <2>1, Moves
  <2>3. cur["result"] \in Message /\ cur \in [Threads -> Message]
    BY <2>1 DEF Types
  <2>4. /\ cur'["result"] = [cur["result"] EXCEPT !.items = {}]
        /\ \A u \in Threads \ {"result"} : cur'[u] = cur[u]
    BY <1>3, <2>1, <2>3
  <2>5. cur' \in [Threads -> Message]
    BY <1>3, <2>1, <2>3 DEF Message
  <2> QED BY <2>2, <2>4, <2>5 DEF OnlyMoves, Threads
<1>6. /\ cur'["result"].frame = f /\ cur'["result"].batch = b
      /\ cur'["result"].partial = cur["result"].partial
      /\ cur'["result"].filled = cur["result"].filled
  BY <1>1, <1>2, <1>5 DEF Types, Message, Threads
<1>7. /\ f \in FramesOf(b) /\ b \in Frames
      /\ I \subseteq (Streams \ DOMAIN batch[b].bufs) \X {f}
      /\ \A a \in Live : f \in FramesOf(a) => a = b
  BY <1>1, <1>2, <1>3, LiveBatches, Ordered DEF Workers, Holding
<1>8. Live' = Live /\ \A a : FramesOf(a)' = FramesOf(a)
  BY <1>4 DEF Live, FramesOf
<1>9. ResultHand = I /\ ResultHand' = {} /\ ShutterHand' = ShutterHand
  BY <1>3, <1>5 DEF ResultHand, ShutterHand
<1>10. I \subseteq Hand /\ Hand' = Hand \ I
  <2>1. \A i \in ShutterHand : i \notin I
    BY <1>7, Constants DEF ShutterHand, Workers, Shutter
  <2> QED BY <1>9, <2>1 DEF Hand
<1>11. /\ [Contract!Next]_(Contract!vars)
       /\ \A i \in Item : Handled(i)' <=> Handled(i) \/ i \in I
       /\ got' \in [Item -> Nat] /\ lost' \subseteq Item
  <2>1. I \subseteq sent /\ \A i \in I : ~Handled(i)
    BY <1>10 DEF InHand
  <2>2. ASSUME NEW i \in I, NEW a \in Live, i[2] \in FramesOf(a), NEW j \in Waiting(a), j[1] = i[1]
        PROVE  FALSE
    <3>1. a = b /\ i[1] \in Streams /\ i[1] \notin DOMAIN batch[b].bufs
      BY <1>7, <2>2
    <3>2. j \in HeldBuffers(b)
      BY <1>1, <2>2, <3>1, LanesHeld
    <3> QED BY <2>2, <3>1, <3>2 DEF HeldBuffers
  <2>3. HandsOn(I)
    BY <1>3, Callbacks
  <2> QED BY <1>4, <2>1, <2>2, <2>3, StepOfContract
<1>12. mProcessCaptureResultLock' \in {"result", mProcessCaptureResultLock}
  BY <1>3, Callbacks
<1>13. Types'
  <2>1. pc'["result"] \in {"idle", "single", "queue", "check"} \cup Holding
    BY <1>5 DEF Holding
  <2> QED BY <1>4, <1>5, <1>11, <1>12, <2>1 DEF Types
<1>14. Client' /\ Deque' /\ LanesFull' /\ Errors'
  BY <1>4, <1>5, StructureKept DEF SameShape, clientVars
<1>15. Locks'
  BY <1>1, <1>3, <1>4, <1>5, <1>6 DEF Locks, Holding
<1>16. Workers'
  BY <1>1, <1>2, <1>3, <1>4, <1>5, <1>6, <1>8 DEF Workers, Newest, Holding
<1>17. Flushed'
  BY <1>4, <1>5 DEF Flushed
<1>18. \A l \in Strict, a \in Live : AtLast(l, a)' <=> AtLast(l, a)
  <2>1. \A a \in Live : f = batch[a].last => a = b
    BY <1>7, Ordered
  <2> QED BY <1>2, <1>3, <1>4, <1>5, <1>6, <2>1 DEF AtLast, Carries
<1>19. \A a \in Live : \A s \in DOMAIN batch[a].bufs, g \in FramesOf(a) :
         <<s, g>> \in ResultHand' <=> <<s, g>> \in ResultHand
  BY <1>7, <1>9
<1> QED BY <1>4, <1>10, <1>11, <1>13, <1>14, <1>15, <1>16, <1>17, <1>18, <1>19, BatchesLeft

\* A buffer queued at the end of its stream takes the next position.
LEMMA Appended ==
  ASSUME NEW S, NEW q \in Seq(S), NEW e \in S
  PROVE  /\ Len(q) \in Nat /\ DOMAIN q = 1..Len(q)
         /\ Len(Append(q, e)) = Len(q) + 1 /\ DOMAIN Append(q, e) = 1..(Len(q) + 1)
         /\ \A k \in 1..Len(q) : Append(q, e)[k] = q[k]
         /\ Append(q, e)[Len(q) + 1] = e
OBVIOUS

\* A buffer is appended at the position of its frame.
LEMMA NextPosition ==
  ASSUME IInv, NEW b \in Live, pc["result"] = "queue", cur["result"].batch = b, batchLock[b] # "error",
         NEW s \in DOMAIN batch[b].bufs, <<s, cur["result"].frame>> \in cur["result"].items
  PROVE  /\ s \notin batch[b].bufsDone
         /\ cur["result"].frame = b + Len(batch[b].bufs[s])
<1> USE DEF IInv
<1>1. PICK f : f = cur["result"].frame
  OBVIOUS
<1>2. /\ f \in FramesOf(b) /\ f \in Nat /\ b \in Nat /\ b <= f /\ f <= batch[b].last
      /\ batch[b].last \in Nat /\ batch[b].last \in FramesOf(b)
      /\ s \in Streams /\ s \in Strict /\ Len(batch[b].bufs[s]) \in Nat
  <2>1. f \in FramesOf(b) /\ b \in Frames
    BY <1>1, LiveBatches DEF Workers
  <2> QED BY <2>1, Ordered, BatchFields, Constants DEF FramesOf, Strict
<1>3. <<s, f>> \in ResultHand /\ <<s, f>> \in Hand /\ Newest(s, f) /\ <<s, f>> \in sent
  BY <1>1 DEF ResultHand, Hand, InHand
<1>4. s \notin batch[b].bufsDone
  <2> SUFFICES ASSUME s \in batch[b].bufsDone PROVE FALSE
    OBVIOUS
  <2>1. <<s, batch[b].last>> \in sent /\ ~AtLast(s, b)
    BY <1>2 DEF Delivered, DoneLane
  <2>2. f = batch[b].last
    BY <1>2, <1>3, <2>1 DEF Newest
  <2> QED BY <1>1, <1>2, <2>1, <2>2 DEF AtLast, Carries
<1>5. \A g \in FramesOf(b) : g < b + Len(batch[b].bufs[s]) <=> <<s, g>> \in sent \ ResultHand
  BY <1>4 DEF Positions
<1>6. f >= b + Len(batch[b].bufs[s])
  BY <1>2, <1>3, <1>5
<1>7. f <= b + Len(batch[b].bufs[s])
  <2>1. CASE f = b
    BY <1>2, <2>1
  <2>2. CASE b < f
    <3>1. f - 1 \in FramesOf(b) /\ f - 1 \in Nat /\ f - 1 <= f
      BY <1>2, <2>2 DEF FramesOf
    <3>2. <<s, f - 1>> \in sent
      BY <1>2, <1>3, <3>1, NoGap
    <3>3. <<s, f - 1>> \notin ResultHand
      <4>1. f - 1 # f
        BY <1>2
      <4> QED BY <1>1, <4>1 DEF ResultHand, Workers
    <3> QED BY <1>2, <1>5, <3>1, <3>2, <3>3
  <2> QED BY <1>2, <2>1, <2>2
<1> QED BY <1>1, <1>2, <1>4, <1>6, <1>7, SMTT(30)

LEMMA QueueResultStep ==
  ASSUME IInv, QueueResult
  PROVE  IInv' /\ [Contract!Next]_(Contract!vars)
<1> USE DEF IInv
<1>1. PICK b \in Frames : b = cur["result"].batch
  BY Zenon DEF QueueResult, Workers
<1>2. PICK f : f = cur["result"].frame
  OBVIOUS
<1>3. PICK items : items = cur["result"].items
  OBVIOUS
<1>4. PICK filled : filled = {s \in DOMAIN batch[b].bufs : <<s, f>> \in items}
  OBVIOUS
<1>5. PICK metadata : metadata = items \cap (Partials \X {f})
  OBVIOUS
<1>6. PICK others : others = items \ (metadata \cup (filled \X {f}))
  BY Zenon
<1>7. /\ pc["result"] = "queue" /\ batchLock[b] = "free" /\ ~batch[b].removed
      /\ batchLock' = [batchLock EXCEPT ![b] = "result"]
      /\ batch' = [batch EXCEPT
                     ![b].mds = @ \cup metadata,
                     ![b].bufs = [s \in DOMAIN @ |-> IF s \in filled THEN Append(@[s], f) ELSE @[s]]]
      /\ cur' = [cur EXCEPT !["result"].items = others, !["result"].filled = filled]
      /\ Goto("result", IF others # {} THEN "others"
                        ELSE IF f = batch[b].last THEN "metadata" ELSE "unlock")
      /\ UNCHANGED <<clientVars, mInflightBatches, mLock, dataVars, mStreamsToBatch, errored, sent>>
  BY <1>1, <1>2, <1>3, <1>4, <1>5, <1>6, ZenonT(60) DEF QueueResult, FallsBack, AfterQueueing, IsLast
<1>8. UNCHANGED <<call, burst, nextFrame, submitted, mInflightBatches, mLock, mStreamsToBatch,
                  errored, sent, got, lost, mProcessCaptureResultLock>>
  BY <1>7 DEF clientVars, dataVars
<1>9. /\ b \in Live /\ f \in FramesOf(b)
      /\ items # {} /\ items \subseteq (Partials \cup Streams) \X {f}
      /\ \A p \in Partials : <<p, f>> \in items <=> p = cur["result"].partial
  BY <1>1, <1>2, <1>3, <1>7 DEF Workers
<1>10. /\ f \in Frames /\ f \in Nat /\ batch[b].last \in Nat /\ f <= batch[b].last /\ b <= f /\ b \in Nat
       /\ batch[b].last \in FramesOf(b)
       /\ \A a \in Live : f \in FramesOf(a) => a = b
  BY <1>9, Ordered, Constants DEF FramesOf
<1>11. /\ ResultHand = items /\ items \subseteq Hand
       /\ \A i \in items : i \in sent /\ i \in Item /\ ~Handled(i) /\ Newest(i[1], f) /\ i = <<i[1], f>>
  <2>1. ResultHand = items /\ items \subseteq Hand
    BY <1>3, <1>7, SMTT(30) DEF ResultHand, Hand
  <2> QED BY <1>9, <2>1 DEF InHand, Types
<1>12. /\ filled \subseteq DOMAIN batch[b].bufs /\ filled \subseteq Streams
       /\ \A s \in filled : <<s, f>> \in items /\ s \notin batch[b].bufsDone
                              /\ f = b + Len(batch[b].bufs[s])
  <2>1. filled \subseteq DOMAIN batch[b].bufs /\ DOMAIN batch[b].bufs \subseteq Streams
    BY <1>4, BatchFields
  <2> QED BY <1>1, <1>2, <1>3, <1>4, <1>7, <1>9, <2>1, NextPosition, Zenon
<1>13. /\ metadata \subseteq items /\ others \subseteq items
       /\ items = metadata \cup (filled \X {f}) \cup others
       /\ metadata \subseteq Partials \X {f} /\ metadata \subseteq Item
       /\ others \subseteq (Streams \ DOMAIN batch[b].bufs) \X {f}
  <2>1. metadata \subseteq items /\ others \subseteq items /\ metadata \subseteq Partials \X {f}
    BY <1>5, <1>6
  <2>2. filled \X {f} \subseteq items
    BY <1>12
  <2>3. others \subseteq (Streams \ DOMAIN batch[b].bufs) \X {f}
    <3> SUFFICES ASSUME NEW i \in others PROVE i \in (Streams \ DOMAIN batch[b].bufs) \X {f}
      OBVIOUS
    <3>1. i = <<i[1], f>> /\ i[1] \in Partials \cup Streams /\ i \in items /\ i \notin metadata
            /\ i \notin filled \X {f}
      BY <1>6, <1>9
    <3>2. i[1] \in Streams
      BY <1>5, <3>1
    <3>3. i[1] \notin filled
      BY <3>1
    <3> QED BY <1>4, <3>1, <3>2, <3>3
  <2> QED BY <1>6, <1>11, <2>1, <2>2, <2>3
<1>14. /\ pc' \in [Threads -> Labels] /\ cur' \in [Threads -> Message] /\ OnlyMoves("result")
       /\ pc'["result"] = (IF others # {} THEN "others"
                           ELSE IF f = batch[b].last THEN "metadata" ELSE "unlock")
       /\ cur'["result"].frame = f /\ cur'["result"].batch = b
       /\ cur'["result"].partial = cur["result"].partial
       /\ cur'["result"].items = others /\ cur'["result"].filled = filled
       /\ pc'["shutter"] = pc["shutter"] /\ cur'["shutter"] = cur["shutter"]
       /\ pc'["error"] = pc["error"] /\ cur'["error"] = cur["error"]
  <2>1. {"others", "metadata", "unlock"} \subseteq Labels /\ "result" \in Threads
    BY DEF Labels, Holding, Threads
  <2>2. /\ pc' \in [Threads -> Labels] /\ \A u \in Threads \ {"result"} : pc'[u] = pc[u]
        /\ pc'["result"] = (IF others # {} THEN "others"
                            ELSE IF f = batch[b].last THEN "metadata" ELSE "unlock")
    BY <1>7, <2>1, Moves
  <2>3. cur["result"] \in Message /\ cur \in [Threads -> Message]
    BY <2>1 DEF Types
  <2>4. /\ cur'["result"] = [cur["result"] EXCEPT !.items = others, !.filled = filled]
        /\ \A u \in Threads \ {"result"} : cur'[u] = cur[u]
    BY <1>7, <2>1, <2>3
  <2>5. others \subseteq Item
    BY <1>11, <1>13
  <2>6. /\ cur'["result"].frame = f /\ cur'["result"].batch = b
        /\ cur'["result"].partial = cur["result"].partial
        /\ cur'["result"].items = others /\ cur'["result"].filled = filled
        /\ cur'["result"] \in Message
    BY <1>1, <1>2, <1>12, <2>3, <2>4, <2>5 DEF Message
  <2>7. cur' \in [Threads -> Message]
    BY <1>7, <2>1, <2>3, <2>4, <2>6
  <2> QED BY <2>2, <2>4, <2>6, <2>7 DEF OnlyMoves, Threads
<1>15. /\ OnlyBatch(b) /\ batch' \in [Frames -> Batch]
       /\ batch'[b].last = batch[b].last /\ batch'[b].removed = batch[b].removed
       /\ batch'[b].shutters = batch[b].shutters /\ batch'[b].shutterDone = batch[b].shutterDone
       /\ batch'[b].bufsDone = batch[b].bufsDone /\ batch'[b].progress = batch[b].progress
       /\ batch'[b].mds = batch[b].mds \cup metadata
       /\ DOMAIN batch'[b].bufs = DOMAIN batch[b].bufs
       /\ \A s \in DOMAIN batch[b].bufs :
            batch'[b].bufs[s] = IF s \in filled THEN Append(batch[b].bufs[s], f) ELSE batch[b].bufs[s]
  <2> DEFINE bufs == [s \in DOMAIN batch[b].bufs |->
                        IF s \in filled THEN Append(batch[b].bufs[s], f) ELSE batch[b].bufs[s]]
  <2>1. batch[b] \in Batch /\ batch \in [Frames -> Batch]
    BY DEF Types
  <2>2. bufs \in UNION {[S -> Seq(Frames)] : S \in SUBSET Streams}
    <3>1. \A s \in DOMAIN batch[b].bufs : bufs[s] \in Seq(Frames)
      BY <1>10, BatchFields
    <3>2. bufs \in [DOMAIN batch[b].bufs -> Seq(Frames)]
      BY <3>1
    <3> QED BY <3>2, BatchFields
  <2>3. batch'[b] = [batch[b] EXCEPT !.mds = @ \cup metadata, !.bufs = bufs]
    BY <1>7, <2>1 DEF Batch
  <2>4. \A a \in Frames \ {b} : batch'[a] = batch[a]
    BY <1>7, <2>1
  <2>5. DOMAIN bufs = DOMAIN batch[b].bufs
          /\ \A s \in DOMAIN batch[b].bufs :
               bufs[s] = IF s \in filled THEN Append(batch[b].bufs[s], f) ELSE batch[b].bufs[s]
    OBVIOUS
  <2> HIDE DEF bufs
  <2>6. /\ batch'[b].last = batch[b].last /\ batch'[b].removed = batch[b].removed
        /\ batch'[b].shutters = batch[b].shutters /\ batch'[b].shutterDone = batch[b].shutterDone
        /\ batch'[b].bufsDone = batch[b].bufsDone /\ batch'[b].progress = batch[b].progress
        /\ batch'[b].mds = batch[b].mds \cup metadata /\ batch'[b].bufs = bufs
    BY <2>1, <2>3 DEF Batch
  <2>7. batch'[b] \in Batch
    BY <1>13, <2>1, <2>2, <2>3 DEF Batch
  <2>8. batch' \in [Frames -> Batch]
    BY <1>7, <2>1, <2>4, <2>7
  <2> QED BY <1>7, <2>4, <2>5, <2>6, <2>8 DEF OnlyBatch
<1>16. /\ SameShape /\ Live' = Live
       /\ \A a \in Frames : FramesOf(a)' = FramesOf(a)
       /\ \A a \in Live : a # b =>
            /\ batch'[a] = batch[a] /\ Waiting(a)' = Waiting(a)
            /\ \A l : DoneLane(l, a)' <=> DoneLane(l, a)
  BY <1>9, <1>15, OthersAlone
<1>17. \A s \in DOMAIN batch[b].bufs :
         /\ Len(batch[b].bufs[s]) \in Nat
         /\ DOMAIN batch[b].bufs[s] = 1..Len(batch[b].bufs[s])
         /\ s \notin filled => batch'[b].bufs[s] = batch[b].bufs[s]
         /\ s \in filled =>
              /\ Len(batch'[b].bufs[s]) = Len(batch[b].bufs[s]) + 1
              /\ DOMAIN batch'[b].bufs[s] = 1..(Len(batch[b].bufs[s]) + 1)
              /\ \A k \in 1..Len(batch[b].bufs[s]) : batch'[b].bufs[s][k] = batch[b].bufs[s][k]
              /\ batch'[b].bufs[s][Len(batch[b].bufs[s]) + 1] = f
  <2> SUFFICES ASSUME NEW s \in DOMAIN batch[b].bufs
               PROVE  /\ Len(batch[b].bufs[s]) \in Nat
                      /\ DOMAIN batch[b].bufs[s] = 1..Len(batch[b].bufs[s])
                      /\ s \notin filled => batch'[b].bufs[s] = batch[b].bufs[s]
                      /\ s \in filled =>
                           /\ Len(batch'[b].bufs[s]) = Len(batch[b].bufs[s]) + 1
                           /\ DOMAIN batch'[b].bufs[s] = 1..(Len(batch[b].bufs[s]) + 1)
                           /\ \A k \in 1..Len(batch[b].bufs[s]) :
                                batch'[b].bufs[s][k] = batch[b].bufs[s][k]
                           /\ batch'[b].bufs[s][Len(batch[b].bufs[s]) + 1] = f
    OBVIOUS
  <2>1. batch[b].bufs[s] \in Seq(Frames)
    BY BatchFields
  <2>2. PICK q \in Seq(Frames) : q = batch[b].bufs[s]
    BY <2>1
  <2>3. batch'[b].bufs[s] = IF s \in filled THEN Append(q, f) ELSE q
    BY <1>15, <2>2
  <2> QED BY <1>10, <2>2, <2>3, Appended
<1>18. HeldBuffers(b)' = HeldBuffers(b) \cup (filled \X {f})
  <2>1. ASSUME NEW i \in Item, i[1] \in DOMAIN batch[b].bufs
        PROVE  i[2] - b + 1 \in DOMAIN batch'[b].bufs[i[1]] <=>
                 \/ i[2] - b + 1 \in DOMAIN batch[b].bufs[i[1]]
                 \/ i[1] \in filled /\ i[2] = f
    <3>1. i[2] \in Nat
      BY Pieces
    <3>2. CASE i[1] \in filled
      <4>1. PICK n \in Nat : n = Len(batch[b].bufs[i[1]])
        BY <1>17, <2>1
      <4>2. f = b + n
        BY <1>12, <3>2, <4>1
      <4>3. DOMAIN batch[b].bufs[i[1]] = 1..n /\ DOMAIN batch'[b].bufs[i[1]] = 1..(n + 1)
        BY <1>17, <2>1, <3>2, <4>1
      <4> QED BY <1>10, <3>1, <3>2, <4>2, <4>3
    <3>3. CASE i[1] \notin filled
      BY <1>17, <2>1, <3>3
    <3> QED BY <3>2, <3>3
  <2>2. \A i \in filled \X {f} : i \in Item /\ i[1] \in DOMAIN batch[b].bufs
    BY <1>11, <1>12
  <2>3. \A i \in Item : i[1] \in filled /\ i[2] = f <=> i \in filled \X {f}
    BY Pieces
  <2> QED BY <1>15, <2>1, <2>2, <2>3 DEF HeldBuffers
<1>19. Waiting(b)' = Waiting(b) \cup metadata \cup (filled \X {f})
  BY <1>15, <1>18 DEF Waiting
<1>20. ResultHand' = others /\ ShutterHand' = ShutterHand
  BY <1>14 DEF ResultHand, ShutterHand
<1>21. \A i \in ShutterHand : i[1] = Shutter /\ i \notin items
  BY <1>9, Constants DEF ShutterHand, Workers, Shutter
<1>22. \A i : Handled(i)' <=> Handled(i)
  BY <1>8 DEF Handled
<1>23. InHand' /\ HeldBack' /\ Placed'
  <2> DEFINE I == {}
  <2>1. Hand = ShutterHand \cup items /\ Hand' = ShutterHand \cup others
    BY <1>11, <1>20 DEF Hand
  <2>2. \A i \in Waiting(b) : i \notin Hand /\ i[2] \in FramesOf(b)
    BY <1>9 DEF HeldBack
  <2>3. /\ Hand' \subseteq Hand /\ Waiting(b)' \cup Hand' = (Waiting(b) \cup Hand) \ I
        /\ I \in SUBSET (Waiting(b) \cup Hand)
    BY <1>13, <1>19, <2>1
  <2>4. Waiting(b)' \cap Hand' = {}
    <3>1. \A i \in metadata : i \notin others
      BY <1>6
    <3>2. \A i \in filled \X {f} : i \notin others
      BY <1>6
    <3>3. \A i \in metadata \cup (filled \X {f}) : i \in items
      BY <1>13
    <3> QED BY <1>13, <1>19, <1>21, <2>1, <2>2, <3>1, <3>2, <3>3
  <2>5. \A i \in Waiting(b)' : i[2] \in FramesOf(b)
    BY <1>9, <1>13, <1>19, <2>2
  <2>6. /\ batch'[b].shutters \subseteq {Shutter} \X Frames
        /\ batch'[b].mds \subseteq Partials \X Frames
    BY <1>9, <1>10, <1>13, <1>15 DEF HeldBack
  <2>7. \A i \in Item : Handled(i)' <=> Handled(i) \/ i \in I
    BY <1>22
  <2> HIDE DEF I
  <2> QED BY <1>8, <1>9, <1>16, <2>3, <2>4, <2>5, <2>6, <2>7, Conserved
<1>24. Types'
  <2>1. pc'["result"] \in {"idle", "single", "queue", "check"} \cup Holding
    BY <1>14 DEF Holding
  <2> QED BY <1>7, <1>8, <1>14, <1>15, <2>1 DEF Types
<1>25. Client' /\ Deque' /\ LanesFull' /\ Errors'
  BY <1>8, <1>14, <1>16, StructureKept DEF clientVars
<1>26. Locks'
  <2>1. pc'["result"] \in Holding /\ pc["result"] \notin Holding
    BY <1>7, <1>14 DEF Holding
  <2>2. \A a \in Frames : batchLock'[a] = IF a = b THEN "result" ELSE batchLock[a]
    BY <1>7 DEF Types
  <2>3. \A a \in Frames : batchLock'[a] = "result" <=> a = b
    BY <2>1, <2>2 DEF Locks
  <2>4. \A a \in Frames : batchLock'[a] = "error" <=> batchLock[a] = "error"
    BY <1>7, <2>2
  <2>5. pc'["error"] = pc["error"] /\ mInflightBatches' = mInflightBatches /\ mLock' = mLock
    BY <1>8, <1>14
  <2> QED BY <1>14, <2>1, <2>3, <2>4, <2>5 DEF Locks
<1>27. Workers'
  <2>1. /\ b \in Live' /\ f \in FramesOf(b)' /\ batch'[b].last = batch[b].last
        /\ DOMAIN batch'[b].bufs = DOMAIN batch[b].bufs
    BY <1>9, <1>15, <1>16
  <2>2. \A s \in filled : Newest(s, f)'
    BY <1>8, <1>11, <1>12 DEF Newest
  <2>3. cur["result"].partial > 0 => Newest(cur["result"].partial, f)'
    BY <1>2, <1>7, <1>8, <1>14 DEF Workers, Newest
  <2>4. \A a \in Live : FramesOf(a)' = FramesOf(a)
    BY <1>16, LiveBatches
  <2>5. /\ pc["shutter"] = "queue" =>
             /\ FramesOf(cur["shutter"].batch)' = FramesOf(cur["shutter"].batch)
             /\ batch'[cur["shutter"].batch].removed = batch[cur["shutter"].batch].removed
    BY <1>14, <1>16 DEF Workers, SameShape
  <2>6. /\ pc'["result"] \in {"others", "metadata", "unlock"}
        /\ pc'["result"] = "metadata" => f = batch[b].last
    BY <1>14
  <2>7. (cur["shutter"].frame \in FramesOf(cur["shutter"].batch))' <=>
          cur["shutter"].frame \in FramesOf(cur["shutter"].batch)' 
    BY <1>14
  <2>8. Workers /\ Live' = Live /\ pc'["shutter"] = pc["shutter"] /\ cur'["shutter"] = cur["shutter"]
    BY <1>14, <1>16
  <2> HIDE DEF IInv
  <2>9. (/\ pc["shutter"] \in {"single", "queue"} =>
              cur["shutter"].items = {<<Shutter, cur["shutter"].frame>>}
         /\ pc["shutter"] = "queue" =>
              /\ cur["shutter"].batch \in Frames
              /\ cur["shutter"].frame \in FramesOf(cur["shutter"].batch)
              /\ cur["shutter"].batch \in Live \/ batch[cur["shutter"].batch].removed
         /\ pc["shutter"] = "single" => \A a \in Live : cur["shutter"].frame \notin FramesOf(a))'
    BY <2>4, <2>5, <2>8 DEF Workers
  <2>10. (/\ cur["result"].batch \in Frames
          /\ cur["result"].frame \in FramesOf(cur["result"].batch)
          /\ cur["result"].batch \in Live
          /\ cur["result"].partial > 0 => Newest(cur["result"].partial, cur["result"].frame)
          /\ pc["result"] = "others" =>
               cur["result"].items \subseteq
                 (Streams \ DOMAIN batch[cur["result"].batch].bufs) \X {cur["result"].frame}
          /\ cur["result"].filled \subseteq DOMAIN batch[cur["result"].batch].bufs
          /\ \A s \in cur["result"].filled : Newest(s, cur["result"].frame)
          /\ pc["result"] = "metadata" => cur["result"].frame = batch[cur["result"].batch].last)'
    BY <1>12, <1>13, <1>14, <2>1, <2>2, <2>3, <2>6
  <2> QED BY <2>6, <2>9, <2>10 DEF Workers
<1>28. Flushed'
  <2>1. pc["error"] \in Flushing =>
          Head(mInflightBatches) # b /\ Head(mInflightBatches) \in Frames
    BY <1>7, LiveBatches DEF Locks
  <2>2. pc["error"] \in Flushing =>
          batch'[Head(mInflightBatches)] = batch[Head(mInflightBatches)]
    BY <1>15, <2>1 DEF OnlyBatch
  <2> QED BY <1>8, <1>14, <2>2 DEF Flushed, Flushing
<1>29. f = batch[b].last => pc'["result"] \in {"others", "metadata"}
  BY <1>14
<1>30. \A l \in Strict, a \in Live : AtLast(l, a)' => AtLast(l, a)
  <2>1. \A a \in Live : batch'[a].last = batch[a].last
    BY <1>16, LiveBatches DEF SameShape
  <2>2. \A s : Carries(s)' => Carries(s)
    BY <1>2, <1>3, <1>7, <1>12, <1>14 DEF Carries
  <2> QED BY <1>2, <1>7, <1>14, <2>1, <2>2 DEF AtLast
<1>31. Positions'
  <2>1. ASSUME NEW a \in Live, a # b, NEW s \in DOMAIN batch[a].bufs
        PROVE  /\ \A k \in DOMAIN batch[a].bufs[s] : batch[a].bufs[s][k] = a + k - 1
               /\ s \notin batch[a].bufsDone =>
                    \A g \in FramesOf(a) : g < a + Len(batch[a].bufs[s]) <=> <<s, g>> \in sent \ others
    <3>1. \A g \in FramesOf(a) : <<s, g>> \notin items
      BY <1>9, <1>10, <2>1
    <3> QED BY <1>11, <1>13, <3>1 DEF Positions
  <2>2. ASSUME NEW s \in DOMAIN batch[b].bufs, s \notin filled
        PROVE  /\ \A k \in DOMAIN batch[b].bufs[s] : batch[b].bufs[s][k] = b + k - 1
               /\ s \notin batch[b].bufsDone =>
                    \A g \in FramesOf(b) : g < b + Len(batch[b].bufs[s]) <=> <<s, g>> \in sent \ others
    <3>1. \A g : <<s, g>> \notin items
      BY <1>4, <1>9, <2>2
    <3> QED BY <1>9, <1>11, <1>13, <3>1 DEF Positions
  <2>3. ASSUME NEW s \in filled
        PROVE  /\ \A k \in DOMAIN batch'[b].bufs[s] : batch'[b].bufs[s][k] = b + k - 1
               /\ \A g \in FramesOf(b) : g < b + Len(batch'[b].bufs[s]) <=> <<s, g>> \in sent \ others
    <3>1. PICK n \in Nat : n = Len(batch[b].bufs[s])
      BY <1>12, <1>17
    <3>2. f = b + n /\ s \in DOMAIN batch[b].bufs /\ s \notin batch[b].bufsDone
      BY <1>12, <3>1
    <3>3. /\ Len(batch'[b].bufs[s]) = n + 1 /\ DOMAIN batch'[b].bufs[s] = 1..(n + 1)
          /\ DOMAIN batch[b].bufs[s] = 1..n
          /\ \A k \in 1..n : batch'[b].bufs[s][k] = batch[b].bufs[s][k]
          /\ batch'[b].bufs[s][n + 1] = f
      BY <1>17, <3>1, <3>2
    <3>4. \A k \in 1..n : batch[b].bufs[s][k] = b + k - 1
      BY <1>9, <3>2, <3>3 DEF Positions
    <3>5. \A g \in FramesOf(b) : g < b + n <=> <<s, g>> \in sent \ items
      BY <1>9, <1>11, <3>1, <3>2 DEF Positions
    <3>6. <<s, f>> \in sent /\ Newest(s, f)
      BY <1>11, <1>12
    <3>7. \A g : <<s, g>> \in items <=> g = f
      BY <1>9, <1>12
    <3>8. \A g : <<s, g>> \notin others
      BY <1>13, <3>2
    <3>9. \A g \in FramesOf(b) : g < b + (n + 1) <=> <<s, g>> \in sent \ others
      <4> SUFFICES ASSUME NEW g \in FramesOf(b)
                   PROVE  g < b + (n + 1) <=> <<s, g>> \in sent
        BY <3>8
      <4>1. g \in Nat
        BY <1>9, Ordered, Constants
      <4>2. CASE g = f
        BY <1>10, <3>2, <3>6, <4>2
      <4>3. CASE g < f
        BY <1>10, <3>2, <3>5, <3>7, <4>1, <4>3
      <4>4. CASE g > f
        <5>1. <<s, g>> \notin sent
          BY <1>10, <3>6, <4>1, <4>4 DEF Newest
        <5> QED BY <1>10, <3>2, <4>1, <4>4, <5>1
      <4> QED BY <1>10, <4>1, <4>2, <4>3, <4>4
    <3>10. \A k \in 1..(n + 1) : batch'[b].bufs[s][k] = b + k - 1
      <4> SUFFICES ASSUME NEW k \in 1..(n + 1) PROVE batch'[b].bufs[s][k] = b + k - 1
        OBVIOUS
      <4>1. CASE k \in 1..n
        BY <3>3, <3>4, <4>1
      <4>2. CASE k = n + 1
        BY <1>10, <3>2, <3>3, <4>2
      <4> QED BY <4>1, <4>2
    <3> QED BY <3>3, <3>9, <3>10
  <2>4. \A a \in Live : FramesOf(a)' = FramesOf(a)
    BY <1>16, LiveBatches
  <2>5. ASSUME NEW a \in Live, NEW s \in DOMAIN batch'[a].bufs
        PROVE  /\ \A k \in DOMAIN batch'[a].bufs[s] : batch'[a].bufs[s][k] = a + k - 1
               /\ s \notin batch'[a].bufsDone =>
                    \A g \in FramesOf(a) : g < a + Len(batch'[a].bufs[s]) <=> <<s, g>> \in sent \ others
    <3>1. CASE a # b
      BY <1>16, <2>1, <2>5, <3>1
    <3>2. CASE a = b /\ s \notin filled
      BY <1>15, <1>17, <2>2, <2>5, <3>2
    <3>3. CASE a = b /\ s \in filled
      BY <2>3, <3>3
    <3> QED BY <3>1, <3>2, <3>3
  <2> QED BY <1>8, <1>16, <1>20, <2>4, <2>5 DEF Positions
<1>32. Delivered'
  <2>1. \A l : DoneLane(l, b)' <=> DoneLane(l, b)
    BY <1>15 DEF DoneLane
  <2>2. batch'[b].progress = NumPartial => batch'[b].mds = {}
    <3> HAVE batch'[b].progress = NumPartial
    <3>1. DoneLane(NumPartial, b) /\ batch[b].mds = {}
      BY <1>9, <1>15 DEF Delivered, DoneLane
    <3>2. <<NumPartial, batch[b].last>> \in sent /\ ~AtLast(NumPartial, b)
      BY <1>7, <1>9, <3>1 DEF Delivered, Strict
    <3>3. ASSUME NEW i \in metadata PROVE FALSE
      <4>1. i = <<i[1], f>> /\ i[1] \in Partials /\ i \in items /\ i \in Hand /\ i[2] = f
              /\ i[1] = cur["result"].partial
        BY <1>9, <1>11, <1>13
      <4>2. <<NumPartial, f>> \in sent
        <5>1. PICK j \in sent : j = <<NumPartial, batch[b].last>>
          BY <3>2
        <5> QED BY <1>9, <1>10, <5>1, NoGap DEF Strict
      <4>3. i[1] = NumPartial
        BY <4>1, <4>2, Constants DEF InHand
      <4>4. f = batch[b].last
        BY <1>10, <1>11, <3>2, <4>1, <4>3 DEF Newest
      <4> QED BY <1>2, <1>7, <3>2, <4>1, <4>3, <4>4 DEF AtLast
    <3> QED BY <1>15, <3>1, <3>3
  <2>3. \A s \in batch'[b].bufsDone : batch'[b].bufs[s] = <<>>
    BY <1>9, <1>12, <1>15 DEF Delivered
  <2>4. /\ batch'[b].bufsDone \subseteq DOMAIN batch'[b].bufs
        /\ batch'[b].shutterDone => batch'[b].shutters = {}
    BY <1>9, <1>15 DEF Delivered
  <2>5. \A a \in Live : \A l \in Strict : batchLock'[a] # "error" /\ DoneLane(l, a)' =>
          <<l, batch[a].last>> \in sent /\ ~AtLast(l, a)'
    <3>1. \A a \in Live : batchLock[a] = "error" => batchLock'[a] = "error"
      BY <1>7, LiveBatches DEF Types
    <3>2. \A a \in Live : \A l \in Strict : DoneLane(l, a)' => DoneLane(l, a)
      BY <1>16, <2>1
    <3> QED BY <1>30, <3>1, <3>2 DEF Delivered
  <2>6. \A a \in Live : batch'[a].last = batch[a].last /\ (a # b => batch'[a] = batch[a])
    BY <1>15, <1>16
  <2> QED BY <1>8, <1>16, <2>2, <2>3, <2>4, <2>5, <2>6 DEF Delivered
<1>33. Emptied'
  <2>1. \A a \in Live : batch'[a].last = batch[a].last
    BY <1>15, <1>16
  <2> SUFFICES ASSUME NEW a \in Live, NEW i \in Waiting(a)', i[1] \in Strict,
                      <<i[1], batch[a].last>> \in sent
               PROVE  AtLast(i[1], a)'
    BY <1>8, <1>16, <2>1 DEF Emptied
  <2>2. CASE i \in Waiting(a)
    <3>1. AtLast(i[1], a)
      BY <2>2 DEF Emptied
    <3>2. CASE i[1] = Shutter
      BY <1>14, <2>1, <3>1, <3>2, Constants DEF AtLast, Shutter
    <3>3. CASE i[1] # Shutter
      <4>1. f = batch[a].last /\ a = b
        BY <1>2, <1>10, <3>1, <3>3, Ordered DEF AtLast
      <4>2. i[1] = NumPartial => cur["result"].partial = NumPartial
        BY <3>1, <3>3, <4>1, Constants DEF AtLast
      <4>3. i[1] \in Streams => i[1] \in filled
        <5> HAVE i[1] \in Streams
        <5>1. i \in HeldBuffers(b)
          BY <2>2, <4>1, LanesHeld
        <5>2. Carries(i[1])
          BY <3>1, <3>3, Constants DEF AtLast
        <5> QED BY <1>2, <1>3, <1>4, <1>7, <5>1, <5>2 DEF Carries, HeldBuffers
      <4>4. i[1] = NumPartial \/ i[1] \in Streams
        BY <3>3 DEF Strict
      <4> QED BY <1>14, <1>29, <2>1, <4>1, <4>2, <4>3, <4>4 DEF AtLast, Carries
    <3> QED BY <3>2, <3>3
  <2>3. CASE i \notin Waiting(a)
    <3>1. a = b /\ (i \in metadata \/ i \in filled \X {f})
      BY <1>16, <1>19, <2>3
    <3>2. i \in items /\ i = <<i[1], f>> /\ Newest(i[1], f)
      BY <1>11, <1>13, <3>1
    <3>3. f = batch[b].last
      BY <1>10, <3>1, <3>2 DEF Newest
    <3>4. CASE i \in metadata
      <4>1. i[1] = NumPartial
        BY <1>13, <3>4, Constants DEF Strict, Shutter
      <4>2. cur["result"].partial = NumPartial
        BY <1>9, <3>2, <4>1, Constants
      <4> QED BY <1>14, <1>29, <2>1, <3>1, <3>3, <4>1, <4>2 DEF AtLast
    <3>5. CASE i \in filled \X {f}
      BY <1>12, <1>14, <1>29, <2>1, <3>1, <3>3, <3>5 DEF AtLast, Carries
    <3> QED BY <3>1, <3>4, <3>5
  <2> QED BY <2>2, <2>3
<1>34. Reconfigured'
  <2>1. ASSUME DOMAIN batch[b].bufs # mStreamsToBatch, NEW s \in filled PROVE FALSE
    <3>1. <<s, batch[b].last>> \in sent /\ Handled(<<s, batch[b].last>>)
      BY <1>9, <1>12, <2>1 DEF Reconfigured
    <3>2. <<s, f>> \in items /\ Newest(s, f) /\ ~Handled(<<s, f>>)
      BY <1>11, <1>12
    <3>3. f = batch[b].last
      BY <1>10, <3>1, <3>2 DEF Newest
    <3> QED BY <3>1, <3>2, <3>3
  <2>2. \A a \in Live : /\ batch'[a].last = batch[a].last /\ DOMAIN batch'[a].bufs = DOMAIN batch[a].bufs
                        /\ a # b => batch'[a] = batch[a]
    BY <1>15, <1>16
  <2>3. DOMAIN batch[b].bufs # mStreamsToBatch =>
          \A s \in DOMAIN batch[b].bufs : batch'[b].bufs[s] = batch[b].bufs[s]
    BY <1>15, <2>1
  <2> QED BY <1>8, <1>16, <1>22, <2>2, <2>3 DEF Reconfigured
<1> QED BY <1>8, <1>23, <1>24, <1>25, <1>26, <1>27, <1>28, <1>31, <1>32, <1>33, <1>34, SMTT(30) DEF Contract!vars

---------------------------------------------------------------------------
(* A batch hands on what it holds of some lanes. *)

\* A batch hands on whole lanes of what it holds back.
LEMMA BatchSends ==
  ASSUME IInv, NEW b \in Live, NEW I \in SUBSET Waiting(b), HandsOn(I),
         UNCHANGED <<mInflightBatches, mStreamsToBatch, sent>>,
         OnlyBatch(b),
         batch'[b].last = batch[b].last, batch'[b].removed = batch[b].removed,
         DOMAIN batch'[b].bufs = DOMAIN batch[b].bufs,
         batch'[b].shutters = batch[b].shutters \ I, batch'[b].mds = batch[b].mds \ I,
         HeldBuffers(b)' = HeldBuffers(b) \ I,
         batch'[b].shutterDone => batch'[b].shutters = {},
         batch'[b].progress = NumPartial => batch'[b].mds = {},
         batch'[b].bufsDone \subseteq DOMAIN batch[b].bufs,
         \A s \in DOMAIN batch[b].bufs :
           IF s \in batch'[b].bufsDone THEN batch'[b].bufs[s] = <<>>
                                       ELSE batch'[b].bufs[s] = batch[b].bufs[s],
         batch[b].bufsDone \subseteq batch'[b].bufsDone,
         \A i \in I : i[1] \in Strict => \A j \in Waiting(b) : j[1] = i[1] => j \in I,
         \A l \in Strict : batchLock'[b] # "error" /\ DoneLane(l, b)' =>
           <<l, batch[b].last>> \in sent /\ ~AtLast(l, b)',
         \A l \in Strict, a \in Live : a # b => (AtLast(l, a)' <=> AtLast(l, a)),
         \A l \in Strict : (\E i \in Waiting(b)' : i[1] = l) /\ AtLast(l, b) => AtLast(l, b)',
         \A a \in Live : a # b => (batchLock'[a] = "error" <=> batchLock[a] = "error"),
         Hand' = Hand, ResultHand' = ResultHand
  PROVE  /\ InHand' /\ HeldBack' /\ Placed' /\ Positions' /\ Delivered' /\ Emptied' /\ Reconfigured'
         /\ [Contract!Next]_(Contract!vars) /\ SameShape
         /\ got' \in [Item -> Nat] /\ lost' \subseteq Item
<1> USE DEF IInv
<1>1. /\ SameShape /\ Live' = Live
      /\ \A a \in Frames : FramesOf(a)' = FramesOf(a)
      /\ \A a \in Live : a # b =>
           /\ batch'[a] = batch[a] /\ Waiting(a)' = Waiting(a)
           /\ \A l : DoneLane(l, a)' <=> DoneLane(l, a)
  BY OthersAlone
<1>2. \A i \in Waiting(b) : i \in sent /\ i \in Item /\ i[2] \in FramesOf(b) /\ ~Handled(i) /\ i \notin Hand
  BY LanesHeld DEF HeldBack
<1>3. Waiting(b)' = Waiting(b) \ I
  BY DEF Waiting
<1>4. /\ [Contract!Next]_(Contract!vars)
      /\ \A i \in Item : Handled(i)' <=> Handled(i) \/ i \in I
      /\ got' \in [Item -> Nat] /\ lost' \subseteq Item
  <2>1. ASSUME NEW i \in I, i[1] \in Strict, NEW a \in Live, i[2] \in FramesOf(a),
               NEW j \in Waiting(a), j[1] = i[1]
        PROVE  j \in I
    <3>1. a = b
      BY <1>2, <2>1, Ordered
    <3> QED BY <2>1, <3>1
  <2>2. I \in SUBSET sent /\ \A i \in I : ~Handled(i)
    BY <1>2
  <2> QED BY <2>1, <2>2, StepOfContract
<1>5. InHand' /\ HeldBack' /\ Placed'
  <2>1. /\ Hand' \subseteq Hand /\ Waiting(b)' \cup Hand' = (Waiting(b) \cup Hand) \ I
        /\ Waiting(b)' \cap Hand' = {}
    BY <1>2, <1>3
  <2>2. \A i \in Waiting(b)' : i[2] \in FramesOf(b)
    BY <1>2, <1>3
  <2>3. batch'[b].shutters \subseteq {Shutter} \X Frames /\ batch'[b].mds \subseteq Partials \X Frames
    BY DEF HeldBack
  <2> QED BY <1>1, <1>4, <2>1, <2>2, <2>3, Conserved, SMTT(30)
<1>6. \A a \in Live : /\ batch'[a].last = batch[a].last /\ DOMAIN batch'[a].bufs = DOMAIN batch[a].bufs
                      /\ FramesOf(a)' = FramesOf(a)
  BY <1>1, LiveBatches
<1>7. Positions'
  <2>1. ASSUME NEW a \in Live, NEW s \in DOMAIN batch'[a].bufs
        PROVE  /\ \A k \in DOMAIN batch'[a].bufs[s] : batch'[a].bufs[s][k] = a + k - 1
               /\ s \notin batch'[a].bufsDone =>
                    \A g \in FramesOf(a) : g < a + Len(batch'[a].bufs[s]) <=> <<s, g>> \in sent \ ResultHand
    <3>1. CASE a # b
      BY <1>1, <2>1, <3>1 DEF Positions
    <3>2. CASE a = b /\ s \in batch'[b].bufsDone
      BY <2>1, <3>2
    <3>3. CASE a = b /\ s \notin batch'[b].bufsDone
      BY <2>1, <3>3 DEF Positions
    <3> QED BY <3>1, <3>2, <3>3
  <2> QED BY <1>1, <1>6, <2>1 DEF Positions
<1>8. Delivered'
  <2>1. \A a \in Live : a # b => \A l \in Strict : batchLock'[a] # "error" /\ DoneLane(l, a)' =>
           <<l, batch[a].last>> \in sent /\ ~AtLast(l, a)'
    BY <1>1 DEF Delivered
  <2>2. \A s \in batch'[b].bufsDone : batch'[b].bufs[s] = <<>>
    OBVIOUS
  <2>3. \A a \in Live : a # b => batch'[a] = batch[a]
    BY <1>1
  <2> QED BY <1>1, <1>6, <2>1, <2>2, <2>3 DEF Delivered
<1>9. Emptied'
  <2> SUFFICES ASSUME NEW a \in Live, NEW i \in Waiting(a)', i[1] \in Strict,
                      <<i[1], batch[a].last>> \in sent
               PROVE  AtLast(i[1], a)'
    BY <1>1, <1>6 DEF Emptied
  <2>1. i \in Waiting(a)
    BY <1>1, <1>3
  <2>2. AtLast(i[1], a)
    BY <2>1 DEF Emptied
  <2> QED BY <2>2
<1>10. Reconfigured'
  <2>1. ASSUME NEW a \in Live, DOMAIN batch[a].bufs # mStreamsToBatch, NEW s \in DOMAIN batch[a].bufs
        PROVE  /\ batch'[a].bufs[s] = <<>> /\ <<s, batch[a].last>> \in sent
               /\ Handled(<<s, batch[a].last>>)'
    <3>1. /\ batch[a].bufs[s] = <<>> /\ <<s, batch[a].last>> \in sent
          /\ Handled(<<s, batch[a].last>>)
      BY <2>1 DEF Reconfigured
    <3>2. Handled(<<s, batch[a].last>>)'
      <4>1. <<s, batch[a].last>> \in Item /\ batch'[a].last = batch[a].last
        BY <1>6, <3>1 DEF Types
      <4>2. \A i \in Item : Handled(i) => Handled(i)'
        BY <1>4
      <4> QED BY <3>1, <4>1, <4>2 DEF Handled
    <3>3. batch'[a].bufs[s] = <<>>
      BY <1>1, <2>1, <3>1
    <3> QED BY <3>1, <3>2, <3>3
  <2> QED BY <1>1, <1>6, <2>1 DEF Reconfigured
<1> QED BY <1>1, <1>4, <1>5, <1>7, <1>8, <1>9, <1>10

\* sendBatchMetadataLocked hands on the metadata up to a partial result.
LEMMA MetadataSent ==
  ASSUME IInv, NEW b \in Live, NEW t \in {"result", "error"}, NEW partial \in Partials,
         partial > batch[b].progress, SendBatchMetadata(t, b, partial),
         mInflightBatches' = mInflightBatches
  PROVE  LET I == MetadataItems(b, partial)
         IN  /\ I \subseteq Waiting(b) /\ HandsOn(I)
             /\ mProcessCaptureResultLock' \in {t, mProcessCaptureResultLock}
             /\ OnlyBatch(b) /\ batch' \in [Frames -> Batch]
             /\ batch'[b].last = batch[b].last /\ batch'[b].removed = batch[b].removed
             /\ batch'[b].bufs = batch[b].bufs /\ batch'[b].bufsDone = batch[b].bufsDone
             /\ batch'[b].shutters = batch[b].shutters \ I
             /\ batch'[b].shutterDone = batch[b].shutterDone
             /\ batch'[b].mds = batch[b].mds \ I /\ batch'[b].progress = partial
             /\ HeldBuffers(b)' = HeldBuffers(b) \ I
             /\ partial = NumPartial => batch'[b].mds = {}
             /\ \A i \in I : i[1] \in Strict => \A j \in Waiting(b) : j[1] = i[1] => j \in I
<1> USE DEF IInv
<1> DEFINE I == MetadataItems(b, partial)
<1>1. b \in Frames /\ batch[b] \in Batch /\ batch \in [Frames -> Batch]
  BY LiveBatches DEF Types
<1>2. /\ batch' = [batch EXCEPT ![b].mds = @ \ I, ![b].progress = partial]
      /\ Invoke(t, I)
  <2>1. ~(partial <= batch[b].progress)
    BY <1>1, BatchFields, Constants
  <2> QED BY <2>1 DEF SendBatchMetadata
<1>3. I \subseteq batch[b].mds /\ \A i \in batch[b].mds : i \in I <=> i[1] <= partial
  BY DEF MetadataItems
<1> HIDE DEF I
<1>4. /\ HandsOn(I) /\ mProcessCaptureResultLock' \in {t, mProcessCaptureResultLock}
  BY <1>2, Callbacks
<1>5. /\ batch'[b].last = batch[b].last /\ batch'[b].removed = batch[b].removed
      /\ batch'[b].bufs = batch[b].bufs /\ batch'[b].bufsDone = batch[b].bufsDone
      /\ batch'[b].shutters = batch[b].shutters /\ batch'[b].shutterDone = batch[b].shutterDone
      /\ batch'[b].mds = batch[b].mds \ I /\ batch'[b].progress = partial
      /\ batch' \in [Frames -> Batch] /\ OnlyBatch(b)
  <2>1. batch'[b] = [batch[b] EXCEPT !.mds = @ \ I, !.progress = partial]
    BY <1>1, <1>2
  <2>2. partial \in 0..NumPartial
    BY Constants
  <2>3. batch'[b] \in Batch
    BY <1>1, <2>1, <2>2 DEF Batch
  <2>4. batch' \in [Frames -> Batch] /\ OnlyBatch(b)
    BY <1>1, <1>2, <2>3 DEF OnlyBatch
  <2> QED BY <1>1, <2>1, <2>4 DEF Batch
<1>6. \A i \in batch[b].mds : i \in Waiting(b) /\ i[1] \in Partials
  BY DEF Waiting, HeldBack
<1>7. batch[b].shutters = batch[b].shutters \ I
  BY <1>3, <1>6, Constants DEF HeldBack, Shutter
<1>8. HeldBuffers(b)' = HeldBuffers(b) \ I
  <2>1. HeldBuffers(b)' = HeldBuffers(b)
    BY <1>5 DEF HeldBuffers
  <2>2. \A i \in HeldBuffers(b) : i[1] \in Streams
    BY <1>1, BatchFields DEF HeldBuffers
  <2> QED BY <1>3, <1>6, <2>1, <2>2, Constants
<1>9. partial = NumPartial => batch'[b].mds = {}
  BY <1>3, <1>5, <1>6, Constants
<1>10. \A i \in I : i[1] \in Strict => \A j \in Waiting(b) : j[1] = i[1] => j \in I
  BY <1>3, <1>6, LanesHeld, Constants
<1> QED BY <1>3, <1>4, <1>5, <1>6, <1>7, <1>8, <1>9, <1>10 DEF I

\* sendBatchBuffersLocked hands on all buffers of the streams.
LEMMA BuffersSent ==
  ASSUME IInv, NEW b \in Live, NEW t \in {"result", "error"}, NEW S \in SUBSET DOMAIN batch[b].bufs,
         SendBatchBuffers(t, b, S), mInflightBatches' = mInflightBatches
  PROVE  LET I == {i \in HeldBuffers(b) : i[1] \in S}
         IN  /\ I \subseteq Waiting(b) /\ HandsOn(I)
             /\ mProcessCaptureResultLock' \in {t, mProcessCaptureResultLock}
             /\ OnlyBatch(b) /\ batch' \in [Frames -> Batch]
             /\ batch'[b].last = batch[b].last /\ batch'[b].removed = batch[b].removed
             /\ DOMAIN batch'[b].bufs = DOMAIN batch[b].bufs
             /\ batch'[b].bufsDone = batch[b].bufsDone \cup S
             /\ batch'[b].shutters = batch[b].shutters \ I
             /\ batch'[b].shutterDone = batch[b].shutterDone
             /\ batch'[b].mds = batch[b].mds \ I /\ batch'[b].progress = batch[b].progress
             /\ HeldBuffers(b)' = HeldBuffers(b) \ I
             /\ \A s \in DOMAIN batch[b].bufs :
                  IF s \in batch[b].bufsDone \cup S THEN batch'[b].bufs[s] = <<>>
                                                    ELSE batch'[b].bufs[s] = batch[b].bufs[s]
             /\ \A i \in I : \A j \in Waiting(b) : j[1] = i[1] => j \in I
<1> USE DEF IInv
<1> DEFINE I == {i \in HeldBuffers(b) : i[1] \in S}
<1>1. b \in Frames /\ b \in Nat /\ batch[b] \in Batch /\ batch \in [Frames -> Batch]
  BY LiveBatches, Constants DEF Types
<1>2. BufferItems(b, S) = I
  <2>1. \A i : i \in BufferItems(b, S) <=>
          \E s \in S \ batch[b].bufsDone : \E k \in DOMAIN batch[b].bufs[s] : i = <<s, b + k - 1>>
    BY DEF BufferItems
  <2>2. \A s \in DOMAIN batch[b].bufs :
          /\ s \in Streams
          /\ DOMAIN batch[b].bufs[s] = 1..Len(batch[b].bufs[s]) /\ Len(batch[b].bufs[s]) \in Nat
          /\ batch[b].bufs[s] \in Seq(Frames)
    BY <1>1, BatchFields
  <2>3. ASSUME NEW i \in BufferItems(b, S) PROVE i \in I
    <3>0. PICK s \in S \ batch[b].bufsDone : \E k \in DOMAIN batch[b].bufs[s] : i = <<s, b + k - 1>>
      BY <2>1, <2>3
    <3>1. PICK k \in DOMAIN batch[b].bufs[s] : i = <<s, b + k - 1>>
      BY <3>0
    <3>2. s \in DOMAIN batch[b].bufs /\ k \in Nat /\ b + k - 1 \in Nat
      BY <1>1, <2>2, <3>1
    <3>3. batch[b].bufs[s][k] = b + k - 1 /\ batch[b].bufs[s][k] \in Frames
      BY <2>2, <3>1, <3>2 DEF Positions
    <3>4. i \in Item /\ i[2] - b + 1 = k
      BY <1>1, <2>2, <3>1, <3>2, <3>3, Pieces
    <3> QED BY <3>1, <3>2, <3>4 DEF HeldBuffers
  <2>4. ASSUME NEW i \in I PROVE i \in BufferItems(b, S)
    <3>1. /\ i \in Item /\ i[1] \in S /\ i[2] - b + 1 \in DOMAIN batch[b].bufs[i[1]]
          /\ i = <<i[1], i[2]>> /\ i[2] \in Nat
      BY Pieces DEF HeldBuffers
    <3>2. i[1] \notin batch[b].bufsDone
      BY <3>1 DEF Delivered
    <3>3. PICK k : k = i[2] - b + 1
      OBVIOUS
    <3>4. i[2] = b + k - 1
      BY <1>1, <3>1, <3>3
    <3> QED BY <2>1, <3>1, <3>2, <3>3, <3>4
  <2> QED BY <2>3, <2>4
<1>3. \A s \in S : I = {} => batch[b].bufs[s] = <<>>
  <2> SUFFICES ASSUME NEW s \in S, batch[b].bufs[s] # <<>> PROVE I # {}
    OBVIOUS
  <2>1. /\ batch[b].bufs[s] \in Seq(Frames) /\ Len(batch[b].bufs[s]) \in Nat /\ s \in Streams
        /\ DOMAIN batch[b].bufs[s] = 1..Len(batch[b].bufs[s])
    BY <1>1, BatchFields
  <2>2. 1 \in DOMAIN batch[b].bufs[s]
    BY <2>1
  <2>3. <<s, b>> \in Item /\ b - b + 1 = 1
    BY <1>1, <2>1, Pieces, Constants
  <2>4. <<s, b>> \in I
    BY <2>2, <2>3 DEF HeldBuffers
  <2> QED BY <2>4
<1>4. I \subseteq HeldBuffers(b) /\ I \subseteq Waiting(b) /\ \A i \in HeldBuffers(b) : i \in I <=> i[1] \in S
  BY DEF Waiting
<1>5. /\ \A i \in HeldBuffers(b) : i[1] \in Streams
      /\ \A i \in batch[b].mds : i[1] \in Partials
      /\ \A i \in batch[b].shutters : i[1] = Shutter
  BY <1>1, BatchFields DEF HeldBuffers, HeldBack
<1>6. PICK bufs : bufs = [s \in DOMAIN batch[b].bufs |->
                            IF I # {} /\ s \in S THEN <<>> ELSE batch[b].bufs[s]]
  OBVIOUS
<1>7. /\ batch' = [batch EXCEPT ![b].bufsDone = @ \cup S, ![b].bufs = bufs]
      /\ IF I = {} THEN UNCHANGED dataVars ELSE Invoke(t, I)
  BY <1>1, <1>2, <1>6 DEF SendBatchBuffers
<1> HIDE DEF I
<1>8. HandsOn(I) /\ mProcessCaptureResultLock' \in {t, mProcessCaptureResultLock}
  <2>1. CASE I = {}
    <3>1. \A i \in Item : got[i] \in Nat
      BY DEF Types
    <3> QED BY <1>7, <2>1, <3>1 DEF HandsOn, dataVars
  <2>2. CASE I # {}
    BY <1>7, <2>2, Callbacks
  <2> QED BY <2>1, <2>2
<1>9. /\ DOMAIN bufs = DOMAIN batch[b].bufs
      /\ \A s \in DOMAIN batch[b].bufs :
           bufs[s] = IF s \in batch[b].bufsDone \cup S THEN <<>> ELSE batch[b].bufs[s]
  BY <1>3, <1>6 DEF Delivered
<1>10. bufs \in UNION {[D -> Seq(Frames)] : D \in SUBSET Streams}
  <2>0. <<>> \in Seq(Frames) /\ \A s \in DOMAIN batch[b].bufs : batch[b].bufs[s] \in Seq(Frames)
    BY <1>1, BatchFields
  <2>1. \A s \in DOMAIN batch[b].bufs : bufs[s] \in Seq(Frames)
    BY <1>9, <2>0
  <2>2. bufs \in [DOMAIN batch[b].bufs -> Seq(Frames)]
    BY <1>6, <1>9, <2>1
  <2> QED BY <1>1, <2>2, BatchFields
<1>11. /\ batch'[b].last = batch[b].last /\ batch'[b].removed = batch[b].removed
       /\ batch'[b].bufs = bufs /\ batch'[b].bufsDone = batch[b].bufsDone \cup S
       /\ batch'[b].shutters = batch[b].shutters /\ batch'[b].shutterDone = batch[b].shutterDone
       /\ batch'[b].mds = batch[b].mds /\ batch'[b].progress = batch[b].progress
       /\ batch' \in [Frames -> Batch] /\ OnlyBatch(b)
  <2>1. batch'[b] = [batch[b] EXCEPT !.bufsDone = @ \cup S, !.bufs = bufs]
    BY <1>1, <1>7
  <2>2. batch[b].bufsDone \cup S \subseteq Streams
    BY <1>1, BatchFields
  <2>3. batch'[b] \in Batch
    BY <1>1, <1>10, <2>1, <2>2 DEF Batch
  <2>4. batch' \in [Frames -> Batch] /\ OnlyBatch(b)
    BY <1>1, <1>7, <2>3 DEF OnlyBatch
  <2> QED BY <1>1, <2>1, <2>4 DEF Batch
<1>12. HeldBuffers(b)' = HeldBuffers(b) \ I
  <2>1. ASSUME NEW i \in Item, i[1] \in DOMAIN batch[b].bufs
        PROVE  i[2] - b + 1 \in DOMAIN bufs[i[1]] <=>
                 i[2] - b + 1 \in DOMAIN batch[b].bufs[i[1]] /\ i[1] \notin S
    <3>1. CASE i[1] \in S
      BY <1>9, <2>1, <3>1
    <3>2. CASE i[1] \in batch[b].bufsDone \ S
      BY <1>9, <2>1, <3>2 DEF Delivered
    <3>3. CASE i[1] \notin batch[b].bufsDone \cup S
      BY <1>9, <2>1, <3>3
    <3> QED BY <3>1, <3>2, <3>3
  <2> QED BY <1>4, <1>9, <1>11, <2>1 DEF HeldBuffers
<1>13. batch[b].shutters = batch[b].shutters \ I /\ batch[b].mds = batch[b].mds \ I
  BY <1>4, <1>5, Constants DEF Shutter
<1>14. \A i \in I : \A j \in Waiting(b) : j[1] = i[1] => j \in I
  BY <1>4, <1>5, LanesHeld
<1> QED BY <1>4, <1>8, <1>9, <1>11, <1>12, <1>13, <1>14 DEF I

\* The results' thread at work on its batch, whose lock it holds.
LEMMA ResultWorks ==
  ASSUME IInv, pc["result"] \in {"metadata", "buffers"},
         NEW label \in {"buffers", "unlock"}, Goto("result", label), cur' = cur,
         UNCHANGED <<clientVars, mInflightBatches, lockVars, mStreamsToBatch, errored, sent>>,
         SameShape, OnlyBatch(cur["result"].batch), batch' \in [Frames -> Batch],
         got' \in [Item -> Nat], lost' \subseteq Item,
         mProcessCaptureResultLock' \in {"result", mProcessCaptureResultLock}
  PROVE  Types' /\ Client' /\ Deque' /\ LanesFull' /\ Errors' /\ Locks' /\ Workers' /\ Flushed'
<1> USE DEF IInv
<1>1. /\ pc' \in [Threads -> Labels] /\ pc'["result"] = label /\ OnlyMoves("result")
      /\ pc'["shutter"] = pc["shutter"] /\ pc'["error"] = pc["error"]
  <2>1. label \in Labels /\ "result" \in Threads
    BY DEF Labels, Holding, Threads
  <2> QED BY <2>1, Moves DEF Threads, OnlyMoves
<1>2. UNCHANGED <<call, burst, nextFrame, submitted, mInflightBatches, mLock, batchLock,
                  mStreamsToBatch, errored, sent, cur>>
  BY DEF clientVars, lockVars
<1>3. Types'
  <2>1. pc'["result"] \in {"idle", "single", "queue", "check"} \cup Holding
    BY <1>1 DEF Holding
  <2> QED BY <1>1, <1>2, <2>1 DEF Types
<1>4. Client' /\ Deque' /\ LanesFull' /\ Errors'
  BY <1>1, <1>2, StructureKept
<1>5. Locks'
  BY <1>1, <1>2 DEF Locks, Holding
<1>6. Live' = Live /\ \A a \in Frames : FramesOf(a)' = FramesOf(a)
  BY ShapeKept
<1>7. Workers'
  <2>1. cur["result"].batch \in Live /\ cur["result"].batch \in Frames
    BY DEF Workers, Holding
  <2>2. \A a \in Frames : batch'[a].last = batch[a].last /\ batch'[a].removed = batch[a].removed
                           /\ DOMAIN batch'[a].bufs = DOMAIN batch[a].bufs
    BY DEF SameShape
  <2>3. \A l, g : Newest(l, g)' <=> Newest(l, g)
    BY <1>2 DEF Newest
  <2>4. \A a \in Live : FramesOf(a)' = FramesOf(a)
    BY <1>6, LiveBatches
  <2>5. pc["shutter"] = "queue" =>
          /\ FramesOf(cur["shutter"].batch)' = FramesOf(cur["shutter"].batch)
          /\ batch'[cur["shutter"].batch].removed = batch[cur["shutter"].batch].removed
    BY <1>2, <1>6, <2>2 DEF Workers
  <2>6. FramesOf(cur["result"].batch)' = FramesOf(cur["result"].batch)
    BY <1>2, <1>6, <2>1
  <2>7. /\ batch'[cur["result"].batch].last = batch[cur["result"].batch].last
        /\ DOMAIN batch'[cur["result"].batch].bufs = DOMAIN batch[cur["result"].batch].bufs
    BY <2>1, <2>2
  <2>8. Workers
    OBVIOUS
  <2> HIDE DEF IInv
  <2> QED BY <1>1, <1>2, <1>6, <2>1, <2>3, <2>4, <2>5, <2>6, <2>7, <2>8 DEF Workers, Holding
<1>8. Flushed'
  <2>1. pc["error"] \in Flushing =>
          /\ Head(mInflightBatches) \in Frames /\ Head(mInflightBatches) # cur["result"].batch
    BY LiveBatches DEF Locks, Holding
  <2>2. pc["error"] \in Flushing =>
          batch'[Head(mInflightBatches)] = batch[Head(mInflightBatches)]
    BY <2>1 DEF OnlyBatch
  <2> QED BY <1>1, <1>2, <2>2 DEF Flushed, Flushing
<1> QED BY <1>3, <1>4, <1>5, <1>7, <1>8

LEMMA SendMetadataStep ==
  ASSUME IInv, SendMetadata
  PROVE  IInv' /\ [Contract!Next]_(Contract!vars)
<1> USE DEF IInv
<1>1. PICK b \in Live : b = cur["result"].batch
  BY DEF SendMetadata, Workers, Holding
<1>2. PICK partial \in 0..NumPartial : partial = cur["result"].partial
  BY DEF Types, Message, Threads
<1>3. /\ pc["result"] = "metadata" /\ Goto("result", "buffers") /\ cur' = cur
      /\ IF partial > 0 THEN SendBatchMetadata("result", b, partial) ELSE UNCHANGED <<batch, dataVars>>
      /\ UNCHANGED <<clientVars, mInflightBatches, lockVars, mStreamsToBatch, errored, sent>>
  BY <1>1, <1>2 DEF SendMetadata
<1>4. /\ mInflightBatches' = mInflightBatches /\ batchLock' = batchLock /\ sent' = sent
      /\ mStreamsToBatch' = mStreamsToBatch
  BY <1>3 DEF lockVars
<1>5. /\ b \in Frames /\ cur["result"].frame = batch[b].last /\ cur["result"].frame \in FramesOf(b)
      /\ batchLock[b] = "result"
      /\ partial > 0 => Newest(partial, batch[b].last)
      /\ \A a \in Live : cur["result"].frame = batch[a].last => a = b
  BY <1>1, <1>2, <1>3, LiveBatches, Ordered DEF Workers, Holding, Locks
<1>6. PICK I : I = IF partial > 0 /\ partial > batch[b].progress THEN MetadataItems(b, partial) ELSE {}
  OBVIOUS
<1>7. batch[b].progress \in 0..NumPartial
  BY <1>5, BatchFields
<1>8. /\ I \subseteq Waiting(b) /\ HandsOn(I)
      /\ mProcessCaptureResultLock' \in {"result", mProcessCaptureResultLock}
      /\ OnlyBatch(b) /\ batch' \in [Frames -> Batch]
      /\ batch'[b].last = batch[b].last /\ batch'[b].removed = batch[b].removed
      /\ batch'[b].bufs = batch[b].bufs /\ batch'[b].bufsDone = batch[b].bufsDone
      /\ batch'[b].shutters = batch[b].shutters \ I
      /\ batch'[b].shutterDone = batch[b].shutterDone
      /\ batch'[b].mds = batch[b].mds \ I
      /\ batch'[b].progress = NumPartial <=> batch[b].progress = NumPartial \/ partial = NumPartial
      /\ HeldBuffers(b)' = HeldBuffers(b) \ I
      /\ partial = NumPartial => batch'[b].mds = {}
      /\ \A i \in I : i[1] \in Strict => \A j \in Waiting(b) : j[1] = i[1] => j \in I
  <2>1. CASE partial > 0 /\ partial > batch[b].progress
    <3>1. partial \in Partials
      BY <2>1, Constants DEF Partials
    <3>2. SendBatchMetadata("result", b, partial)
      BY <1>3, <2>1
    <3>3. I = MetadataItems(b, partial) /\ "result" \in {"result", "error"}
      BY <1>6, <2>1
    <3>4. batch[b].progress # NumPartial
      BY <1>7, <2>1, Constants
    <3>5. LET J == MetadataItems(b, partial)
          IN  /\ J \subseteq Waiting(b) /\ HandsOn(J)
              /\ mProcessCaptureResultLock' \in {"result", mProcessCaptureResultLock}
              /\ OnlyBatch(b) /\ batch' \in [Frames -> Batch]
              /\ batch'[b].last = batch[b].last /\ batch'[b].removed = batch[b].removed
              /\ batch'[b].bufs = batch[b].bufs /\ batch'[b].bufsDone = batch[b].bufsDone
              /\ batch'[b].shutters = batch[b].shutters \ J
              /\ batch'[b].shutterDone = batch[b].shutterDone
              /\ batch'[b].mds = batch[b].mds \ J /\ batch'[b].progress = partial
              /\ HeldBuffers(b)' = HeldBuffers(b) \ J
              /\ partial = NumPartial => batch'[b].mds = {}
              /\ \A i \in J : i[1] \in Strict => \A j \in Waiting(b) : j[1] = i[1] => j \in J
      BY <1>4, <2>1, <3>1, <3>2, MetadataSent
    <3> QED BY <3>3, <3>4, <3>5
  <2>2. CASE ~(partial > 0 /\ partial > batch[b].progress)
    <3>1. UNCHANGED <<batch, got, lost, mProcessCaptureResultLock>> /\ I = {}
      BY <1>3, <1>6, <1>7, <2>2, Constants DEF SendBatchMetadata, dataVars
    <3>2. HandsOn(I)
      <4>1. \A i \in Item : got[i] \in Nat
        BY DEF Types
      <4> QED BY <3>1, <4>1 DEF HandsOn
    <3>3. OnlyBatch(b) /\ batch' \in [Frames -> Batch] /\ HeldBuffers(b)' = HeldBuffers(b)
      BY <1>4, <3>1 DEF OnlyBatch, Types, HeldBuffers
    <3>4. partial = NumPartial => batch[b].progress = NumPartial
      BY <1>7, <2>2, Constants
    <3>5. batch[b].progress = NumPartial => batch[b].mds = {}
      BY DEF Delivered
    <3> QED BY <3>1, <3>2, <3>3, <3>4, <3>5
  <2> QED BY <2>1, <2>2
<1>9. /\ pc'["result"] = "buffers" /\ pc'["shutter"] = pc["shutter"]
  <2>1. "buffers" \in Labels /\ "result" \in Threads
    BY DEF Labels, Flushing, Threads
  <2> QED BY <1>3, <2>1, Moves DEF Threads
<1>10. Hand' = Hand /\ ResultHand' = ResultHand
  BY <1>3, <1>9 DEF Hand, ShutterHand, ResultHand
<1>11. /\ \A l, a : l # NumPartial /\ a \in Live => (AtLast(l, a)' <=> AtLast(l, a))
       /\ ~AtLast(NumPartial, b)'
       /\ \A a \in Live : a # b => (AtLast(NumPartial, a)' <=> AtLast(NumPartial, a))
  <2>1. \A a \in Live : batch'[a].last = batch[a].last
    BY <1>5, <1>8, LiveBatches DEF OnlyBatch
  <2> QED BY <1>3, <1>5, <1>9, <2>1, Constants DEF AtLast, Carries, Shutter
<1>12. \A l \in Strict : DoneLane(l, b)' => <<l, batch[b].last>> \in sent /\ ~AtLast(l, b)'
  <2>1. CASE batch'[b].progress = NumPartial
    <3>1. <<NumPartial, batch[b].last>> \in sent
      <4>1. CASE batch[b].progress = NumPartial
        BY <1>5, <4>1 DEF Delivered, DoneLane, Strict
      <4>2. CASE partial = NumPartial
        BY <1>5, <4>2, Constants DEF Newest
      <4> QED BY <1>8, <2>1, <4>1, <4>2
    <3>2. \A l \in Strict : l # NumPartial => (DoneLane(l, b)' <=> DoneLane(l, b))
      BY <1>8 DEF DoneLane
    <3> QED BY <1>5, <1>11, <3>1, <3>2 DEF Delivered
  <2>2. CASE batch'[b].progress # NumPartial
    <3>1. \A l \in Strict : DoneLane(l, b)' => DoneLane(l, b) /\ l # NumPartial
      <4>1. batch[b].bufsDone \subseteq Streams
        BY <1>5, BatchFields
      <4> QED BY <1>8, <2>2, <4>1, Constants DEF DoneLane, Shutter
    <3> QED BY <1>5, <1>11, <3>1 DEF Delivered
  <2> QED BY <2>1, <2>2
<1>13. ASSUME NEW l \in Strict, NEW i \in Waiting(b)', i[1] = l, AtLast(l, b)
       PROVE  AtLast(l, b)'
  <2>1. CASE l # NumPartial
    BY <1>11, <1>13, <2>1
  <2>2. CASE l = NumPartial
    <3>1. partial = NumPartial
      BY <1>2, <1>13, <2>2, Constants DEF AtLast, Shutter
    <3>2. i \in Waiting(b) /\ i \notin I
      BY <1>8, <1>13 DEF Waiting
    <3>3. i \in batch[b].mds
      BY <1>13, <2>2, <3>2, LanesHeld, Constants
    <3> QED BY <1>8, <3>1, <3>2, <3>3
  <2> QED BY <2>1, <2>2
<1>14. batch'[b].shutterDone => batch'[b].shutters = {}
  BY <1>8 DEF Delivered
<1>15. batch'[b].progress = NumPartial => batch'[b].mds = {}
  BY <1>8 DEF Delivered
<1>16. /\ batch'[b].bufsDone \subseteq DOMAIN batch[b].bufs
       /\ \A s \in DOMAIN batch[b].bufs :
            IF s \in batch'[b].bufsDone THEN batch'[b].bufs[s] = <<>>
                                        ELSE batch'[b].bufs[s] = batch[b].bufs[s]
  BY <1>8 DEF Delivered
<1>17. /\ InHand' /\ HeldBack' /\ Placed' /\ Positions' /\ Delivered' /\ Emptied' /\ Reconfigured'
       /\ [Contract!Next]_(Contract!vars) /\ SameShape
       /\ got' \in [Item -> Nat] /\ lost' \subseteq Item
  BY <1>4, <1>8, <1>10, <1>11, <1>12, <1>13, <1>14, <1>15, <1>16, BatchSends
<1>18. Types' /\ Client' /\ Deque' /\ LanesFull' /\ Errors' /\ Locks' /\ Workers' /\ Flushed'
  BY <1>1, <1>3, <1>8, <1>17, ResultWorks
<1> QED BY <1>17, <1>18

LEMMA SendBuffersStep ==
  ASSUME IInv, SendBuffers
  PROVE  IInv' /\ [Contract!Next]_(Contract!vars)
<1> USE DEF IInv
<1>1. PICK b \in Live : b = cur["result"].batch
  BY DEF SendBuffers, Workers, Holding
<1>2. PICK S : S = cur["result"].filled
  OBVIOUS
<1>3. /\ pc["result"] = "buffers" /\ Goto("result", "unlock") /\ cur' = cur
      /\ IF S # {} THEN SendBatchBuffers("result", b, S) ELSE UNCHANGED <<batch, dataVars>>
      /\ UNCHANGED <<clientVars, mInflightBatches, lockVars, mStreamsToBatch, errored, sent>>
  BY <1>1, <1>2 DEF SendBuffers
<1>4. /\ mInflightBatches' = mInflightBatches /\ batchLock' = batchLock /\ sent' = sent
      /\ mStreamsToBatch' = mStreamsToBatch
  BY <1>3 DEF lockVars
<1>5. /\ b \in Frames /\ cur["result"].frame = batch[b].last /\ cur["result"].frame \in FramesOf(b)
      /\ batchLock[b] = "result"
      /\ S \subseteq DOMAIN batch[b].bufs /\ S \subseteq Streams
      /\ \A s \in S : <<s, batch[b].last>> \in sent
      /\ \A a \in Live : cur["result"].frame = batch[a].last => a = b
  <2>1. b \in Frames /\ DOMAIN batch[b].bufs \subseteq Streams
    BY LiveBatches, BatchFields
  <2> QED BY <1>1, <1>2, <1>3, <2>1, Ordered DEF Workers, Holding, Locks, Newest
<1>6. PICK I : I = {i \in HeldBuffers(b) : i[1] \in S}
  OBVIOUS
<1>7. /\ I \subseteq Waiting(b) /\ HandsOn(I)
      /\ mProcessCaptureResultLock' \in {"result", mProcessCaptureResultLock}
      /\ OnlyBatch(b) /\ batch' \in [Frames -> Batch]
      /\ batch'[b].last = batch[b].last /\ batch'[b].removed = batch[b].removed
      /\ DOMAIN batch'[b].bufs = DOMAIN batch[b].bufs
      /\ batch'[b].bufsDone = batch[b].bufsDone \cup S
      /\ batch'[b].shutters = batch[b].shutters \ I
      /\ batch'[b].shutterDone = batch[b].shutterDone
      /\ batch'[b].mds = batch[b].mds \ I /\ batch'[b].progress = batch[b].progress
      /\ HeldBuffers(b)' = HeldBuffers(b) \ I
      /\ \A s \in DOMAIN batch[b].bufs :
           IF s \in batch[b].bufsDone \cup S THEN batch'[b].bufs[s] = <<>>
                                             ELSE batch'[b].bufs[s] = batch[b].bufs[s]
      /\ \A i \in I : \A j \in Waiting(b) : j[1] = i[1] => j \in I
  <2>1. CASE S # {}
    <3>1. SendBatchBuffers("result", b, S) /\ S \in SUBSET DOMAIN batch[b].bufs
      BY <1>3, <1>5, <2>1
    <3>2. LET J == {i \in HeldBuffers(b) : i[1] \in S}
          IN  /\ J \subseteq Waiting(b) /\ HandsOn(J)
              /\ mProcessCaptureResultLock' \in {"result", mProcessCaptureResultLock}
              /\ OnlyBatch(b) /\ batch' \in [Frames -> Batch]
              /\ batch'[b].last = batch[b].last /\ batch'[b].removed = batch[b].removed
              /\ DOMAIN batch'[b].bufs = DOMAIN batch[b].bufs
              /\ batch'[b].bufsDone = batch[b].bufsDone \cup S
              /\ batch'[b].shutters = batch[b].shutters \ J
              /\ batch'[b].shutterDone = batch[b].shutterDone
              /\ batch'[b].mds = batch[b].mds \ J /\ batch'[b].progress = batch[b].progress
              /\ HeldBuffers(b)' = HeldBuffers(b) \ J
              /\ \A s \in DOMAIN batch[b].bufs :
                   IF s \in batch[b].bufsDone \cup S THEN batch'[b].bufs[s] = <<>>
                                                     ELSE batch'[b].bufs[s] = batch[b].bufs[s]
              /\ \A i \in J : \A j \in Waiting(b) : j[1] = i[1] => j \in J
      BY <1>4, <3>1, BuffersSent
    <3> QED BY <1>6, <3>2
  <2>2. CASE S = {}
    <3>1. UNCHANGED <<batch, got, lost, mProcessCaptureResultLock>> /\ I = {}
      BY <1>3, <1>6, <2>2 DEF dataVars
    <3>2. HandsOn(I)
      <4>1. \A i \in Item : got[i] \in Nat
        BY DEF Types
      <4> QED BY <3>1, <4>1 DEF HandsOn
    <3>3. OnlyBatch(b) /\ batch' \in [Frames -> Batch] /\ HeldBuffers(b)' = HeldBuffers(b)
      BY <1>4, <3>1 DEF OnlyBatch, Types, HeldBuffers
    <3>4. \A s \in DOMAIN batch[b].bufs : s \in batch[b].bufsDone => batch[b].bufs[s] = <<>>
      BY DEF Delivered
    <3> QED BY <2>2, <3>1, <3>2, <3>3, <3>4
  <2> QED BY <2>1, <2>2
<1>8. /\ pc'["result"] = "unlock" /\ pc'["shutter"] = pc["shutter"]
  <2>1. "unlock" \in Labels /\ "result" \in Threads
    BY DEF Labels, Holding, Threads
  <2> QED BY <1>3, <2>1, Moves DEF Threads
<1>9. Hand' = Hand /\ ResultHand' = ResultHand
  BY <1>3, <1>8 DEF Hand, ShutterHand, ResultHand
<1>10. /\ \A l \in Strict, a \in Live : a # b => (AtLast(l, a)' <=> AtLast(l, a))
       /\ \A l : AtLast(l, b) => AtLast(l, b)' \/ l \in S
       /\ \A l : AtLast(l, b)' => AtLast(l, b) /\ l = Shutter
  <2>1. \A a \in Live : batch'[a].last = batch[a].last
    BY <1>5, <1>7, LiveBatches DEF OnlyBatch
  <2> QED BY <1>2, <1>3, <1>5, <1>8, <2>1 DEF AtLast, Carries
<1>11. \A l \in Strict : DoneLane(l, b)' => <<l, batch[b].last>> \in sent /\ ~AtLast(l, b)'
  <2>1. \A l \in Strict : DoneLane(l, b)' => DoneLane(l, b) \/ l \in S
    BY <1>7 DEF DoneLane
  <2>2. Shutter \notin S
    BY <1>5, Constants DEF Shutter
  <2> QED BY <1>5, <1>10, <2>1, <2>2 DEF Delivered
<1>12. \A l \in Strict : (\E i \in Waiting(b)' : i[1] = l) /\ AtLast(l, b) => AtLast(l, b)'
  <2>1. SUFFICES ASSUME NEW l \in S, NEW i \in Waiting(b)', i[1] = l PROVE FALSE
    BY <1>10
  <2>2. i \in Waiting(b) /\ i \notin I
    BY <1>7, <2>1 DEF Waiting
  <2>3. i \in HeldBuffers(b)
    BY <1>5, <2>1, <2>2, LanesHeld
  <2> QED BY <1>6, <2>1, <2>2, <2>3
<1>13. batch'[b].shutterDone => batch'[b].shutters = {}
  BY <1>7 DEF Delivered
<1>14. batch'[b].progress = NumPartial => batch'[b].mds = {}
  BY <1>7 DEF Delivered
<1>15. /\ batch'[b].bufsDone \subseteq DOMAIN batch[b].bufs
       /\ \A s \in DOMAIN batch[b].bufs :
            IF s \in batch'[b].bufsDone THEN batch'[b].bufs[s] = <<>>
                                        ELSE batch'[b].bufs[s] = batch[b].bufs[s]
       /\ batch[b].bufsDone \subseteq batch'[b].bufsDone
  BY <1>5, <1>7 DEF Delivered
<1>16. \A i \in I : i[1] \in Strict => \A j \in Waiting(b) : j[1] = i[1] => j \in I
  BY <1>7
<1>17. /\ InHand' /\ HeldBack' /\ Placed' /\ Positions' /\ Delivered' /\ Emptied' /\ Reconfigured'
       /\ [Contract!Next]_(Contract!vars) /\ SameShape
       /\ got' \in [Item -> Nat] /\ lost' \subseteq Item
  BY <1>4, <1>7, <1>9, <1>10, <1>11, <1>12, <1>13, <1>14, <1>15, <1>16, BatchSends, SMTT(30)
<1>18. Types' /\ Client' /\ Deque' /\ LanesFull' /\ Errors' /\ Locks' /\ Workers' /\ Flushed'
  BY <1>1, <1>3, <1>7, <1>17, ResultWorks
<1> QED BY <1>17, <1>18

\* The errors' thread at work on the first batch, whose lock and mLock it holds.
LEMMA ErrorWorks ==
  ASSUME IInv, pc["error"] \in {"first", "buffers", "metadata"}, mInflightBatches # <<>>,
         NEW label \in Flushing, Goto("error", label), cur' = cur,
         UNCHANGED <<clientVars, mInflightBatches, mLock, mStreamsToBatch, errored, sent>>,
         batchLock' = [batchLock EXCEPT ![Head(mInflightBatches)] = "error"],
         batchLock[Head(mInflightBatches)] \in {"free", "error"},
         SameShape, OnlyBatch(Head(mInflightBatches)), batch' \in [Frames -> Batch],
         got' \in [Item -> Nat], lost' \subseteq Item,
         mProcessCaptureResultLock' \in {"error", mProcessCaptureResultLock}
  PROVE  Types' /\ Client' /\ Deque' /\ LanesFull' /\ Errors' /\ Locks' /\ Workers'
<1> USE DEF IInv
<1>1. /\ pc' \in [Threads -> Labels] /\ pc'["error"] = label
      /\ pc'["shutter"] = pc["shutter"] /\ pc'["result"] = pc["result"]
  <2>1. label \in Labels /\ "error" \in Threads
    BY DEF Labels, Threads
  <2> QED BY <2>1, Moves DEF Threads
<1>2. UNCHANGED <<call, burst, nextFrame, submitted, mInflightBatches, mLock,
                  mStreamsToBatch, errored, sent, cur>>
  BY DEF clientVars
<1>3. PICK b \in Live : b = Head(mInflightBatches)
  BY LiveBatches
<1>4. /\ b \in Frames /\ \A a \in Frames : a # b => batchLock'[a] = batchLock[a]
      /\ batchLock'[b] = "error" /\ batchLock' \in [Frames -> {"free", "result", "error"}]
  BY <1>3, LiveBatches DEF Types
<1>5. Types'
  <2>1. pc'["error"] \in {"idle", "single", "lock", "first", "crashed"} \cup Flushing
    BY <1>1
  <2> QED BY <1>1, <1>2, <1>4, <2>1 DEF Types
<1>6. Live' = Live /\ \A a \in Frames : FramesOf(a)' = FramesOf(a)
  BY ShapeKept
<1>7. Client'
  BY <1>2 DEF Client
<1>8. Deque'
  <2>1. \A a \in Frames : Settled(a)' <=> Settled(a)
    BY <1>2 DEF Settled, SameShape
  <2>2. \A k \in DOMAIN mInflightBatches : mInflightBatches[k] \in Frames
    BY LiveBatches DEF Live
  <2> QED BY <1>2, <1>6, <2>1, <2>2, LiveBatches DEF Deque, SameShape
<1>9. Excused' = Excused
  BY <1>2 DEF Excused
<1>10. LanesFull'
  BY <1>2, <1>9 DEF LanesFull
<1>11. Errors'
  <2>1. \A k \in DOMAIN mInflightBatches : mInflightBatches[k] \in Frames
    BY LiveBatches DEF Live
  <2>2. pc'["error"] \in {"lock", "first"} \cup Flushing /\ pc["error"] \in {"lock", "first"} \cup Flushing
        /\ pc["error"] \notin {"idle", "single"} /\ pc'["error"] \notin {"idle", "single"}
    BY <1>1 DEF Flushing
  <2> QED BY <1>2, <1>6, <1>9, <2>1, <2>2, LiveBatches DEF Errors
<1>12. Locks'
  <2>1. /\ pc'["error"] \in Flushing /\ mLock = "error"
        /\ pc["result"] \in Holding => cur["result"].batch # b
    BY <1>1, <1>3, <1>4 DEF Locks, Flushing
  <2>2. \A a \in Frames : a # b => ~(pc["error"] \in Flushing /\ Head(mInflightBatches) = a)
    BY <1>3
  <2> QED BY <1>1, <1>2, <1>3, <1>4, <2>1, <2>2 DEF Locks
<1>13. Workers'
  <2>1. pc["result"] \in Holding => cur["result"].batch # b
    BY <1>3, <1>4 DEF Locks
  <2>2. \A a \in Frames : batch'[a].last = batch[a].last /\ batch'[a].removed = batch[a].removed
                           /\ DOMAIN batch'[a].bufs = DOMAIN batch[a].bufs
    BY DEF SameShape
  <2>3. \A l, g : Newest(l, g)' <=> Newest(l, g)
    BY <1>2 DEF Newest
  <2>4. \A a \in Live : FramesOf(a)' = FramesOf(a)
    BY <1>6, LiveBatches
  <2>5. pc["shutter"] = "queue" =>
          /\ FramesOf(cur["shutter"].batch)' = FramesOf(cur["shutter"].batch)
          /\ batch'[cur["shutter"].batch].removed = batch[cur["shutter"].batch].removed
    BY <1>2, <1>6, <2>2 DEF Workers
  <2>6. pc["result"] \in {"queue"} \cup (Holding \ {"leave"}) =>
          /\ FramesOf(cur["result"].batch)' = FramesOf(cur["result"].batch)
          /\ batch'[cur["result"].batch].last = batch[cur["result"].batch].last
          /\ batch'[cur["result"].batch].removed = batch[cur["result"].batch].removed
          /\ DOMAIN batch'[cur["result"].batch].bufs = DOMAIN batch[cur["result"].batch].bufs
    BY <1>2, <1>6, <2>2 DEF Workers
  <2>7. Workers
    OBVIOUS
  <2> HIDE DEF IInv
  <2> QED BY <1>1, <1>2, <1>6, <2>3, <2>4, <2>5, <2>6, <2>7 DEF Workers, Holding
<1> QED BY <1>5, <1>7, <1>8, <1>10, <1>11, <1>12, <1>13

\* What it sends from the first batch leaves the rest of the invariant as it is.
LEMMA FlushSends ==
  ASSUME IInv, pc["error"] \in {"first", "buffers", "metadata"}, mInflightBatches # <<>>,
         NEW label \in Flushing, Goto("error", label), cur' = cur,
         UNCHANGED <<clientVars, mInflightBatches, mLock, mStreamsToBatch, errored, sent>>,
         NEW b \in Live, b = Head(mInflightBatches),
         batchLock' = [batchLock EXCEPT ![b] = "error"], batchLock[b] \in {"free", "error"},
         NEW I \in SUBSET Waiting(b), HandsOn(I),
         mProcessCaptureResultLock' \in {"error", mProcessCaptureResultLock},
         OnlyBatch(b), batch' \in [Frames -> Batch],
         batch'[b].last = batch[b].last, batch'[b].removed = batch[b].removed,
         DOMAIN batch'[b].bufs = DOMAIN batch[b].bufs,
         batch'[b].shutters = batch[b].shutters \ I, batch'[b].mds = batch[b].mds \ I,
         HeldBuffers(b)' = HeldBuffers(b) \ I,
         batch'[b].shutterDone => batch'[b].shutters = {},
         batch'[b].progress = NumPartial => batch'[b].mds = {},
         batch'[b].bufsDone \subseteq DOMAIN batch[b].bufs,
         \A s \in DOMAIN batch[b].bufs :
           IF s \in batch'[b].bufsDone THEN batch'[b].bufs[s] = <<>>
                                       ELSE batch'[b].bufs[s] = batch[b].bufs[s],
         batch[b].bufsDone \subseteq batch'[b].bufsDone,
         \A i \in I : i[1] \in Strict => \A j \in Waiting(b) : j[1] = i[1] => j \in I,
         Flushed'
  PROVE  IInv' /\ [Contract!Next]_(Contract!vars)
<1>1. /\ pc'["shutter"] = pc["shutter"] /\ pc'["result"] = pc["result"]
  <2>1. label \in Labels
    BY DEF Labels
  <2> QED BY <2>1, Moves DEF Threads, IInv
<1>2. b \in Frames /\ batchLock' \in [Frames -> {"free", "result", "error"}] /\ batchLock'[b] = "error"
      /\ \A a \in Frames : a # b => batchLock'[a] = batchLock[a]
  BY LiveBatches DEF IInv, Types
<1>3. Hand' = Hand /\ ResultHand' = ResultHand
  BY <1>1 DEF Hand, ShutterHand, ResultHand
<1>4. \A l, a : a \in Live => (AtLast(l, a)' <=> AtLast(l, a))
  <2>1. \A a \in Live : batch'[a].last = batch[a].last
    BY LiveBatches DEF IInv, OnlyBatch
  <2> QED BY <1>1, <2>1 DEF AtLast, Carries
<1>5. \A l \in Strict : batchLock'[b] # "error" /\ DoneLane(l, b)' =>
        <<l, batch[b].last>> \in sent /\ ~AtLast(l, b)'
  BY <1>2
<1>6. \A l \in Strict, a \in Live : a # b => (AtLast(l, a)' <=> AtLast(l, a))
  BY <1>4
<1>7. \A l \in Strict : (\E i \in Waiting(b)' : i[1] = l) /\ AtLast(l, b) => AtLast(l, b)'
  BY <1>4
<1>8. \A a \in Live : a # b => (batchLock'[a] = "error" <=> batchLock[a] = "error")
  BY <1>2, LiveBatches DEF IInv
<1>9. /\ InHand' /\ HeldBack' /\ Placed' /\ Positions' /\ Delivered' /\ Emptied' /\ Reconfigured'
      /\ [Contract!Next]_(Contract!vars) /\ SameShape
      /\ got' \in [Item -> Nat] /\ lost' \subseteq Item
  BY <1>3, <1>5, <1>6, <1>7, <1>8, BatchSends
<1>10. Types' /\ Client' /\ Deque' /\ LanesFull' /\ Errors' /\ Locks' /\ Workers'
  BY <1>9, ErrorWorks
<1> QED BY <1>9, <1>10 DEF IInv

LEMMA FlushShuttersStep ==
  ASSUME IInv, FlushShutters
  PROVE  IInv' /\ [Contract!Next]_(Contract!vars)
<1> USE DEF IInv
<1>1. PICK b \in Live : b = Head(mInflightBatches)
  BY LiveBatches DEF FlushShutters
<1>2. /\ pc["error"] = "first" /\ mInflightBatches # <<>>
      /\ batchLock[b] = "free" /\ batchLock' = [batchLock EXCEPT ![b] = "error"]
      /\ batch' = [batch EXCEPT ![b].shutters = IF batch[b].shutterDone THEN @ ELSE {},
                                ![b].shutterDone = TRUE]
      /\ IF batch[b].shutterDone THEN UNCHANGED dataVars ELSE Notify(batch[b].shutters)
      /\ Goto("error", "buffers")
      /\ cur' = cur
      /\ UNCHANGED <<clientVars, mInflightBatches, mLock, mStreamsToBatch, errored, sent>>
  BY <1>1 DEF FlushShutters
<1>3. PICK I : I = batch[b].shutters
  OBVIOUS
<1>4. b \in Frames /\ batch[b] \in Batch
  BY LiveBatches, BatchFields
<1>5. batch[b].shutterDone => I = {}
  BY <1>3 DEF Delivered
<1>6. /\ batch' \in [Frames -> Batch] /\ OnlyBatch(b)
      /\ batch'[b] = [batch[b] EXCEPT !.shutters = {}, !.shutterDone = TRUE]
  <2>1. batch' = [batch EXCEPT ![b] = [batch[b] EXCEPT !.shutters = {}, !.shutterDone = TRUE]]
    <3>1. CASE batch[b].shutterDone
      <4>1. batch[b].shutters = {}
        BY <1>3, <1>5, <3>1
      <4> QED BY <1>2, <1>4, <3>1, <4>1 DEF Types
    <3>2. CASE ~batch[b].shutterDone
      BY <1>2, <1>4, <3>2 DEF Types
    <3> QED BY <3>1, <3>2
  <2>2. [batch[b] EXCEPT !.shutters = {}, !.shutterDone = TRUE] \in Batch
    BY <1>4 DEF Batch
  <2> QED BY <1>2, <1>4, <2>1, <2>2, ZenonT(60) DEF Types, OnlyBatch
<1>7. /\ batch'[b].last = batch[b].last /\ batch'[b].removed = batch[b].removed
      /\ batch'[b].bufs = batch[b].bufs /\ batch'[b].bufsDone = batch[b].bufsDone
      /\ batch'[b].mds = batch[b].mds /\ batch'[b].progress = batch[b].progress
      /\ batch'[b].shutters = {} /\ batch'[b].shutterDone
  BY <1>4, <1>6 DEF Batch
<1>8. I \subseteq Waiting(b) /\ I \cap batch[b].mds = {} /\ I \cap HeldBuffers(b) = {}
      /\ \A i \in I : \A j \in Waiting(b) : j[1] = i[1] => j \in I
  <2>1. I \subseteq Waiting(b)
    BY <1>3 DEF Waiting
  <2>2. batch[b].mds \subseteq Waiting(b) /\ HeldBuffers(b) \subseteq Waiting(b)
    BY DEF Waiting
  <2>3. \A i \in I : i[1] = Shutter
    BY <1>3, <2>1, LanesHeld
  <2> QED BY <1>3, <2>1, <2>2, <2>3, LanesHeld, Constants DEF Shutter
<1>9. HeldBuffers(b)' = HeldBuffers(b)
  BY <1>7 DEF HeldBuffers
<1>10. HandsOn(I) /\ mProcessCaptureResultLock' = mProcessCaptureResultLock
  <2>1. CASE batch[b].shutterDone
    <3>1. \A i \in Item : got[i] \in Nat
      BY DEF Types
    <3> QED BY <1>2, <1>5, <2>1, <3>1 DEF HandsOn, dataVars
  <2>2. CASE ~batch[b].shutterDone
    BY <1>2, <1>3, <2>2, Callbacks
  <2> QED BY <2>1, <2>2
<1>11. Flushed'
  <2>1. pc'["error"] = "buffers"
    BY <1>2 DEF Types, Goto, Threads
  <2> QED BY <1>1, <1>2, <1>7, <2>1 DEF Flushed
<1>12. /\ batch[b].bufsDone \subseteq DOMAIN batch[b].bufs
       /\ \A s \in batch[b].bufsDone : batch[b].bufs[s] = <<>>
       /\ batch[b].progress = NumPartial => batch[b].mds = {}
  BY DEF Delivered
<1>13. "buffers" \in Flushing
  BY DEF Flushing
<1>14. /\ I \in SUBSET Waiting(b)
       /\ batch'[b].shutters = batch[b].shutters \ I /\ batch'[b].mds = batch[b].mds \ I
       /\ HeldBuffers(b)' = HeldBuffers(b) \ I
       /\ \A i \in I : i[1] \in Strict => \A j \in Waiting(b) : j[1] = i[1] => j \in I
  BY <1>3, <1>7, <1>8, <1>9
<1>15. /\ batch'[b].shutterDone => batch'[b].shutters = {}
       /\ batch'[b].progress = NumPartial => batch'[b].mds = {}
       /\ DOMAIN batch'[b].bufs = DOMAIN batch[b].bufs
       /\ batch'[b].bufsDone \subseteq DOMAIN batch[b].bufs
       /\ batch[b].bufsDone \subseteq batch'[b].bufsDone
       /\ \A s \in DOMAIN batch[b].bufs :
            IF s \in batch'[b].bufsDone THEN batch'[b].bufs[s] = <<>>
                                        ELSE batch'[b].bufs[s] = batch[b].bufs[s]
  BY <1>7, <1>12
<1> HIDE DEF IInv
<1> QED BY <1>1, <1>2, <1>6, <1>7, <1>10, <1>11, <1>13, <1>14, <1>15, FlushSends, Zenon

LEMMA FlushBuffersStep ==
  ASSUME IInv, FlushBuffers
  PROVE  IInv' /\ [Contract!Next]_(Contract!vars)
<1> USE DEF IInv
<1>1. pc["error"] = "buffers" /\ mInflightBatches # <<>>
  BY DEF FlushBuffers, Locks, Flushing
<1>2. PICK b \in Live : b = Head(mInflightBatches)
  BY <1>1, LiveBatches
<1>3. PICK S : S = mStreamsToBatch
  OBVIOUS
<1>4. /\ SendBatchBuffers("error", b, S) /\ Goto("error", "metadata") /\ cur' = cur
      /\ UNCHANGED <<clientVars, mInflightBatches, lockVars, mStreamsToBatch, errored, sent>>
  BY <1>2, <1>3 DEF FlushBuffers
<1>5. UNCHANGED <<mInflightBatches, mLock, batchLock, mStreamsToBatch, sent>>
  BY <1>4 DEF lockVars
<1>6. /\ b \in Frames /\ batchLock[b] = "error" /\ batchLock' = [batchLock EXCEPT ![b] = "error"]
  BY <1>1, <1>2, <1>5, LiveBatches DEF Locks, Flushing, Types
<1>7. batch[b].shutterDone
  BY <1>1, <1>2 DEF Flushed, Flushing
<1>8. /\ batch[b].bufsDone \subseteq DOMAIN batch[b].bufs
      /\ \A s \in batch[b].bufsDone : batch[b].bufs[s] = <<>>
      /\ batch[b].progress = NumPartial => batch[b].mds = {}
      /\ batch[b].shutterDone => batch[b].shutters = {}
  BY DEF Delivered
<1>9. pc'["error"] = "metadata" /\ "metadata" \in Flushing
  BY <1>4 DEF Types, Goto, Threads, Flushing
<1>10. S # DOMAIN batch[b].bufs => \A s \in DOMAIN batch[b].bufs : batch[b].bufs[s] = <<>>
  BY <1>3 DEF Reconfigured
<1>11. CASE S \subseteq DOMAIN batch[b].bufs
  <2>1. S \in SUBSET DOMAIN batch[b].bufs
    BY <1>11
  <2>2. PICK I : I = {i \in HeldBuffers(b) : i[1] \in S}
    OBVIOUS
  <2>3. LET J == {i \in HeldBuffers(b) : i[1] \in S}
        IN  /\ J \subseteq Waiting(b) /\ HandsOn(J)
            /\ mProcessCaptureResultLock' \in {"error", mProcessCaptureResultLock}
            /\ OnlyBatch(b) /\ batch' \in [Frames -> Batch]
            /\ batch'[b].last = batch[b].last /\ batch'[b].removed = batch[b].removed
            /\ DOMAIN batch'[b].bufs = DOMAIN batch[b].bufs
            /\ batch'[b].bufsDone = batch[b].bufsDone \cup S
            /\ batch'[b].shutters = batch[b].shutters \ J
            /\ batch'[b].shutterDone = batch[b].shutterDone
            /\ batch'[b].mds = batch[b].mds \ J /\ batch'[b].progress = batch[b].progress
            /\ HeldBuffers(b)' = HeldBuffers(b) \ J
            /\ \A s \in DOMAIN batch[b].bufs :
                 IF s \in batch[b].bufsDone \cup S THEN batch'[b].bufs[s] = <<>>
                                                   ELSE batch'[b].bufs[s] = batch[b].bufs[s]
            /\ \A i \in J : \A j \in Waiting(b) : j[1] = i[1] => j \in J
    BY <1>4, <1>5, <2>1, BuffersSent
  <2>4. /\ I \subseteq Waiting(b) /\ HandsOn(I)
        /\ mProcessCaptureResultLock' \in {"error", mProcessCaptureResultLock}
        /\ OnlyBatch(b) /\ batch' \in [Frames -> Batch]
        /\ batch'[b].last = batch[b].last /\ batch'[b].removed = batch[b].removed
        /\ DOMAIN batch'[b].bufs = DOMAIN batch[b].bufs
        /\ batch'[b].bufsDone = batch[b].bufsDone \cup S
        /\ batch'[b].shutters = batch[b].shutters \ I
        /\ batch'[b].shutterDone = batch[b].shutterDone
        /\ batch'[b].mds = batch[b].mds \ I /\ batch'[b].progress = batch[b].progress
        /\ HeldBuffers(b)' = HeldBuffers(b) \ I
        /\ \A s \in DOMAIN batch[b].bufs :
             IF s \in batch[b].bufsDone \cup S THEN batch'[b].bufs[s] = <<>>
                                               ELSE batch'[b].bufs[s] = batch[b].bufs[s]
        /\ \A i \in I : \A j \in Waiting(b) : j[1] = i[1] => j \in I
    BY <2>2, <2>3
  <2>5. \A s \in DOMAIN batch[b].bufs : batch'[b].bufs[s] = <<>>
    BY <1>10, <2>4
  <2>6. Flushed'
    BY <1>2, <1>5, <1>7, <1>9, <2>4, <2>5 DEF Flushed
  <2>7. \A s \in DOMAIN batch[b].bufs :
           IF s \in batch'[b].bufsDone THEN batch'[b].bufs[s] = <<>>
                                       ELSE batch'[b].bufs[s] = batch[b].bufs[s]
    BY <2>4
  <2>8. /\ batch'[b].shutterDone => batch'[b].shutters = {}
        /\ batch'[b].progress = NumPartial => batch'[b].mds = {}
        /\ batch'[b].bufsDone \subseteq DOMAIN batch[b].bufs
        /\ batch[b].bufsDone \subseteq batch'[b].bufsDone
        /\ I \in SUBSET Waiting(b)
    BY <1>8, <2>1, <2>4
  <2>9. \A i \in I : i[1] \in Strict => \A j \in Waiting(b) : j[1] = i[1] => j \in I
    BY <2>4
  <2> HIDE DEF IInv
  <2> QED BY <1>1, <1>2, <1>4, <1>5, <1>6, <1>9, <2>4, <2>6, <2>7, <2>8, <2>9, FlushSends
<1>12. CASE ~(S \subseteq DOMAIN batch[b].bufs)
  <2>1. UNCHANGED <<batch, got, lost, mProcessCaptureResultLock>>
    BY <1>4, <1>12 DEF SendBatchBuffers, dataVars
  <2>2. PICK I : I = {}
    OBVIOUS
  <2>3. HandsOn(I)
    <3>1. \A i \in Item : got[i] \in Nat
      BY DEF Types
    <3> QED BY <2>1, <2>2, <3>1 DEF HandsOn
  <2>4. OnlyBatch(b) /\ batch' \in [Frames -> Batch] /\ HeldBuffers(b)' = HeldBuffers(b)
    BY <1>5, <2>1 DEF OnlyBatch, Types, HeldBuffers
  <2>5. \A s \in DOMAIN batch[b].bufs : batch[b].bufs[s] = <<>>
    BY <1>10, <1>12
  <2>6. Flushed'
    BY <1>2, <1>5, <1>7, <1>9, <2>1, <2>5 DEF Flushed
  <2> HIDE DEF IInv
  <2> QED BY <1>1, <1>2, <1>4, <1>5, <1>6, <1>7, <1>8, <1>9, <2>1, <2>2, <2>3, <2>4, <2>6, FlushSends
<1> QED BY <1>11, <1>12

LEMMA FlushMetadataStep ==
  ASSUME IInv, FlushMetadata
  PROVE  IInv' /\ [Contract!Next]_(Contract!vars)
<1> USE DEF IInv
<1>1. pc["error"] = "metadata" /\ mInflightBatches # <<>>
  BY DEF FlushMetadata, Locks, Flushing
<1>2. PICK b \in Live : b = Head(mInflightBatches)
  BY <1>1, LiveBatches
<1>3. /\ SendBatchMetadata("error", b, NumPartial) /\ Goto("error", "pop") /\ cur' = cur
      /\ UNCHANGED <<clientVars, mInflightBatches, lockVars, mStreamsToBatch, errored, sent>>
  BY <1>2 DEF FlushMetadata
<1>4. UNCHANGED <<mInflightBatches, mLock, batchLock, mStreamsToBatch, sent>>
  BY <1>3 DEF lockVars
<1>5. /\ b \in Frames /\ batchLock[b] = "error" /\ batchLock' = [batchLock EXCEPT ![b] = "error"]
  BY <1>1, <1>2, <1>4, LiveBatches DEF Locks, Flushing, Types
<1>6. batch[b].shutterDone /\ \A s \in DOMAIN batch[b].bufs : batch[b].bufs[s] = <<>>
  BY <1>1, <1>2 DEF Flushed, Flushing
<1>7. /\ batch[b].bufsDone \subseteq DOMAIN batch[b].bufs
      /\ batch[b].progress = NumPartial => batch[b].mds = {}
      /\ batch[b].shutterDone => batch[b].shutters = {}
      /\ batch[b].progress \in 0..NumPartial
  BY <1>5, BatchFields DEF Delivered
<1>8. pc'["error"] = "pop" /\ "pop" \in Flushing
  BY <1>3 DEF Types, Goto, Threads, Flushing
<1>9. CASE NumPartial > batch[b].progress
  <2>1. PICK I : I = MetadataItems(b, NumPartial)
    OBVIOUS
  <2>2. LET J == MetadataItems(b, NumPartial)
        IN  /\ J \subseteq Waiting(b) /\ HandsOn(J)
            /\ mProcessCaptureResultLock' \in {"error", mProcessCaptureResultLock}
            /\ OnlyBatch(b) /\ batch' \in [Frames -> Batch]
            /\ batch'[b].last = batch[b].last /\ batch'[b].removed = batch[b].removed
            /\ batch'[b].bufs = batch[b].bufs /\ batch'[b].bufsDone = batch[b].bufsDone
            /\ batch'[b].shutters = batch[b].shutters \ J
            /\ batch'[b].shutterDone = batch[b].shutterDone
            /\ batch'[b].mds = batch[b].mds \ J /\ batch'[b].progress = NumPartial
            /\ HeldBuffers(b)' = HeldBuffers(b) \ J
            /\ NumPartial = NumPartial => batch'[b].mds = {}
            /\ \A i \in J : i[1] \in Strict => \A j \in Waiting(b) : j[1] = i[1] => j \in J
    <3>1. NumPartial \in Partials /\ "error" \in {"result", "error"}
      BY Constants
    <3> QED BY <1>3, <1>4, <1>9, <3>1, MetadataSent
  <2>3. /\ I \subseteq Waiting(b) /\ HandsOn(I)
        /\ mProcessCaptureResultLock' \in {"error", mProcessCaptureResultLock}
        /\ OnlyBatch(b) /\ batch' \in [Frames -> Batch]
        /\ batch'[b].last = batch[b].last /\ batch'[b].removed = batch[b].removed
        /\ batch'[b].bufs = batch[b].bufs /\ batch'[b].bufsDone = batch[b].bufsDone
        /\ batch'[b].shutters = batch[b].shutters \ I
        /\ batch'[b].shutterDone = batch[b].shutterDone
        /\ batch'[b].mds = batch[b].mds \ I /\ batch'[b].progress = NumPartial
        /\ HeldBuffers(b)' = HeldBuffers(b) \ I
        /\ batch'[b].mds = {}
        /\ \A i \in I : i[1] \in Strict => \A j \in Waiting(b) : j[1] = i[1] => j \in I
    BY <2>1, <2>2
  <2>4. Flushed'
    BY <1>2, <1>4, <1>6, <1>8, <2>3 DEF Flushed
  <2>5. \A s \in DOMAIN batch[b].bufs :
           IF s \in batch'[b].bufsDone THEN batch'[b].bufs[s] = <<>>
                                       ELSE batch'[b].bufs[s] = batch[b].bufs[s]
    BY <1>6, <2>3
  <2>6. batch'[b].shutterDone => batch'[b].shutters = {}
    BY <1>7, <2>3
  <2> HIDE DEF IInv
  <2> QED BY <1>1, <1>2, <1>3, <1>4, <1>5, <1>7, <1>8, <2>3, <2>4, <2>5, <2>6, FlushSends
<1>10. CASE ~(NumPartial > batch[b].progress)
  <2>1. UNCHANGED <<batch, got, lost, mProcessCaptureResultLock>> /\ batch[b].progress = NumPartial
    BY <1>3, <1>7, <1>10, Constants DEF SendBatchMetadata, dataVars
  <2>2. PICK I : I = {}
    OBVIOUS
  <2>3. HandsOn(I)
    <3>1. \A i \in Item : got[i] \in Nat
      BY DEF Types
    <3> QED BY <2>1, <2>2, <3>1 DEF HandsOn
  <2>4. OnlyBatch(b) /\ batch' \in [Frames -> Batch] /\ HeldBuffers(b)' = HeldBuffers(b)
    BY <1>4, <2>1 DEF OnlyBatch, Types, HeldBuffers
  <2>5. Flushed'
    BY <1>2, <1>4, <1>6, <1>8, <2>1 DEF Flushed
  <2> HIDE DEF IInv
  <2> QED BY <1>1, <1>2, <1>3, <1>4, <1>5, <1>6, <1>7, <1>8, <2>1, <2>2, <2>3, <2>4, <2>5, FlushSends
<1> QED BY <1>9, <1>10

---------------------------------------------------------------------------
(* The first batch leaves the deque. *)

\* The deque without its first batch.
LEMMA HeadGone ==
  ASSUME Types, Deque, mInflightBatches # <<>>, mInflightBatches' = Tail(mInflightBatches),
         NEW h, h = Head(mInflightBatches)
  PROVE  /\ h \in Live /\ h \in Frames
         /\ mInflightBatches' \in Seq(Frames)
         /\ \A k \in DOMAIN mInflightBatches' :
              /\ k \in Nat /\ k >= 1 /\ k + 1 \in DOMAIN mInflightBatches
              /\ mInflightBatches'[k] = mInflightBatches[k + 1]
         /\ Live' = Live \ {h}
<1>1. mInflightBatches \in Seq(Frames)
  BY DEF Types
<1>2. PICK n \in Nat : n = Len(mInflightBatches) /\ n >= 1 /\ DOMAIN mInflightBatches = 1..n
  BY <1>1
<1>3. /\ mInflightBatches' \in Seq(Frames) /\ Len(mInflightBatches') = n - 1
      /\ DOMAIN mInflightBatches' = 1..(n - 1)
      /\ \A k \in 1..(n - 1) : mInflightBatches'[k] = mInflightBatches[k + 1]
  BY <1>1, <1>2
<1>4. h \in Live /\ h \in Frames /\ h = mInflightBatches[1] /\ 1 \in DOMAIN mInflightBatches
  BY <1>1, <1>2, LiveBatches
<1>5. \A k \in 1..(n - 1) : k + 1 \in 1..n /\ k \in Nat /\ k >= 1 /\ k + 1 # 1
  BY <1>2
<1>6. Live' = {mInflightBatches'[k] : k \in 1..(n - 1)}
  BY <1>3 DEF Live
<1>7. \A b : b \in Live' => b \in Live \ {h}
  <2>1. TAKE b
  <2>2. HAVE b \in Live'
  <2>3. PICK k \in 1..(n - 1) : b = mInflightBatches[k + 1]
    BY <1>3, <1>6, <2>2
  <2>4. k + 1 \in DOMAIN mInflightBatches /\ k + 1 # 1
    BY <1>2, <1>5
  <2> QED BY <1>4, <2>3, <2>4, LiveBatches, Ordered
<1>8. \A b : b \in Live \ {h} => b \in Live'
  <2>1. TAKE b
  <2>2. HAVE b \in Live \ {h}
  <2>3. PICK k \in DOMAIN mInflightBatches : b = mInflightBatches[k]
    BY <2>2, LiveBatches
  <2>4. k # 1 /\ k \in 1..n
    BY <1>2, <1>4, <2>2, <2>3
  <2>5. k - 1 \in 1..(n - 1) /\ (k - 1) + 1 = k
    BY <1>2, <2>4
  <2> QED BY <1>3, <1>6, <2>3, <2>5
<1> QED BY <1>2, <1>3, <1>4, <1>5, <1>7, <1>8

\* The first batch may leave the deque once it holds nothing back.
LEMMA HeadLeaves ==
  ASSUME IInv, mInflightBatches # <<>>, NEW h, h = Head(mInflightBatches), Waiting(h) = {},
         batch' = [batch EXCEPT ![h].removed = TRUE],
         mInflightBatches' = Tail(mInflightBatches),
         UNCHANGED <<clientVars, dataVars, mStreamsToBatch, errored, sent>>,
         mLock' \in {"free", "error"}, batchLock' \in [Frames -> {"free", "result", "error"}],
         \A b \in Frames : b # h => batchLock'[b] = batchLock[b],
         pc["result"] \in Holding => cur["result"].batch # h,
         NEW t \in Threads, OnlyMoves(t), pc' \in [Threads -> Labels], cur' \in [Threads -> Message],
         pc[t] \in {"check", "pop"}, pc'[t] = "idle" \/ (pc'[t] = "first" /\ t = "error"),
         pc'["error"] \notin Flushing, Excused \subseteq Excused', Errors', Locks'
  PROVE  IInv' /\ [Contract!Next]_(Contract!vars)
<1> USE DEF IInv
<1>1. UNCHANGED <<call, burst, nextFrame, submitted, got, lost, mProcessCaptureResultLock,
                  mStreamsToBatch, errored, sent>>
  BY DEF clientVars, dataVars
<1>2. /\ h \in Live /\ h \in Frames
      /\ mInflightBatches' \in Seq(Frames)
      /\ \A k \in DOMAIN mInflightBatches' :
           /\ k \in Nat /\ k >= 1 /\ k + 1 \in DOMAIN mInflightBatches
           /\ mInflightBatches'[k] = mInflightBatches[k + 1]
      /\ Live' = Live \ {h}
  BY HeadGone
<1>3. Live \subseteq Frames
  BY LiveBatches
<1>4. /\ batch' \in [Frames -> Batch]
      /\ \A a \in Frames : a # h => batch'[a] = batch[a]
      /\ batch'[h] = [batch[h] EXCEPT !.removed = TRUE]
  <2>1. batch[h] \in Batch
    BY <1>2, BatchFields
  <2>2. [batch[h] EXCEPT !.removed = TRUE] \in Batch
    BY <2>1 DEF Batch
  <2> QED BY <1>2, <2>2 DEF Types
<1>5. batch'[h].removed /\ batch'[h].last = batch[h].last /\ DOMAIN batch'[h].bufs = DOMAIN batch[h].bufs
  <2>1. batch[h] \in Batch
    BY <1>2, BatchFields
  <2> QED BY <1>4, <2>1 DEF Batch
<1>6. \A a \in Frames : batch'[a].last = batch[a].last /\ FramesOf(a)' = FramesOf(a)
  BY <1>4, <1>5 DEF FramesOf
<1>7. /\ pc["shutter"] # "check" => pc'["shutter"] = pc["shutter"] /\ cur'["shutter"] = cur["shutter"]
      /\ pc["shutter"] = "check" => pc'["shutter"] \in {"idle", "check"}
      /\ pc["result"] # "check" => pc'["result"] = pc["result"] /\ cur'["result"] = cur["result"]
      /\ pc["result"] = "check" => pc'["result"] \in {"idle", "check"}
  BY DEF OnlyMoves, Threads, Types, Holding
<1>8. Hand' = Hand /\ ResultHand' = ResultHand
  BY <1>7 DEF Hand, ShutterHand, ResultHand
<1>9. \A l : \A a \in Live : AtLast(l, a)' <=> AtLast(l, a)
  <2>1. \A a \in Live : batch'[a].last = batch[a].last
    BY <1>3, <1>6
  <2> QED BY <1>7, <2>1 DEF AtLast, Carries
<1>10. Types'
  <2>1. /\ pc'["shutter"] \in {"idle", "single", "queue", "check"}
        /\ pc'["result"] \in {"idle", "single", "queue", "check"} \cup Holding
    BY <1>7 DEF Types
  <2>2. pc'["error"] \in {"idle", "single", "lock", "first", "crashed"} \cup Flushing
    BY DEF Types, OnlyMoves, Threads
  <2> QED BY <1>1, <1>2, <1>4, <2>1, <2>2 DEF Types
<1>11. Client'
  BY <1>1 DEF Client
<1>12. \A a \in Frames : Settled(a)' <=> Settled(a)
  BY <1>1, <1>6 DEF Settled
<1>13. Deque'
  <2>1. \A b \in Live' : ~batch'[b].removed /\ Settled(b)' /\ FramesOf(b)' \subseteq submitted'
    BY <1>1, <1>2, <1>3, <1>4, <1>6, <1>12 DEF Deque
  <2>2. \A j, k \in DOMAIN mInflightBatches' :
          j < k => batch'[mInflightBatches'[j]].last < mInflightBatches'[k]
    <3>1. TAKE j, k \in DOMAIN mInflightBatches'
    <3>2. HAVE j < k
    <3>3. /\ j + 1 \in DOMAIN mInflightBatches /\ k + 1 \in DOMAIN mInflightBatches
          /\ j + 1 < k + 1
          /\ mInflightBatches'[j] = mInflightBatches[j + 1]
          /\ mInflightBatches'[k] = mInflightBatches[k + 1]
      BY <1>2, <3>2
    <3>4. mInflightBatches[j + 1] \in Frames
      BY <1>3, <3>3, LiveBatches
    <3> QED BY <1>6, <3>3, <3>4 DEF Deque
  <2>3. \A b \in Frames : batch'[b].removed =>
          Settled(b)' /\ \A a \in Live' : batch'[b].last < a
    <3>1. TAKE b \in Frames
    <3>2. CASE b = h
      <4>1. Settled(h)' /\ \A a \in Live' : batch[h].last < a
        BY <1>2, <1>3, <1>12, Ordered DEF Deque
      <4> QED BY <1>5, <3>2, <4>1
    <3>3. CASE b # h
      BY <1>2, <1>4, <1>12, <3>3 DEF Deque
    <3> QED BY <3>2, <3>3
  <2>4. \A b \in Live' : (~batch[b].removed)' /\ (FramesOf(b) \subseteq submitted)' /\ Settled(b)'
    BY <2>1
  <2> QED BY <2>1, <2>2, <2>3 DEF Deque
<1>14. LanesFull'
  BY <1>1 DEF LanesFull
<1>15. Flushed'
  BY DEF Flushed
<1>16. \A b \in Live' : /\ b \in Live /\ b \in Frames /\ b # h /\ batch'[b] = batch[b]
                        /\ Waiting(b)' = Waiting(b) /\ FramesOf(b)' = FramesOf(b)
  <2>1. TAKE b \in Live'
  <2>2. b \in Live /\ b \in Frames /\ b # h /\ batch'[b] = batch[b]
    BY <1>2, <1>3, <1>4
  <2> QED BY <1>6, <2>2 DEF Waiting, HeldBuffers
<1>17. Workers'
  <2>1. \A l, g : Newest(l, g)' <=> Newest(l, g)
    BY <1>1 DEF Newest
  <2>2. pc'["shutter"] = "queue" =>
          /\ pc["shutter"] = "queue" /\ cur'["shutter"] = cur["shutter"]
          /\ FramesOf(cur["shutter"].batch)' = FramesOf(cur["shutter"].batch)
          /\ cur["shutter"].batch \in Live' \/ batch'[cur["shutter"].batch].removed
    BY <1>2, <1>4, <1>5, <1>6, <1>7 DEF Workers
  <2>3. pc'["shutter"] = "single" => pc["shutter"] = "single" /\ cur'["shutter"] = cur["shutter"]
    BY <1>7
  <2>4. pc'["result"] \in {"single", "queue"} \cup Holding =>
          pc'["result"] = pc["result"] /\ cur'["result"] = cur["result"]
    BY <1>7 DEF Holding
  <2>5. pc'["result"] \in Holding \ {"leave"} =>
          /\ cur["result"].batch \in Live' /\ batch'[cur["result"].batch] = batch[cur["result"].batch]
          /\ FramesOf(cur["result"].batch)' = FramesOf(cur["result"].batch)
    BY <1>2, <1>4, <1>6, <2>4 DEF Workers, Holding
  <2>6. pc'["result"] = "queue" =>
          /\ FramesOf(cur["result"].batch)' = FramesOf(cur["result"].batch)
          /\ cur["result"].batch \in Live' \/ batch'[cur["result"].batch].removed
    BY <1>2, <1>4, <1>5, <1>6, <2>4 DEF Workers
  <2>7. Workers
    OBVIOUS
  <2> HIDE DEF IInv
  <2>8. /\ pc'["shutter"] \in {"single", "queue"} =>
             cur'["shutter"].items = {<<Shutter, cur'["shutter"].frame>>}
        /\ pc'["shutter"] = "queue" =>
             /\ cur'["shutter"].batch \in Frames
             /\ cur'["shutter"].frame \in FramesOf(cur["shutter"].batch)'
             /\ cur'["shutter"].batch \in Live' \/ batch'[cur'["shutter"].batch].removed
        /\ pc'["shutter"] = "single" => \A b \in Live' : cur'["shutter"].frame \notin FramesOf(b)'
    BY <1>16, <2>2, <2>3, <2>7 DEF Workers
  <2>9. pc'["result"] \in {"single", "queue"} =>
          /\ cur'["result"].items # {}
          /\ cur'["result"].items \subseteq (Partials \cup Streams) \X {cur'["result"].frame}
          /\ \A p \in Partials :
               <<p, cur'["result"].frame>> \in cur'["result"].items <=> p = cur'["result"].partial
    BY <2>4, <2>7 DEF Workers
  <2>10. pc'["result"] \in {"queue"} \cup (Holding \ {"leave"}) =>
           /\ cur'["result"].batch \in Frames
           /\ cur'["result"].frame \in FramesOf(cur["result"].batch)'
           /\ cur'["result"].batch \in Live'
                \/ (pc'["result"] = "queue" /\ batch'[cur'["result"].batch].removed)
           /\ cur'["result"].partial > 0 => Newest(cur["result"].partial, cur["result"].frame)'
    BY <2>1, <2>4, <2>5, <2>6, <2>7 DEF Workers
  <2>11. pc'["result"] = "others" =>
           cur'["result"].items \subseteq
             (Streams \ DOMAIN batch'[cur'["result"].batch].bufs) \X {cur'["result"].frame}
    BY <2>4, <2>5, <2>7 DEF Workers, Holding
  <2>12. pc'["result"] \in {"others", "metadata", "buffers"} =>
           /\ cur'["result"].filled \subseteq DOMAIN batch'[cur'["result"].batch].bufs
           /\ \A s \in cur'["result"].filled : Newest(s, cur["result"].frame)'
    BY <2>1, <2>4, <2>5, <2>7 DEF Workers, Holding
  <2>13. /\ pc'["result"] \in {"metadata", "buffers"} =>
              cur'["result"].frame = batch'[cur'["result"].batch].last
         /\ pc'["result"] = "leave" => cur'["result"].batch \in Frames
         /\ pc'["result"] = "single" => \A b \in Live' : cur'["result"].frame \notin FramesOf(b)'
    BY <1>16, <2>4, <2>5, <2>7 DEF Workers, Holding
  <2> QED BY <2>8, <2>9, <2>10, <2>11, <2>12, <2>13 DEF Workers
<1>18. InHand'
  BY <1>1, <1>8 DEF InHand, Handled, Newest
<1>19. HeldBack'
  BY <1>1, <1>8, <1>16 DEF HeldBack, Handled
<1>20. Positions'
  BY <1>1, <1>8, <1>16 DEF Positions
<1>21. Delivered'
  <2>1. \A b \in Live', l \in Strict :
          (DoneLane(l, b)' <=> DoneLane(l, b)) /\ (AtLast(l, b)' <=> AtLast(l, b))
    BY <1>9, <1>16 DEF DoneLane
  <2>2. \A b \in Live' : batchLock'[b] = batchLock[b]
    BY <1>16
  <2> QED BY <1>1, <1>16, <2>1, <2>2 DEF Delivered
<1>22. Emptied'
  BY <1>1, <1>9, <1>16 DEF Emptied
<1>23. Placed'
  BY <1>1, <1>2, <1>8, <1>16 DEF Placed, Handled
<1>24. Reconfigured'
  BY <1>1, <1>16 DEF Reconfigured, Handled
<1>25. [Contract!Next]_(Contract!vars)
  BY <1>1 DEF Contract!vars
<1> QED BY <1>10, <1>11, <1>13, <1>14, <1>15, <1>17, <1>18, <1>19, <1>20, <1>21, <1>22, <1>23, <1>24, <1>25

\* A batch all of whose lanes are through holds nothing back.
LEMMA NothingWaits ==
  ASSUME IInv, NEW b \in Live, batch[b].shutterDone, batch[b].progress = NumPartial,
         \A s \in DOMAIN batch[b].bufs : batch[b].bufs[s] = <<>>
  PROVE  Waiting(b) = {}
<1>1. batch[b].shutters = {} /\ batch[b].mds = {}
  BY DEF IInv, Delivered
<1>2. HeldBuffers(b) = {}
  BY DEF HeldBuffers
<1> QED BY <1>1, <1>2 DEF Waiting

LEMMA CheckFirstBatchStep ==
  ASSUME IInv, NEW t \in {"shutter", "result"}, CheckFirstBatch(t)
  PROVE  IInv' /\ [Contract!Next]_(Contract!vars)
<1> USE DEF IInv
<1>1. /\ pc[t] = "check" /\ mLock = "free" /\ Done(t)
      /\ mInflightBatches # <<>> => batchLock[Head(mInflightBatches)] = "free"
      /\ UNCHANGED <<clientVars, lockVars, dataVars, mStreamsToBatch, errored, sent>>
  BY DEF CheckFirstBatch
<1>2. /\ t \in Threads /\ pc' \in [Threads -> Labels] /\ cur' \in [Threads -> Message]
      /\ OnlyMoves(t) /\ pc'[t] = "idle" /\ cur'[t] = Idle
      /\ pc'["error"] = pc["error"] /\ cur'["error"] = cur["error"]
  BY <1>1, DoneMoves DEF Threads, OnlyMoves
<1>3. UNCHANGED <<call, burst, nextFrame, submitted, mLock, batchLock, got, lost,
                  mProcessCaptureResultLock, mStreamsToBatch, errored, sent>>
  BY <1>1 DEF clientVars, lockVars, dataVars
<1>4. pc["error"] \notin {"first", "crashed"} \cup Flushing
  BY <1>1 DEF Locks
<1>5. Excused' = Excused
  BY <1>2, <1>3 DEF Excused
<1>6. /\ \A u \in {"shutter", "result"} \ {t} : pc'[u] = pc[u] /\ cur'[u] = cur[u]
      /\ "shutter" # "result"
  BY <1>2 DEF OnlyMoves, Threads
<1>7. CASE mInflightBatches # <<>> /\ AllDelivered(Head(mInflightBatches))
  <2>1. PICK h : h = Head(mInflightBatches)
    OBVIOUS
  <2>2. /\ batch' = [batch EXCEPT ![h].removed = TRUE]
        /\ mInflightBatches' = Tail(mInflightBatches)
        /\ batchLock[h] = "free"
    BY <1>1, <1>7, <2>1 DEF CheckFirstBatch
  <2>3. /\ h \in Live /\ h \in Frames
        /\ mInflightBatches' \in Seq(Frames)
        /\ \A k \in DOMAIN mInflightBatches' :
             /\ k \in Nat /\ k >= 1 /\ k + 1 \in DOMAIN mInflightBatches
             /\ mInflightBatches'[k] = mInflightBatches[k + 1]
        /\ Live' = Live \ {h}
    BY <1>7, <2>1, <2>2, HeadGone
  <2>4. Waiting(h) = {}
    <3>1. batch[h].shutterDone /\ batch[h].progress = NumPartial
      <4>1. batch[h].progress \in 0..NumPartial
        BY <2>3, BatchFields
      <4> QED BY <1>7, <2>1, <4>1, Constants DEF AllDelivered
    <3>2. \A s \in DOMAIN batch[h].bufs : batch[h].bufs[s] = <<>>
      BY <1>7, <2>1, <2>3 DEF AllDelivered, Delivered
    <3> QED BY <2>3, <3>1, <3>2, NothingWaits
  <2>5. pc["result"] \in Holding => cur["result"].batch # h
    BY <2>2, <2>3 DEF Locks
  <2>6. \A a \in Frames : FramesOf(a)' = FramesOf(a)
    <3>1. \A a \in Frames : batch'[a].last = batch[a].last
      BY <2>2, <2>3, BatchFields DEF Types, Batch
    <3> QED BY <3>1 DEF FramesOf
  <2>7. Errors'
    <3>1. \A b \in Live' : b \in Live /\ FramesOf(b)' = FramesOf(b)
      BY <2>3, <2>6, LiveBatches
    <3>2. ASSUME pc["error"] = "lock", NEW k \in DOMAIN mInflightBatches',
                 cur["error"].frame \in FramesOf(mInflightBatches[k])'
          PROVE  k <= cur["error"].idx
      <4>1. k + 1 \in DOMAIN mInflightBatches /\ mInflightBatches'[k] = mInflightBatches[k + 1] /\ k \in Nat
        BY <2>3
      <4>2. mInflightBatches[k + 1] \in Frames
        BY <4>1, LiveBatches
      <4>3. cur["error"].frame \in FramesOf(mInflightBatches[k + 1])
        BY <2>6, <3>2, <4>1, <4>2
      <4>4. k + 1 <= cur["error"].idx
        BY <3>2, <4>1, <4>3 DEF Errors
      <4>5. cur["error"].idx \in Nat
        BY DEF Types, Message, Threads
      <4> QED BY <4>1, <4>4, <4>5
    <3> QED BY <1>2, <1>3, <1>4, <1>5, <3>1, <3>2 DEF Errors
  <2>8. Locks'
    <3>1. pc'["result"] \in Holding <=> pc["result"] \in Holding
      BY <1>1, <1>2, <1>6 DEF Holding
    <3>2. pc["result"] \in Holding => cur'["result"] = cur["result"]
      BY <1>1, <1>6 DEF Holding
    <3> QED BY <1>2, <1>3, <1>4, <3>1, <3>2 DEF Locks
  <2>9. UNCHANGED <<clientVars, dataVars, mStreamsToBatch, errored, sent>> /\ Excused \subseteq Excused'
        /\ mLock' \in {"free", "error"} /\ batchLock' \in [Frames -> {"free", "result", "error"}]
        /\ \A b \in Frames : b # h => batchLock'[b] = batchLock[b]
    BY <1>1, <1>3, <1>5 DEF Types
  <2>10. pc'["error"] \notin Flushing
    BY <1>2, <1>4
  <2> HIDE DEF IInv
  <2> QED BY <1>1, <1>2, <1>7, <2>1, <2>2, <2>4, <2>5, <2>7, <2>8, <2>9, <2>10, HeadLeaves
<1>8. CASE ~(mInflightBatches # <<>> /\ AllDelivered(Head(mInflightBatches)))
  <2>1. UNCHANGED <<mInflightBatches, batch>>
    BY <1>8 DEF CheckFirstBatch, batchVars
  <2>2. /\ pc["shutter"] # "check" => pc'["shutter"] = pc["shutter"] /\ cur'["shutter"] = cur["shutter"]
        /\ pc["shutter"] = "check" => pc'["shutter"] \in {"idle", "check"}
        /\ pc["result"] # "check" => pc'["result"] = pc["result"] /\ cur'["result"] = cur["result"]
        /\ pc["result"] = "check" => pc'["result"] \in {"idle", "check"}
    BY <1>1, <1>2, <1>6
  <2>3. Hand' = Hand /\ ResultHand' = ResultHand
    BY <2>2 DEF Hand, ShutterHand, ResultHand
  <2>4. Client' /\ Deque' /\ LanesFull' /\ Errors'
    BY <1>2, <1>3, <2>1, StructureKept DEF SameShape, clientVars
  <2>5. Types'
    <3>1. /\ pc'["shutter"] \in {"idle", "single", "queue", "check"}
          /\ pc'["result"] \in {"idle", "single", "queue", "check"} \cup Holding
      BY <2>2 DEF Types
    <3> QED BY <1>2, <1>3, <2>1, <3>1 DEF Types
  <2>6. Locks'
    BY <1>2, <1>3, <2>1, <2>2 DEF Locks, Holding
  <2>7. Live' = Live /\ \A b : FramesOf(b)' = FramesOf(b)
    BY <2>1 DEF Live, FramesOf
  <2>8. Workers'
    BY <1>2, <1>3, <2>1, <2>2, <2>7 DEF Workers, Holding, Newest
  <2>9. Flushed'
    BY <1>2, <2>1 DEF Flushed
  <2>10. \A l \in Strict, b \in Live : AtLast(l, b)' <=> AtLast(l, b)
    BY <2>1, <2>2 DEF AtLast, Carries
  <2>11. \A b \in Live : batchLock'[b] = "error" <=> batchLock[b] = "error"
    BY <1>3
  <2> QED BY <1>3, <2>1, <2>3, <2>4, <2>5, <2>6, <2>8, <2>9, <2>10, <2>11, BatchesUntouched
<1> QED BY <1>7, <1>8

LEMMA PopFlushedStep ==
  ASSUME IInv, PopFlushed
  PROVE  IInv' /\ [Contract!Next]_(Contract!vars)
<1> USE DEF IInv
<1>1. pc["error"] = "pop" /\ mInflightBatches # <<>> /\ mLock = "error"
  BY DEF PopFlushed, Locks, Flushing
<1>2. PICK h : h = Head(mInflightBatches)
  OBVIOUS
<1>3. /\ batch' = [batch EXCEPT ![h].removed = TRUE]
      /\ batchLock' = [batchLock EXCEPT ![h] = "free"]
      /\ mInflightBatches' = Tail(mInflightBatches)
      /\ IF cur["error"].idx > 1
           THEN /\ cur' = [cur EXCEPT !["error"].idx = @ - 1]
                /\ Goto("error", "first")
                /\ UNCHANGED mLock
           ELSE /\ Done("error")
                /\ mLock' = "free"
      /\ UNCHANGED <<clientVars, dataVars, mStreamsToBatch, errored, sent>>
  BY <1>2 DEF PopFlushed
<1>4. /\ h \in Live /\ h \in Frames
      /\ mInflightBatches' \in Seq(Frames)
      /\ \A k \in DOMAIN mInflightBatches' :
           /\ k \in Nat /\ k >= 1 /\ k + 1 \in DOMAIN mInflightBatches
           /\ mInflightBatches'[k] = mInflightBatches[k + 1]
      /\ Live' = Live \ {h}
  BY <1>1, <1>2, <1>3, HeadGone
<1>5. Waiting(h) = {}
  <2>1. /\ batch[h].shutterDone /\ batch[h].progress = NumPartial
        /\ \A s \in DOMAIN batch[h].bufs : batch[h].bufs[s] = <<>>
    BY <1>1, <1>2 DEF Flushed, Flushing
  <2> QED BY <1>4, <2>1, NothingWaits
<1>6. /\ batchLock[h] = "error"
      /\ pc["result"] \in Holding => cur["result"].batch # h
      /\ batchLock' \in [Frames -> {"free", "result", "error"}] /\ batchLock'[h] = "free"
      /\ \A b \in Frames : b # h => batchLock'[b] = batchLock[b] /\ batchLock[b] # "error"
  BY <1>1, <1>2, <1>3, <1>4 DEF Types, Locks, Flushing
<1>7. PICK n \in Nat : n = cur["error"].idx
  BY DEF Types, Message, Threads
<1>8. PICK f \in Frames : f = cur["error"].frame
  BY <1>1 DEF Errors, Types
<1>9. UNCHANGED <<submitted, errored, sent>>
  BY <1>3 DEF clientVars
<1>10. "error" \in Threads /\ cur["error"] \in Message
  BY DEF Types, Threads
<1>11. \A a \in Frames : FramesOf(a)' = FramesOf(a)
  <2>1. \A a \in Frames : batch'[a].last = batch[a].last
    BY <1>3, <1>4, BatchFields DEF Types, Batch
  <2> QED BY <2>1 DEF FramesOf
<1>12. \A b \in Live' : b \in Live /\ FramesOf(b)' = FramesOf(b)
  BY <1>4, <1>11, LiveBatches
<1>13. \A k \in DOMAIN mInflightBatches' : f \in FramesOf(mInflightBatches[k])' => k + 1 <= n /\ k \in Nat
  <2>1. TAKE k \in DOMAIN mInflightBatches'
  <2>2. HAVE f \in FramesOf(mInflightBatches[k])'
  <2>3. k + 1 \in DOMAIN mInflightBatches /\ mInflightBatches'[k] = mInflightBatches[k + 1] /\ k \in Nat
    BY <1>4
  <2>4. mInflightBatches[k + 1] \in Frames
    BY <2>3, LiveBatches
  <2>5. f \in FramesOf(mInflightBatches[k + 1])
    BY <1>11, <2>2, <2>3, <2>4
  <2> QED BY <1>1, <1>7, <1>8, <2>3, <2>5 DEF Errors, Flushing
<1>14. CASE n > 1
  <2>1. /\ cur' = [cur EXCEPT !["error"].idx = n - 1] /\ Goto("error", "first") /\ mLock' = mLock
    BY <1>3, <1>7, <1>14
  <2>2. cur' = [cur EXCEPT !["error"] = [cur["error"] EXCEPT !.idx = n - 1]]
    BY <1>10, <2>1 DEF Types
  <2>3. [cur["error"] EXCEPT !.idx = n - 1] \in Message
    BY <1>10, <1>14 DEF Message
  <2>4. /\ cur' \in [Threads -> Message]
        /\ cur'["error"].frame = f /\ cur'["error"].idx = n - 1
        /\ \A u \in Threads \ {"error"} : cur'[u] = cur[u]
    BY <1>8, <1>10, <2>2, <2>3 DEF Types, Message
  <2>5. pc' \in [Threads -> Labels] /\ pc'["error"] = "first" /\ \A u \in Threads \ {"error"} : pc'[u] = pc[u]
    <3>1. "first" \in Labels
      BY DEF Labels
    <3> QED BY <1>10, <2>1, <3>1, Moves
  <2>6. OnlyMoves("error") /\ pc'["result"] = pc["result"] /\ cur'["result"] = cur["result"]
    BY <2>4, <2>5 DEF OnlyMoves, Threads
  <2>7. Excused' = Excused
    BY <1>8, <1>9, <2>4 DEF Excused
  <2>8. Errors'
    <3>1. \A k \in DOMAIN mInflightBatches' : f \in FramesOf(mInflightBatches[k])' => k <= n - 1
      BY <1>13
    <3> QED BY <1>1, <1>8, <1>9, <1>12, <2>4, <2>5, <2>7, <3>1 DEF Errors
  <2>9. Locks'
    BY <1>1, <1>4, <1>6, <2>1, <2>5, <2>6 DEF Locks, Flushing
  <2>10. pc'["error"] \notin Flushing /\ mLock' \in {"free", "error"} /\ Excused \subseteq Excused'
    BY <1>1, <2>1, <2>5, <2>7 DEF Flushing
  <2> HIDE DEF IInv
  <2> QED BY <1>1, <1>2, <1>3, <1>5, <1>6, <1>10, <2>4, <2>5, <2>6, <2>8, <2>9, <2>10, HeadLeaves
<1>15. CASE ~(n > 1)
  <2>1. Done("error") /\ mLock' = "free"
    BY <1>3, <1>7, <1>15
  <2>2. /\ pc' \in [Threads -> Labels] /\ cur' \in [Threads -> Message]
        /\ OnlyMoves("error") /\ pc'["error"] = "idle" /\ cur'["error"] = Idle
        /\ pc'["result"] = pc["result"] /\ cur'["result"] = cur["result"]
    BY <2>1, DoneMoves DEF Threads, OnlyMoves
  <2>3. cur'["error"].frame = None
    BY <2>2 DEF Idle
  <2>4. \A k \in DOMAIN mInflightBatches' : f \notin FramesOf(mInflightBatches[k])'
    BY <1>4, <1>13, <1>15
  <2>5. \A b \in Live' : f \notin FramesOf(b)'
    BY <2>4 DEF Live
  <2>6. Excused \subseteq Excused' /\ Excused' \subseteq Excused \cup {f}
    <3>1. None \notin errored
      BY Constants DEF Types, None
    <3> QED BY <1>8, <1>9, <2>3, <3>1 DEF Excused
  <2>7. Errors'
    BY <1>12, <2>2, <2>3, <2>5, <2>6 DEF Errors, Flushing
  <2>8. Locks'
    BY <1>1, <1>4, <1>6, <2>1, <2>2 DEF Locks, Flushing
  <2>9. pc'["error"] \notin Flushing /\ mLock' \in {"free", "error"}
    BY <2>1, <2>2 DEF Flushing
  <2> HIDE DEF IInv
  <2> QED BY <1>1, <1>2, <1>3, <1>5, <1>6, <1>10, <2>2, <2>6, <2>7, <2>8, <2>9, HeadLeaves
<1> QED BY <1>14, <1>15

---------------------------------------------------------------------------
\* Every step keeps the invariant, and is a step of the contract.
LEMMA NextStep ==
  ASSUME IInv, HalWaits, [Next]_vars
  PROVE  IInv' /\ [Contract!Next]_(Contract!vars)
<1>1. CASE ClientStep
  BY <1>1, ProcessCaptureRequestStep, RequestAcceptedStep, RequestRefusedStep, RegisterBatchStep
     DEF ClientStep
<1>2. CASE ShutterStep
  BY <1>2, ShutterArrivesStep, SingleShutterStep, QueueShutterStep, CheckFirstBatchStep DEF ShutterStep
<1>3. CASE ResultStep
  BY <1>3, ResultArrivesStep, SingleResultStep, ResultOfRemovedBatchStep, QueueResultStep,
     SendOthersStep, SendMetadataStep, SendBuffersStep, UnlockBatchStep, CheckFirstBatchStep
     DEF ResultStep
<1>4. CASE ErrorStep
  BY <1>4, ErrorArrivesStep, SingleErrorStep, LockForFlushStep, FlushMissingBatchStep,
     FlushShuttersStep, FlushBuffersStep, FlushMetadataStep, PopFlushedStep
     DEF ErrorStep
<1>5. ASSUME NEW t \in Threads, CallbackReturns(t)
      PROVE  IInv' /\ [Contract!Next]_(Contract!vars)
  BY <1>5, CallbackReturnsStep
<1>6. CASE UNCHANGED vars
  <2>1. /\ UNCHANGED <<call, burst, nextFrame, submitted, mStreamsToBatch, mInflightBatches, batch,
                       mLock, batchLock, mProcessCaptureResultLock, pc, cur, errored, sent, got, lost>>
    BY <1>6 DEF vars, clientVars, batchVars, lockVars, dataVars
  <2>2. UNCHANGED <<batchVars, lockVars, dataVars, pc, cur, errored, sent>>
    BY <1>6 DEF vars
  <2>3. /\ \A b \in Frames : Settled(b) => Settled(b)'
        /\ Client' /\ LanesFull'
    BY <2>1 DEF IInv, Client, LanesFull, Settled, Excused
  <2> QED BY <2>1, <2>2, <2>3, OnlyClientMoves DEF IInv, Types
<1> QED
  BY <1>1, <1>2, <1>3, <1>4, <1>5, <1>6, ConfigureStreamsStep DEF Next, Quiet

\* What a batch holds back is queued in it: the frame of a buffer is that of its position.
LEMMA HeldIsQueued ==
  ASSUME IInv, NEW b \in Live
  PROVE  Waiting(b) \subseteq Queued(b)
<1>1. SUFFICES ASSUME NEW i \in HeldBuffers(b) PROVE i \in Queued(b)
  BY DEF Waiting, Queued
<1>2. PICK s : s = i[1]
  OBVIOUS
<1>3. /\ i \in Item /\ i = <<i[1], i[2]>> /\ i[2] \in Nat /\ b \in Nat
      /\ s \in DOMAIN batch[b].bufs /\ i[2] - b + 1 \in DOMAIN batch[b].bufs[s]
  BY <1>1, <1>2, Pieces, Ordered DEF IInv, HeldBuffers
<1>4. batch[b].bufs[s][i[2] - b + 1] = b + (i[2] - b + 1) - 1
  BY <1>3 DEF IInv, Positions
<1>5. b + (i[2] - b + 1) - 1 = i[2]
  BY <1>3
<1>6. i \in {s} \X {batch[b].bufs[s][k] : k \in DOMAIN batch[b].bufs[s]}
  BY <1>2, <1>3, <1>4, <1>5
<1> QED BY <1>3, <1>6 DEF Queued

\* What is sent and unhandled is in a hand or in a batch of the deque.
LEMMA NoneStranded == ASSUME IInv PROVE NothingStranded
<1>1. SUFFICES ASSUME NEW i \in sent, ~Handled(i)
               PROVE  \/ \E t \in Threads : i \in cur[t].items
                      \/ \E k \in DOMAIN mInflightBatches : i \in Queued(mInflightBatches[k])
  BY DEF NothingStranded, Handled
<1>2. CASE i \in Hand
  BY <1>2 DEF Hand, ShutterHand, ResultHand, Threads
<1>3. CASE \E b \in Live : i \in Waiting(b)
  <2>1. PICK b \in Live : i \in Queued(b)
    BY <1>3, HeldIsQueued
  <2>2. PICK k \in DOMAIN mInflightBatches : b = mInflightBatches[k]
    BY LiveBatches DEF IInv
  <2> QED BY <2>1, <2>2
<1> QED BY <1>1, <1>2, <1>3 DEF IInv, Placed

\* Three threads of the HAL feed the batches and an error flushes them, under locks that
\* are given up in between: still each piece goes up at most once, under its own frame,
\* and none overtakes an earlier one of its lane.  If the HAL answers a burst before the
\* call has returned, the batch is not registered yet, and this is lost.
THEOREM BatcherKeepsContract == ASSUME HalWaits PROVE Spec => DeliveryKept
<1>1. Init => IInv /\ Contract!Init
  <2>1. Init => Contract!Init
    BY DEF Init, Contract!Init, Item, Contract!Item, Frames, Contract!Frames
  <2> QED BY <2>1, InitIInv
<1>2. IInv /\ [Next]_vars => IInv' /\ [Contract!Next]_(Contract!vars)
  BY NextStep
<1> QED BY <1>1, <1>2, PTL DEF Spec, DeliveryKept, Contract!Spec

\* A thread may wait for the lock of a batch which another removes meanwhile: no piece is
\* put into a batch that has left the deque, and a batch leaves it empty.
THEOREM NothingIsStranded == ASSUME HalWaits PROVE Spec => []NothingStranded
<1>1. Init => IInv
  BY InitIInv
<1>2. IInv /\ [Next]_vars => IInv'
  BY NextStep
<1>3. IInv => NothingStranded
  BY NoneStranded
<1> QED BY <1>1, <1>2, <1>3, PTL DEF Spec

---------------------------------------------------------------------------
(* Why a batch that is complete leaves the deque. *)

ResultsDone(b) == batch[b].progress >= NumPartial /\ DOMAIN batch[b].bufs \subseteq batch[b].bufsDone
LanesOf(b)     == {Shutter, NumPartial} \cup DOMAIN batch[b].bufs

\* A thread that brought the end of a batch has not yet looked at the first one of the deque,
\* or the error's thread is taking the batch out.
ShutterLooks(b) == pc["shutter"] = "check" /\ cur["shutter"].frame = batch[b].last
ResultLooks(b)  == pc["result"] \in {"buffers", "unlock", "check"} /\ cur["result"].frame = batch[b].last
ErrorTakes(b)   == pc["error"] \in Flushing /\ b = Head(mInflightBatches)

\* It is to look before it brings the end of a later batch.
WillCheck(b) ==
  \/ ShutterLooks(b) /\ \A a \in Live : a > b => ~batch[a].shutterDone
  \/ ResultLooks(b)  /\ \A a \in Live : a > b => ~ResultsDone(a)
  \/ ErrorTakes(b)

Awaited == \A b \in Live : AllDelivered(b) => WillCheck(b)

\* A lane of which the last piece has come counts as delivered, or its bearer is on the way.
Reached ==
  \A b \in Live : \A l \in LanesOf(b) :
    <<l, batch[b].last>> \in sent => DoneLane(l, b) \/ AtLast(l, b)

\* Of two batches of different streams, the first has its buffers behind it.
OldStreams ==
  \A a, b \in Live : a < b /\ DOMAIN batch[a].bufs # DOMAIN batch[b].bufs =>
    \A s \in DOMAIN batch[a].bufs : <<s, batch[a].last>> \in sent /\ Handled(<<s, batch[a].last>>)

QInv == IInv /\ Awaited /\ Reached /\ OldStreams

\* Nothing is unsent, and nothing that was handled is taken back.
LEMMA Grows ==
  ASSUME IInv, [Contract!Next]_(Contract!vars)
  PROVE  sent \subseteq sent' /\ \A i \in Item : Handled(i) => Handled(i)'
<1>1. got \in [Item -> Nat] /\ Item = Contract!Item
  BY DEF IInv, Types, Item, Contract!Item, Frames, Contract!Frames
<1>2. CASE Contract!Send
  BY <1>2 DEF Contract!Send, Handled
<1>3. ASSUME NEW I \in SUBSET Contract!Pending, Contract!Deliver(I) \/ Contract!Drop(I)
      PROVE  sent \subseteq sent' /\ \A i \in Item : Handled(i) => Handled(i)'
  BY <1>1, <1>3 DEF Contract!Deliver, Contract!Drop, Handled
<1>4. CASE UNCHANGED Contract!vars
  BY <1>4 DEF Contract!vars, Handled
<1> QED BY <1>2, <1>3, <1>4 DEF Contract!Next

\* A thread that brings the end of a batch brings it to that batch.
LEMMA BearersBatch ==
  ASSUME IInv, NEW b \in Live
  PROVE  /\ pc["shutter"] = "queue" /\ cur["shutter"].frame = batch[b].last => cur["shutter"].batch = b
         /\ pc["result"] \in {"queue"} \cup (Holding \ {"leave"}) /\ cur["result"].frame = batch[b].last
              => cur["result"].batch = b
<1>1. /\ batch[b].last \in FramesOf(b)
      /\ \A a \in Live : batch[b].last \in FramesOf(a) => a = b
  BY Ordered DEF IInv
<1>2. \A a \in Frames : batch[a].removed => batch[b].last \notin FramesOf(a)
  BY <1>1, RemovedApart DEF IInv
<1> QED BY <1>1, <1>2 DEF IInv, Workers

\* What tells whether a batch is complete.
SameEnds(b) ==
  /\ batch'[b].last = batch[b].last /\ DOMAIN batch'[b].bufs = DOMAIN batch[b].bufs
  /\ batch'[b].shutterDone = batch[b].shutterDone /\ batch'[b].progress = batch[b].progress
  /\ batch'[b].bufsDone = batch[b].bufsDone

\* No batch is completed, and whoever will look at the first one still will.
LEMMA AwaitedKept ==
  ASSUME QInv, Live' \subseteq Live, \A b \in Live' : SameEnds(b),
         \A b \in Live' : /\ ShutterLooks(b) => ShutterLooks(b)'
                          /\ ResultLooks(b) => ResultLooks(b)'
                          /\ ErrorTakes(b) => ErrorTakes(b)'
  PROVE  Awaited'
<1>1. \A b \in Live' : /\ AllDelivered(b)' <=> AllDelivered(b)
                       /\ ResultsDone(b)' <=> ResultsDone(b)
  BY DEF SameEnds, AllDelivered, ResultsDone
<1>2. SUFFICES ASSUME NEW b \in Live', AllDelivered(b) PROVE WillCheck(b)'
  BY <1>1 DEF Awaited
<1>3. WillCheck(b)
  BY <1>2 DEF QInv, Awaited
<1> QED BY <1>1, <1>3 DEF WillCheck, SameEnds

\* Batches keep their last frame and their streams.
SameBatches ==
  /\ Live' \subseteq Live
  /\ \A b \in Live' : batch'[b].last = batch[b].last /\ DOMAIN batch'[b].bufs = DOMAIN batch[b].bufs

LEMMA ReachedKept ==
  ASSUME QInv, SameBatches, sent' = sent,
         \A b \in Live' : \A l \in LanesOf(b) :
           DoneLane(l, b) \/ AtLast(l, b) => DoneLane(l, b)' \/ AtLast(l, b)'
  PROVE  Reached'
<1>1. \A b \in Live' : LanesOf(b)' = LanesOf(b)
  BY DEF SameBatches, LanesOf
<1> QED BY <1>1 DEF QInv, Reached, SameBatches

LEMMA OldStreamsKept ==
  ASSUME QInv, SameBatches, [Contract!Next]_(Contract!vars)
  PROVE  OldStreams'
<1>1. sent \subseteq sent' /\ \A i \in Item : Handled(i) => Handled(i)'
  BY Grows DEF QInv
<1>2. sent \subseteq Item
  BY DEF QInv, IInv, Types
<1> QED BY <1>1, <1>2 DEF QInv, OldStreams, SameBatches

\* A step that ends nothing.
LEMMA NothingEnds ==
  ASSUME QInv, IInv', [Contract!Next]_(Contract!vars), sent' = sent,
         Live' \subseteq Live, \A b \in Live' : SameEnds(b),
         \A b \in Live' : /\ ShutterLooks(b) => ShutterLooks(b)'
                          /\ ResultLooks(b) => ResultLooks(b)'
                          /\ ErrorTakes(b) => ErrorTakes(b)',
         \A b \in Live' : \A l \in LanesOf(b) : AtLast(l, b) => AtLast(l, b)'
  PROVE  QInv'
<1>1. SameBatches
  BY DEF SameBatches, SameEnds
<1>3. \A b \in Live' : \A l \in LanesOf(b) : DoneLane(l, b) => DoneLane(l, b)'
  BY DEF SameEnds, DoneLane
<1> QED BY <1>1, <1>3, AwaitedKept, ReachedKept, OldStreamsKept DEF QInv

\* The threads and the batches stay as they are.
LEMMA ThreadsStay ==
  ASSUME QInv, IInv', [Contract!Next]_(Contract!vars),
         UNCHANGED <<batch, mInflightBatches, pc, cur, sent>>
  PROVE  QInv'
<1>1. Live' = Live /\ \A b \in Live : SameEnds(b)
  BY DEF Live, SameEnds
<1>2. \A b \in Live : /\ ShutterLooks(b) <=> ShutterLooks(b)'
                      /\ ResultLooks(b) <=> ResultLooks(b)'
                      /\ ErrorTakes(b) <=> ErrorTakes(b)'
                      /\ \A l \in LanesOf(b) : AtLast(l, b) <=> AtLast(l, b)'
  BY DEF ShutterLooks, ResultLooks, ErrorTakes, AtLast, Carries
<1> QED BY <1>1, <1>2, NothingEnds

\* One thread moves, with no batch touched, and it neither brings nor ends one.
LEMMA OneMoves ==
  ASSUME QInv, IInv', [Contract!Next]_(Contract!vars), NEW t \in Threads, OnlyMoves(t),
         UNCHANGED <<batch, mInflightBatches, sent>>,
         \A b \in Live : /\ t = "shutter" => ~ShutterLooks(b)
                         /\ t = "result" => (ResultLooks(b) => ResultLooks(b)')
                         /\ t = "error" => ~ErrorTakes(b)
                         /\ \A l \in LanesOf(b) : AtLast(l, b) => AtLast(l, b)'
  PROVE  QInv'
<1>1. Live' = Live /\ \A b \in Live : SameEnds(b)
  BY DEF Live, SameEnds
<1>2. /\ t # "shutter" => pc'["shutter"] = pc["shutter"] /\ cur'["shutter"] = cur["shutter"]
      /\ t # "result" => pc'["result"] = pc["result"] /\ cur'["result"] = cur["result"]
      /\ t # "error" => pc'["error"] = pc["error"] /\ cur'["error"] = cur["error"]
  BY DEF OnlyMoves, Threads
<1>3. \A b \in Live : /\ ShutterLooks(b) => ShutterLooks(b)'
                      /\ ResultLooks(b) => ResultLooks(b)'
                      /\ ErrorTakes(b) => ErrorTakes(b)'
  BY <1>2 DEF ShutterLooks, ResultLooks, ErrorTakes
<1> QED BY <1>1, <1>3, NothingEnds

\* One batch gets on: if that completes it, somebody will look, and those who were to look at
\* another one still will.
LEMMA OneEnds ==
  ASSUME QInv, IInv', [Contract!Next]_(Contract!vars), sent' = sent, NEW b \in Live, OnlyBatch(b),
         batch'[b].last = batch[b].last, DOMAIN batch'[b].bufs = DOMAIN batch[b].bufs,
         AllDelivered(b)' => WillCheck(b)',
         \A a \in Live : a # b =>
           /\ ShutterLooks(a) => /\ ShutterLooks(a)'
                                 /\ a < b => (batch'[b].shutterDone => batch[b].shutterDone)
           /\ ResultLooks(a) => /\ ResultLooks(a)'
                                /\ a < b => (ResultsDone(b)' => ResultsDone(b))
           /\ ErrorTakes(a) => ErrorTakes(a)',
         \A a \in Live : \A l \in LanesOf(a) :
           DoneLane(l, a) \/ AtLast(l, a) => DoneLane(l, a)' \/ AtLast(l, a)'
  PROVE  QInv'
<1>1. Live' = Live /\ Live \subseteq Frames
  BY LiveBatches DEF OnlyBatch, Live, QInv, IInv
<1>2. \A a \in Live : a # b => batch'[a] = batch[a]
  BY <1>1 DEF OnlyBatch
<1>3. SameBatches
  BY <1>1, <1>2 DEF SameBatches
<1>4. \A a \in Live : a # b => (AllDelivered(a)' <=> AllDelivered(a)) /\ (ResultsDone(a)' <=> ResultsDone(a))
  BY <1>2 DEF AllDelivered, ResultsDone
<1>5. ASSUME NEW a \in Live, a # b, AllDelivered(a)
      PROVE  WillCheck(a)'
  <2>1. WillCheck(a)
    BY <1>5 DEF QInv, Awaited
  <2>2. CASE ShutterLooks(a) /\ \A c \in Live : c > a => ~batch[c].shutterDone
    <3>1. \A c \in Live : c > a => ~batch'[c].shutterDone
      BY <1>1, <1>2, <1>5, <2>2, Constants
    <3> QED BY <1>1, <1>5, <2>2, <3>1 DEF WillCheck
  <2>3. CASE ResultLooks(a) /\ \A c \in Live : c > a => ~ResultsDone(c)
    <3>1. \A c \in Live : c > a => ~ResultsDone(c)'
      BY <1>1, <1>4, <1>5, <2>3, Constants
    <3> QED BY <1>1, <1>5, <2>3, <3>1 DEF WillCheck
  <2>4. CASE ErrorTakes(a)
    BY <1>5, <2>4 DEF WillCheck
  <2> QED BY <2>1, <2>2, <2>3, <2>4 DEF WillCheck
<1>6. Awaited'
  BY <1>1, <1>4, <1>5 DEF Awaited
<1> QED BY <1>1, <1>3, <1>6, ReachedKept, OldStreamsKept DEF QInv

\* While the end of a batch is the newest of its lane, no later batch has had its end.
LEMMA LaterUnsent ==
  ASSUME IInv, NEW a \in Live, NEW b \in Live, a < b, NEW l \in Strict, Newest(l, batch[a].last)
  PROVE  ~DoneLane(l, b)
<1>1. batch[a].last < b /\ b <= batch[b].last /\ batch[a].last \in Nat /\ batch[b].last \in Nat
      /\ a \in Nat /\ b \in Nat /\ a <= batch[a].last
  BY Ordered DEF IInv
<1>2. b # Head(mInflightBatches)
  <2>1. a # Head(mInflightBatches) => batch[Head(mInflightBatches)].last < a
    BY Ordered DEF IInv
  <2> QED BY <1>1, <2>1
<1>3. batchLock[b] # "error"
  BY <1>2, LiveBatches DEF IInv, Locks
<1>4. DoneLane(l, b) => <<l, batch[b].last>> \in sent
  BY <1>3 DEF IInv, Delivered
<1> QED BY <1>1, <1>4 DEF Newest

\* A buffer that is on its way to the end of its batch has not been handed on.
LEMMA CarriedUnhandled ==
  ASSUME IInv, NEW b \in Live, NEW s \in DOMAIN batch[b].bufs, AtLast(s, b), s \notin batch[b].bufsDone
  PROVE  ~Handled(<<s, batch[b].last>>)
<1> DEFINE f == batch[b].last
<1>1. /\ b \in Frames /\ s \in Streams /\ s # Shutter /\ s # NumPartial /\ s \in Strict /\ s \in Lanes
      /\ f \in Frames /\ f \in Nat /\ b \in Nat /\ b <= f /\ f \in FramesOf(b)
      /\ DOMAIN batch[b].bufs[s] = 1..Len(batch[b].bufs[s]) /\ Len(batch[b].bufs[s]) \in Nat
  BY LiveBatches, BatchFields, Ordered, Constants, Pieces DEF IInv, Strict, Shutter
<1>2. Carries(s) /\ cur["result"].frame = f
  BY <1>1 DEF AtLast
<1>3. Newest(s, f)
  BY <1>1, CarrierNewest DEF IInv
<1>4. CASE pc["result"] = "queue" /\ <<s, f>> \in cur["result"].items
  <2>1. <<s, f>> \in Hand
    BY <1>4 DEF Hand, ResultHand
  <2> QED BY <2>1 DEF IInv, InHand
<1>5. CASE pc["result"] \in {"others", "metadata", "buffers"} /\ s \in cur["result"].filled
  <2>1. cur["result"].batch = b
    BY <1>2, <1>5, BearersBatch DEF Holding
  <2>2. <<s, f>> \notin ResultHand
    BY <1>5, <2>1 DEF IInv, Workers, ResultHand
  <2>3. f < b + Len(batch[b].bufs[s])
    BY <1>1, <1>3, <2>2 DEF IInv, Positions, Newest
  <2>4. <<s, f>> \in HeldBuffers(b)
    <3>1. f - b + 1 \in DOMAIN batch[b].bufs[s]
      BY <1>1, <2>3
    <3>2. <<s, f>> \in Item
      BY <1>1, Pieces
    <3> QED BY <3>1, <3>2 DEF HeldBuffers
  <2> QED BY <2>4 DEF Waiting, IInv, HeldBack
<1> QED BY <1>2, <1>4, <1>5 DEF Carries

\* What a batch is complete by.
LEMMA Complete ==
  ASSUME Types, NEW b \in Live
  PROVE  /\ AllDelivered(b) <=> \A l \in LanesOf(b) : DoneLane(l, b) 
         /\ AllDelivered(b) => batch[b].shutterDone /\ ResultsDone(b)
         /\ LanesOf(b) \subseteq Strict
<1>1. /\ batch[b].progress \in 0..NumPartial /\ batch[b].bufsDone \subseteq Streams
      /\ DOMAIN batch[b].bufs \subseteq Streams
  BY LiveBatches, BatchFields
<1>2. Shutter \notin Streams /\ NumPartial \notin Streams /\ Shutter # NumPartial /\ NumPartial \in Nat
  BY Constants DEF Shutter
<1>3. batch[b].progress >= NumPartial <=> batch[b].progress = NumPartial
  BY <1>1, <1>2
<1>4. DoneLane(Shutter, b) <=> batch[b].shutterDone
  BY <1>1, <1>2 DEF DoneLane
<1>5. DoneLane(NumPartial, b) <=> batch[b].progress = NumPartial
  BY <1>1, <1>2 DEF DoneLane
<1>6. \A s \in DOMAIN batch[b].bufs : DoneLane(s, b) <=> s \in batch[b].bufsDone
  BY <1>1, <1>2 DEF DoneLane
<1> QED BY <1>1, <1>3, <1>4, <1>5, <1>6 DEF AllDelivered, ResultsDone, LanesOf, Strict

\* A batch is not completed before the one in front of it, unless that one is being flushed:
\* so it is enough that each call looks at the first one only.
LEMMA FirstCompleteFirst ==
  ASSUME QInv, pc["error"] \notin Flushing, NEW a \in Live, NEW b \in Live, a < b
  PROVE  ~AllDelivered(b)
<1> SUFFICES ASSUME AllDelivered(b) PROVE FALSE
  OBVIOUS
<1>0. IInv /\ Types /\ Deque /\ LanesFull /\ Errors /\ Workers /\ InHand
  BY DEF QInv, IInv
<1>1. batch[a].last < b /\ b <= batch[b].last /\ batch[a].last \in Nat /\ batch[b].last \in Nat
      /\ b \in Nat /\ a \in Nat /\ batch[a].last \in FramesOf(a) /\ a <= batch[a].last
  BY <1>0, Ordered
<1>2. batchLock[b] # "error"
  BY <1>0, LiveBatches DEF IInv, Locks
<1>3. ASSUME NEW l \in LanesOf(a) PROVE DoneLane(l, a)
  <2>1. l \in Strict
    BY <1>0, Complete
  <2>2. CASE l \in LanesOf(b)
    <3>1. <<l, batch[b].last>> \in sent
      BY <1>0, <1>2, <2>1, <2>2, Complete DEF IInv, Delivered
    <3>2. <<l, batch[a].last>> \in sent
      BY <1>0, <1>1, <2>1, <3>1, NoGap
    <3>3. ~AtLast(l, a)
      <4> SUFFICES ASSUME AtLast(l, a) PROVE FALSE
        OBVIOUS
      <4>1. Newest(l, batch[a].last)
        BY <1>0, <2>1, CarrierNewest
      <4> QED BY <1>1, <3>1, <4>1 DEF Newest
    <3> QED BY <3>2, <3>3 DEF QInv, Reached
  <2>3. CASE l \notin LanesOf(b)
    <3>1. l \in DOMAIN batch[a].bufs /\ DOMAIN batch[a].bufs # DOMAIN batch[b].bufs
      BY <2>3 DEF LanesOf
    <3>2. <<l, batch[a].last>> \in sent /\ Handled(<<l, batch[a].last>>)
      BY <3>1 DEF QInv, OldStreams
    <3>3. DoneLane(l, a) \/ AtLast(l, a)
      BY <3>2 DEF QInv, Reached
    <3>4. l \notin batch[a].bufsDone => ~AtLast(l, a)
      BY <1>0, <3>1, <3>2, CarriedUnhandled
    <3> QED BY <3>3, <3>4 DEF DoneLane
  <2> QED BY <2>2, <2>3
<1>4. AllDelivered(a)
  BY <1>0, <1>3, Complete
<1>5. WillCheck(a)
  BY <1>4 DEF QInv, Awaited
<1>6. batch[b].shutterDone /\ ResultsDone(b)
  BY <1>0, Complete
<1> QED BY <1>1, <1>5, <1>6 DEF WillCheck, ErrorTakes

---------------------------------------------------------------------------
(* Steps that end nothing. *)

LEMMA ClientMovesQ ==
  ASSUME QInv, IInv', [Contract!Next]_(Contract!vars),
         \/ ConfigureStreams \/ ProcessCaptureRequest \/ RequestAccepted \/ RequestRefused
         \/ \E t \in Threads : CallbackReturns(t)
         \/ UNCHANGED vars
  PROVE  QInv'
<1>1. UNCHANGED <<batchVars, pc, cur, sent>>
  BY DEF ConfigureStreams, ProcessCaptureRequest, RequestAccepted, RequestRefused, CallbackReturns, vars
<1>2. UNCHANGED <<batch, mInflightBatches, pc, cur, sent>>
  BY <1>1 DEF batchVars
<1> QED BY <1>2, ThreadsStay

LEMMA SingleShutterQ ==
  ASSUME QInv, IInv', [Contract!Next]_(Contract!vars), SingleShutter
  PROVE  QInv'
<1>1. /\ pc["shutter"] = "single" /\ "shutter" \in Threads
      /\ OnlyMoves("shutter") /\ UNCHANGED <<batch, mInflightBatches, sent>>
  BY DoneMoves DEF SingleShutter, batchVars, QInv, IInv, Threads
<1>2. pc'["result"] = pc["result"] /\ cur'["result"] = cur["result"]
  BY <1>1 DEF OnlyMoves, Threads
<1>3. \A b \in Live : ~ShutterLooks(b) /\ \A l \in LanesOf(b) : AtLast(l, b) => AtLast(l, b)'
  BY <1>1, <1>2 DEF ShutterLooks, AtLast, Carries
<1> QED BY <1>1, <1>3, OneMoves

LEMMA SingleResultQ ==
  ASSUME QInv, IInv', [Contract!Next]_(Contract!vars), SingleResult
  PROVE  QInv'
<1>1. /\ pc["result"] = "single" /\ "result" \in Threads
      /\ OnlyMoves("result") /\ UNCHANGED <<batch, mInflightBatches, sent>>
  BY DoneMoves DEF SingleResult, batchVars, QInv, IInv, Threads
<1>2. pc'["shutter"] = pc["shutter"] /\ cur'["shutter"] = cur["shutter"]
  BY <1>1 DEF OnlyMoves, Threads
<1>3. \A b \in Live : ~ResultLooks(b) /\ \A l \in LanesOf(b) : AtLast(l, b) => AtLast(l, b)'
  BY <1>1, <1>2 DEF ResultLooks, AtLast, Carries
<1> QED BY <1>1, <1>3, OneMoves

\* The result of a batch that has left ends no batch.
LEMMA ResultOfRemovedBatchQ ==
  ASSUME QInv, IInv', [Contract!Next]_(Contract!vars), ResultOfRemovedBatch
  PROVE  QInv'
<1>0. IInv /\ Types /\ Deque
  BY DEF QInv, IInv
<1>1. /\ pc["result"] = "queue" /\ "result" \in Threads /\ cur' = cur
      /\ batch[cur["result"].batch].removed
      /\ UNCHANGED <<batch, mInflightBatches, sent>>
  BY DEF ResultOfRemovedBatch, FallsBack, batchVars, Threads
<1>2. OnlyMoves("result")
  <2>1. "leave" \in Labels /\ Goto("result", "leave")
    BY DEF ResultOfRemovedBatch, Labels, Holding
  <2> QED BY <1>0, <1>1, <2>1, Moves DEF OnlyMoves
<1>3. pc'["shutter"] = pc["shutter"]
  BY <1>2 DEF OnlyMoves, Threads
<1>4. \A b \in Live : cur["result"].frame # batch[b].last
  <2>1. \A b \in Live : cur["result"].frame = batch[b].last => cur["result"].batch = b
    BY <1>0, <1>1, BearersBatch
  <2> QED BY <1>0, <1>1, <2>1 DEF Deque
<1>5. \A b \in Live : ~ResultLooks(b) /\ \A l \in LanesOf(b) : AtLast(l, b) => AtLast(l, b)'
  BY <1>1, <1>3, <1>4 DEF ResultLooks, AtLast
<1> QED BY <1>1, <1>2, <1>5, OneMoves

\* The lock is given up, and the end of the batch leads on to the look at the first one.
LEMMA UnlockBatchQ ==
  ASSUME QInv, IInv', [Contract!Next]_(Contract!vars), UnlockBatch
  PROVE  QInv'
<1>0. IInv /\ Types
  BY DEF QInv, IInv
<1>1. /\ pc["result"] \in {"unlock", "leave"} /\ "result" \in Threads
      /\ UNCHANGED <<batch, mInflightBatches, sent>>
      /\ IF pc["result"] = "unlock" /\ IsLast("result")
           THEN Goto("result", "check") /\ UNCHANGED cur ELSE Done("result")
  BY DEF UnlockBatch, batchVars, Threads
<1>2. OnlyMoves("result")
  <2>1. "check" \in Labels
    BY DEF Labels
  <2> QED BY <1>0, <1>1, <2>1, Moves, DoneMoves DEF OnlyMoves
<1>3. pc'["shutter"] = pc["shutter"] /\ cur'["shutter"] = cur["shutter"]
  BY <1>2 DEF OnlyMoves, Threads
<1>4. ASSUME NEW b \in Live, ResultLooks(b)
      PROVE  ResultLooks(b)'
  <2>1. pc["result"] = "unlock" /\ cur["result"].frame = batch[b].last
    BY <1>1, <1>4 DEF ResultLooks
  <2>2. cur["result"].batch = b
    BY <1>0, <2>1, BearersBatch DEF Holding
  <2>3. Goto("result", "check") /\ cur' = cur
    BY <1>1, <2>1, <2>2 DEF IsLast
  <2>4. pc'["result"] = "check"
    BY <1>0, <1>1, <2>3 DEF Goto, Types
  <2> QED BY <1>1, <2>1, <2>3, <2>4 DEF ResultLooks
<1>5. \A b \in Live : \A l \in LanesOf(b) : AtLast(l, b) => AtLast(l, b)'
  BY <1>1, <1>3 DEF AtLast, Carries
<1> QED BY <1>1, <1>2, <1>4, <1>5, OneMoves

\* The error's thread comes in, waits for the lock or goes, and flushes nothing.
LEMMA ErrorMovesQ ==
  ASSUME QInv, IInv', [Contract!Next]_(Contract!vars),
         SingleError \/ LockForFlush \/ FlushMissingBatch \/ ErrorArrives
  PROVE  QInv'
<1>0. Types /\ "error" \in Threads
  BY DEF QInv, IInv, Threads
<1>1. /\ pc["error"] \notin Flushing
      /\ UNCHANGED <<batch, mInflightBatches, sent>>
  BY DEF SingleError, LockForFlush, FlushMissingBatch, ErrorArrives, Enter, batchVars, Flushing
<1>2. OnlyMoves("error")
  <2>1. CASE SingleError
    BY <1>0, <2>1, DoneMoves DEF SingleError
  <2>2. CASE LockForFlush \/ FlushMissingBatch
    <3>1. cur' = cur /\ \E label \in Labels : Goto("error", label)
      BY <2>2 DEF LockForFlush, FlushMissingBatch, Labels
    <3> QED BY <1>0, <3>1, Moves DEF OnlyMoves
  <2>3. CASE ErrorArrives
    <3>1. PICK f \in submitted : Enter("error", f, 0, {}, "lock")
      BY <2>3 DEF ErrorArrives
    <3>2. PICK label \in Labels : Goto("error", label)
      BY <3>1 DEF Enter, Labels
    <3>3. \A u \in Threads \ {"error"} : cur'[u] = cur[u]
      BY <1>0, <3>1 DEF Enter, Types
    <3> QED BY <1>0, <3>2, <3>3, Moves DEF OnlyMoves
  <2> QED BY <2>1, <2>2, <2>3
<1>3. /\ pc'["shutter"] = pc["shutter"] /\ cur'["shutter"] = cur["shutter"]
      /\ pc'["result"] = pc["result"] /\ cur'["result"] = cur["result"]
  BY <1>2 DEF OnlyMoves, Threads
<1>4. \A b \in Live : ~ErrorTakes(b) /\ \A l \in LanesOf(b) : AtLast(l, b) => AtLast(l, b)'
  BY <1>1, <1>3 DEF ErrorTakes, AtLast, Carries
<1> QED BY <1>0, <1>1, <1>2, <1>4, OneMoves

\* The buffers of other streams go up; what is batched is still to come.
LEMMA SendOthersQ ==
  ASSUME QInv, IInv', [Contract!Next]_(Contract!vars), SendOthers
  PROVE  QInv'
<1>0. IInv /\ Types
  BY DEF QInv, IInv
<1>1. /\ pc["result"] = "others" /\ "result" \in Threads
      /\ cur' = [cur EXCEPT !["result"].items = {}] /\ Goto("result", AfterQueueing)
      /\ UNCHANGED <<batch, mInflightBatches, sent>>
  BY DEF SendOthers, batchVars, Threads
<1>2. /\ \A u \in Threads \ {"result"} : cur'[u] = cur[u]
      /\ cur'["result"] = [cur["result"] EXCEPT !.items = {}]
  BY <1>0, <1>1 DEF Types
<1>3. /\ cur'["result"].frame = cur["result"].frame /\ cur'["result"].partial = cur["result"].partial
      /\ cur'["result"].filled = cur["result"].filled
  BY <1>2
<1>4. OnlyMoves("result") /\ pc'["result"] = AfterQueueing
  <2>1. AfterQueueing \in Labels
    BY DEF AfterQueueing, Labels, Holding
  <2> QED BY <1>0, <1>1, <1>2, <2>1, Moves DEF OnlyMoves
<1>5. pc'["shutter"] = pc["shutter"] /\ cur'["shutter"] = cur["shutter"]
  BY <1>4 DEF OnlyMoves, Threads
<1>6. ASSUME NEW b \in Live, NEW l \in LanesOf(b), AtLast(l, b)
      PROVE  AtLast(l, b)'
  <2>1. CASE l = Shutter /\ pc["shutter"] = "queue" /\ cur["shutter"].frame = batch[b].last
    BY <1>1, <1>5, <2>1 DEF AtLast
  <2>2. CASE cur["result"].frame = batch[b].last /\ (l # Shutter \/ pc["shutter"] # "queue" 
                                                      \/ cur["shutter"].frame # batch[b].last)
    <3>1. cur["result"].batch = b
      BY <1>0, <1>1, <2>2, BearersBatch DEF Holding
    <3>2. pc'["result"] = "metadata"
      BY <1>4, <2>2, <3>1 DEF AfterQueueing, IsLast
    <3> QED BY <1>1, <1>3, <1>6, <2>2, <3>2 DEF AtLast, Carries
  <2> QED BY <1>6, <2>1, <2>2 DEF AtLast
<1>7. \A b \in Live : ~ResultLooks(b)
  BY <1>1 DEF ResultLooks
<1> QED BY <1>1, <1>4, <1>6, <1>7, OneMoves

\* The result is queued; its thread is on the way to empty the lanes of its batch.
LEMMA QueueResultQ ==
  ASSUME QInv, IInv', [Contract!Next]_(Contract!vars), QueueResult
  PROVE  QInv'
<1>0. IInv /\ Types
  BY DEF QInv, IInv
<1>1. PICK c \in Frames : c = cur["result"].batch
  BY <1>0, Zenon DEF QueueResult, IInv, Workers
<1>2. PICK filled : filled = {s \in DOMAIN batch[c].bufs : <<s, cur["result"].frame>> \in cur["result"].items}
  BY Zenon
<1>3. PICK others : cur' = [cur EXCEPT !["result"].items = others, !["result"].filled = filled]
                    /\ Goto("result", IF others # {} THEN "others" ELSE AfterQueueing)
  BY <1>1, <1>2, Zenon DEF QueueResult
<1>4. PICK mds, bufs :
        /\ DOMAIN bufs = DOMAIN batch[c].bufs
        /\ batch' = [batch EXCEPT ![c].mds = mds, ![c].bufs = bufs]
  <2>1. PICK mds : batch' = [batch EXCEPT ![c].mds = mds, ![c].bufs = [s \in DOMAIN @ |->
                        IF s \in filled THEN Append(@[s], cur["result"].frame) ELSE @[s]]]
    BY <1>0, <1>1, <1>2, Zenon DEF QueueResult, Types
  <2> DEFINE B == [s \in DOMAIN batch[c].bufs |-> 
                     IF s \in filled THEN Append(batch[c].bufs[s], cur["result"].frame) ELSE batch[c].bufs[s]]
  <2>2. batch' = [batch EXCEPT ![c].mds = mds, ![c].bufs = B]
    BY <1>0, <1>1, <2>1, BatchFields DEF Types, Batch
  <2>3. DOMAIN B = DOMAIN batch[c].bufs
    BY SMTT(30)
  <2> HIDE DEF B
  <2> QED BY <2>2, <2>3, Zenon
<1>5. pc["result"] = "queue" /\ mInflightBatches' = mInflightBatches /\ sent' = sent
  BY DEF QueueResult
<1>6. /\ cur'["result"].frame = cur["result"].frame /\ cur'["result"].partial = cur["result"].partial
      /\ cur'["result"].filled = filled
      /\ \A u \in Threads \ {"result"} : cur'[u] = cur[u]
  <2>1. cur["result"] \in Message /\ "result" \in Threads
    BY <1>0 DEF Types, Threads
  <2> QED BY <1>0, <1>3, <2>1 DEF Types, Message
<1>7. /\ pc'["result"] = (IF others # {} THEN "others" ELSE AfterQueueing)
      /\ \A u \in Threads \ {"result"} : pc'[u] = pc[u]
  <2>1. "result" \in Threads /\ {"others", "metadata", "unlock"} \subseteq Labels
    BY DEF Threads, Labels, Holding
  <2> QED BY <1>0, <1>3, <2>1, Moves DEF AfterQueueing
<1>8. /\ pc'["shutter"] = pc["shutter"] /\ cur'["shutter"] = cur["shutter"]
      /\ pc'["error"] = pc["error"]
  BY <1>6, <1>7 DEF Threads
<1>9. Live' = Live /\ Live \subseteq Frames
  BY <1>0, <1>5, LiveBatches DEF Live
<1>10. \A b \in Frames : SameEnds(b)
  <2>1. \A b \in Frames \ {c} : batch'[b] = batch[b]
    BY <1>0, <1>4 DEF Types
  <2>2. /\ batch'[c].last = batch[c].last /\ batch'[c].bufs = bufs
        /\ batch'[c].shutterDone = batch[c].shutterDone /\ batch'[c].progress = batch[c].progress
        /\ batch'[c].bufsDone = batch[c].bufsDone
    BY <1>0, <1>4, BatchFields DEF Types, Batch
  <2> QED BY <1>4, <2>1, <2>2 DEF SameEnds
<1>11. ASSUME NEW b \in Live, NEW l \in LanesOf(b), AtLast(l, b)
       PROVE  AtLast(l, b)'
  <2>0. batch'[b].last = batch[b].last
    BY <1>9, <1>10 DEF SameEnds
  <2>1. CASE l = Shutter /\ pc["shutter"] = "queue" /\ cur["shutter"].frame = batch[b].last
    BY <1>8, <2>0, <2>1 DEF AtLast
  <2>2. CASE ~(l = Shutter /\ pc["shutter"] = "queue" /\ cur["shutter"].frame = batch[b].last)
    <3>1. cur["result"].frame = batch[b].last
      BY <1>11, <2>2 DEF AtLast
    <3>2. c = b
      BY <1>0, <1>1, <1>5, <3>1, BearersBatch
    <3>3. pc'["result"] \in {"others", "metadata"}
      BY <1>1, <1>7, <3>1, <3>2 DEF AfterQueueing, IsLast
    <3>4. CASE l = NumPartial /\ cur["result"].partial = NumPartial
      BY <1>6, <2>0, <3>1, <3>3, <3>4 DEF AtLast
    <3>5. CASE l \in Streams /\ Carries(l)
      <4>1. l \in DOMAIN batch[b].bufs
        BY <3>5, Constants DEF LanesOf, Shutter
      <4>2. l \in filled
        BY <1>2, <1>5, <3>2, <3>5, <4>1 DEF Carries
      <4> QED BY <1>6, <2>0, <3>1, <3>3, <3>5, <4>2 DEF AtLast, Carries
    <3> QED BY <1>11, <2>2, <3>4, <3>5 DEF AtLast
  <2> QED BY <2>1, <2>2
<1>12. ASSUME NEW b \in Live
       PROVE  /\ ShutterLooks(b) => ShutterLooks(b)'
              /\ ResultLooks(b) => ResultLooks(b)'
              /\ ErrorTakes(b) => ErrorTakes(b)'
  BY <1>5, <1>8, <1>9, <1>10 DEF ShutterLooks, ResultLooks, ErrorTakes, SameEnds
<1> QED BY <1>5, <1>9, <1>10, <1>11, <1>12, NothingEnds, SMTT(30)

\* A batch that was flushed leaves the deque; nothing changes for the others.
LEMMA PopFlushedQ ==
  ASSUME QInv, IInv', [Contract!Next]_(Contract!vars), PopFlushed
  PROVE  QInv'
<1>0. IInv /\ Types /\ Deque
  BY DEF QInv, IInv
<1>1. PICK h : h = Head(mInflightBatches)
  OBVIOUS
<1>2. /\ pc["error"] = "pop" /\ mInflightBatches # <<>>
      /\ batch' = [batch EXCEPT ![h].removed = TRUE]
      /\ mInflightBatches' = Tail(mInflightBatches) /\ sent' = sent
  BY <1>0, <1>1 DEF PopFlushed, IInv, Locks, Flushing
<1>3. h \in Live /\ h \in Frames /\ Live' = Live \ {h} /\ Live \subseteq Frames
  BY <1>0, <1>1, <1>2, HeadGone, LiveBatches
<1>4. \A b \in Live' : batch'[b] = batch[b]
  BY <1>0, <1>2, <1>3 DEF Types
<1>5. /\ pc'["shutter"] = pc["shutter"] /\ cur'["shutter"] = cur["shutter"]
      /\ pc'["result"] = pc["result"] /\ cur'["result"] = cur["result"]
  <2>1. PICK label \in Labels : Goto("error", label)
    BY DEF PopFlushed, Done, Labels
  <2>2. pc'["shutter"] = pc["shutter"] /\ pc'["result"] = pc["result"]
    BY <1>0, <2>1, Moves DEF Threads
  <2>3. PICK m : cur' = [cur EXCEPT !["error"] = m]
    BY <1>0 DEF PopFlushed, Done, Types
  <2> QED BY <1>0, <2>2, <2>3 DEF Types, Threads
<1>6. \A b \in Live' : SameEnds(b) /\ b \in Live /\ ~ErrorTakes(b)
  BY <1>1, <1>3, <1>4 DEF SameEnds, ErrorTakes
<1>7. \A b \in Live' : /\ ShutterLooks(b) => ShutterLooks(b)'
                       /\ ResultLooks(b) => ResultLooks(b)'
                       /\ \A l \in LanesOf(b) : AtLast(l, b) => AtLast(l, b)'
  BY <1>4, <1>5 DEF ShutterLooks, ResultLooks, AtLast, Carries
<1> QED BY <1>2, <1>3, <1>6, <1>7, NothingEnds

---------------------------------------------------------------------------
(* Steps that bring the end of a batch. *)

\* The last shutter: its thread has brought the end, and looks next.
LEMMA LastShutterQ ==
  ASSUME QInv, IInv', [Contract!Next]_(Contract!vars), QueueShutter,
         NEW b \in Live, b = cur["shutter"].batch, cur["shutter"].frame = batch[b].last
  PROVE  QInv'
<1>0. IInv /\ Types /\ Deque /\ b \in Frames
  BY LiveBatches DEF QInv, IInv
<1>1. /\ pc["shutter"] = "queue" /\ ~FallsBack(b) /\ IsLast("shutter")
      /\ mInflightBatches' = mInflightBatches /\ sent' = sent
  BY <1>0 DEF QueueShutter, FallsBack, IsLast, Deque
<1>2. Goto("shutter", "check") /\ cur' = cur
  BY <1>1 DEF QueueShutter
<1>3. PICK shutters : batch' = [batch EXCEPT ![b].shutters = shutters, ![b].shutterDone = TRUE]
  BY <1>1 DEF QueueShutter
<1>4. /\ pc'["shutter"] = "check"
      /\ pc'["result"] = pc["result"] /\ pc'["error"] = pc["error"]
  <2>1. "check" \in Labels
    BY DEF Labels
  <2> QED BY <1>0, <1>2, <2>1, Moves DEF Threads
<1>5. /\ OnlyBatch(b) /\ batch'[b].last = batch[b].last /\ batch'[b].bufs = batch[b].bufs
      /\ batch'[b].progress = batch[b].progress /\ batch'[b].bufsDone = batch[b].bufsDone
      /\ batch'[b].shutterDone
  BY <1>0, <1>1, <1>3, BatchFields DEF Types, Batch, OnlyBatch
<1>6. Live' = Live /\ Live \subseteq Frames /\ \A a \in Live : a # b => batch'[a] = batch[a]
  BY <1>0, <1>1, <1>5, LiveBatches DEF Live, OnlyBatch
<1>7. \A a \in Live : a > b => ~batch[a].shutterDone
  <2>1. AtLast(Shutter, b) /\ Shutter \in Strict
    BY <1>1 DEF AtLast, Strict
  <2>2. Newest(Shutter, batch[b].last)
    BY <1>0, <2>1, CarrierNewest DEF IInv
  <2>3. \A a \in Live : a > b => ~DoneLane(Shutter, a)
    <3> SUFFICES ASSUME NEW a \in Live, a > b PROVE ~DoneLane(Shutter, a)
      OBVIOUS
    <3>1. b < a
      BY <1>0, <1>6, Constants
    <3> QED BY <1>0, <2>1, <2>2, <3>1, LaterUnsent
  <2> QED BY <2>3 DEF DoneLane
<1>8. WillCheck(b)'
  <2>1. \A a \in Live : a > b => ~batch'[a].shutterDone
    BY <1>0, <1>6, <1>7, Constants
  <2> QED BY <1>2, <1>4, <1>5, <1>6, <2>1 DEF WillCheck, ShutterLooks
<1>9. ASSUME NEW a \in Live, a # b
      PROVE  /\ ~ShutterLooks(a)
             /\ ResultLooks(a) => ResultLooks(a)'
             /\ ResultsDone(b)' => ResultsDone(b)
             /\ ErrorTakes(a) => ErrorTakes(a)'
  BY <1>1, <1>2, <1>4, <1>5, <1>6, <1>9
     DEF ShutterLooks, ResultLooks, ResultsDone, ErrorTakes
<1>10. ASSUME NEW a \in Live, NEW l \in LanesOf(a), DoneLane(l, a) \/ AtLast(l, a)
       PROVE  DoneLane(l, a)' \/ AtLast(l, a)'
  <2>1. DoneLane(l, a) => DoneLane(l, a)'
    BY <1>5, <1>6 DEF DoneLane
  <2>2. CASE l = Shutter /\ pc["shutter"] = "queue" /\ cur["shutter"].frame = batch[a].last
    <3>1. a = b
      BY <1>0, <2>2, BearersBatch
    <3> QED BY <1>5, <2>2, <3>1 DEF DoneLane
  <2>3. CASE AtLast(l, a) /\ ~(l = Shutter /\ pc["shutter"] = "queue" /\ cur["shutter"].frame = batch[a].last)
    BY <1>2, <1>4, <1>5, <1>6, <2>3 DEF AtLast, Carries
  <2> QED BY <1>10, <2>1, <2>2, <2>3
<1> QED BY <1>1, <1>5, <1>8, <1>9, <1>10, OneEnds

LEMMA QueueShutterQ ==
  ASSUME QInv, IInv', [Contract!Next]_(Contract!vars), QueueShutter
  PROVE  QInv'
<1>0. IInv /\ Types /\ Deque
  BY DEF QInv, IInv
<1>1. PICK b \in Frames : b = cur["shutter"].batch
  BY <1>0 DEF QueueShutter, IInv, Workers
<1>2. /\ pc["shutter"] = "queue" /\ (b \in Live \/ batch[b].removed)
      /\ mInflightBatches' = mInflightBatches /\ sent' = sent
  BY <1>0, <1>1 DEF QueueShutter, IInv, Workers
<1>3. CASE ~FallsBack(b) /\ IsLast("shutter")
  BY <1>1, <1>2, <1>3, LastShutterQ DEF FallsBack, IsLast
<1>4. CASE FallsBack(b) \/ ~IsLast("shutter")
  <2>1. Done("shutter") /\ (batch' = batch \/ \E s : batch' = [batch EXCEPT ![b].shutters = s])
    BY <1>1, <1>4 DEF QueueShutter
  <2>2. Live' = Live /\ Live \subseteq Frames
    BY <1>0, <1>2, LiveBatches DEF Live
  <2>3. \A a \in Live : SameEnds(a)
    <3>1. CASE batch' = batch
      BY <3>1 DEF SameEnds
    <3>2. ASSUME NEW s, batch' = [batch EXCEPT ![b].shutters = s]
          PROVE  \A a \in Live : SameEnds(a)
      <4>1. /\ \A a \in Frames \ {b} : batch'[a] = batch[a]
            /\ batch'[b] = [batch[b] EXCEPT !.shutters = s]
        BY <1>0, <3>2 DEF Types
      <4>2. batch[b] \in Batch
        BY <1>0, BatchFields
      <4>3. /\ batch'[b].last = batch[b].last /\ batch'[b].bufs = batch[b].bufs
            /\ batch'[b].shutterDone = batch[b].shutterDone /\ batch'[b].progress = batch[b].progress
            /\ batch'[b].bufsDone = batch[b].bufsDone
        BY <4>1, <4>2 DEF Batch
      <4> QED BY <2>2, <4>1, <4>3 DEF SameEnds
    <3> QED BY <2>1, <3>1, <3>2
  <2>4. /\ pc'["result"] = pc["result"] /\ cur'["result"] = cur["result"]
        /\ pc'["error"] = pc["error"]
    BY <1>0, <2>1, DoneMoves DEF OnlyMoves, Threads
  <2>5. ASSUME NEW a \in Live
        PROVE  cur["shutter"].frame # batch[a].last
    <3>1. cur["shutter"].frame = batch[a].last => b = a
      BY <1>0, <1>1, <1>2, BearersBatch
    <3> QED BY <1>0, <1>1, <1>4, <3>1 DEF Deque, FallsBack, IsLast
  <2>6. ASSUME NEW a \in Live
        PROVE  /\ ShutterLooks(a) => ShutterLooks(a)'
               /\ ResultLooks(a) => ResultLooks(a)'
               /\ ErrorTakes(a) => ErrorTakes(a)'
               /\ \A l \in LanesOf(a) : AtLast(l, a) => AtLast(l, a)'
    BY <1>2, <2>3, <2>4, <2>5 DEF SameEnds, ShutterLooks, ResultLooks, ErrorTakes, AtLast, Carries
  <2> QED BY <1>2, <2>2, <2>3, <2>6, NothingEnds
<1> QED BY <1>3, <1>4

\* The results' thread has emptied lanes of its batch at the end of it; if that completes the
\* batch, no later one has its results.
LEMMA ResultEndsQ ==
  ASSUME QInv, IInv', [Contract!Next]_(Contract!vars), NEW b \in Live, b = cur["result"].batch,
         pc["result"] \in {"metadata", "buffers"}, pc'["result"] \in {"buffers", "unlock"},
         OnlyMoves("result"), cur' = cur, sent' = sent, OnlyBatch(b),
         batch'[b].last = batch[b].last, DOMAIN batch'[b].bufs = DOMAIN batch[b].bufs,
         batch'[b].shutterDone = batch[b].shutterDone,
         ResultsDone(b)' /\ ~ResultsDone(b) => \A a \in Live : a > b => ~ResultsDone(a),
         \A l \in LanesOf(b) : DoneLane(l, b) => DoneLane(l, b)',
         AtLast(NumPartial, b) => DoneLane(NumPartial, b)',
         \A s \in DOMAIN batch[b].bufs : AtLast(s, b) => AtLast(s, b)' \/ DoneLane(s, b)'
  PROVE  QInv'
<1>0. IInv /\ Types /\ b \in Frames /\ cur["result"].frame = batch[b].last
  BY LiveBatches DEF QInv, IInv, Workers
<1>1. /\ pc'["shutter"] = pc["shutter"] /\ pc'["error"] = pc["error"]
      /\ mInflightBatches' = mInflightBatches
  BY DEF OnlyMoves, Threads, OnlyBatch
<1>2. Live' = Live /\ Live \subseteq Frames /\ \A a \in Live : a # b => batch'[a] = batch[a]
  BY <1>0, <1>1, LiveBatches DEF Live, OnlyBatch
<1>3. \A a \in Live : a # b => cur["result"].frame # batch[a].last
  BY <1>0, Ordered DEF IInv
<1>4. ResultLooks(b)'
  BY <1>0 DEF ResultLooks
<1>5. ASSUME AllDelivered(b)'
      PROVE  WillCheck(b)'
  <2>1. ResultsDone(b)'
    BY <1>5 DEF AllDelivered, ResultsDone
  <2>2. CASE ~ResultsDone(b)
    <3>1. \A a \in Live : a > b => ~ResultsDone(a)'
      BY <1>0, <1>2, <2>1, <2>2, Constants DEF ResultsDone
    <3> QED BY <1>2, <1>4, <3>1 DEF WillCheck
  <2>3. CASE ResultsDone(b)
    <3>1. AllDelivered(b)
      BY <1>5, <2>3 DEF AllDelivered, ResultsDone
    <3>2. WillCheck(b)
      BY <3>1 DEF QInv, Awaited
    <3>3. \A a \in Live : a > b => (batch'[a].shutterDone = batch[a].shutterDone)
                                     /\ (ResultsDone(a)' <=> ResultsDone(a))
      BY <1>0, <1>2, Constants DEF ResultsDone
    <3>4. /\ ShutterLooks(b) => ShutterLooks(b)'
          /\ ErrorTakes(b) => ErrorTakes(b)'
      BY <1>1 DEF ShutterLooks, ErrorTakes
    <3> QED BY <1>2, <1>4, <3>2, <3>3, <3>4 DEF WillCheck
  <2> QED BY <2>2, <2>3
<1>6. ASSUME NEW a \in Live, a # b
      PROVE  /\ ShutterLooks(a) => ShutterLooks(a)' /\ (batch'[b].shutterDone => batch[b].shutterDone)
             /\ ~ResultLooks(a)
             /\ ErrorTakes(a) => ErrorTakes(a)'
  BY <1>1, <1>2, <1>3, <1>6 DEF ShutterLooks, ResultLooks, ErrorTakes
<1>7. ASSUME NEW a \in Live, NEW l \in LanesOf(a), DoneLane(l, a) \/ AtLast(l, a)
      PROVE  DoneLane(l, a)' \/ AtLast(l, a)'
  <2>1. CASE l = Shutter
    <3>1. batch'[a].last = batch[a].last /\ batch'[a].shutterDone = batch[a].shutterDone
      BY <1>2
    <3>2. Shutter # NumPartial /\ Shutter \notin Streams
      BY Constants DEF Shutter
    <3>3. a # b => batch'[a].bufsDone = batch[a].bufsDone
      BY <1>2
    <3>4. DoneLane(l, a) => DoneLane(l, a)'
      BY <1>2, <1>7 DEF DoneLane
    <3> QED BY <1>1, <1>7, <2>1, <3>1, <3>2, <3>4 DEF AtLast
  <2>2. CASE a # b /\ l # Shutter
    BY <1>2, <1>3, <1>7, <2>2 DEF DoneLane, AtLast
  <2>3. CASE a = b /\ l # Shutter
    BY <1>7, <2>3 DEF LanesOf
  <2> QED BY <2>1, <2>2, <2>3
<1> QED BY <1>5, <1>6, <1>7, OneEnds, SMTT(30)

LEMMA SendMetadataQ ==
  ASSUME QInv, IInv', [Contract!Next]_(Contract!vars), SendMetadata
  PROVE  QInv'
<1>0. IInv /\ Types
  BY DEF QInv, IInv
<1>1. PICK b \in Live : b = cur["result"].batch
  BY <1>0 DEF SendMetadata, IInv, Workers, Holding
<1>2. PICK partial \in 0..NumPartial : partial = cur["result"].partial
  BY <1>0 DEF Types, Message, Threads
<1>3. /\ pc["result"] = "metadata" /\ Goto("result", "buffers") /\ cur' = cur
      /\ IF partial > 0 THEN SendBatchMetadata("result", b, partial) ELSE UNCHANGED <<batch, dataVars>>
      /\ mInflightBatches' = mInflightBatches /\ sent' = sent
  BY <1>1, <1>2 DEF SendMetadata
<1>4. /\ b \in Frames /\ batch[b] \in Batch /\ batch[b].progress \in 0..NumPartial
      /\ cur["result"].frame = batch[b].last
      /\ partial > 0 => Newest(partial, batch[b].last)
  <2>1. b \in Frames
    BY <1>0, LiveBatches
  <2> QED BY <1>0, <1>1, <1>2, <1>3, <2>1, BatchFields DEF IInv, Workers, Holding
<1>5. \/ batch' = batch /\ (partial = 0 \/ partial <= batch[b].progress)
      \/ /\ partial > batch[b].progress
         /\ \E mds : batch' = [batch EXCEPT ![b].mds = mds, ![b].progress = partial]
  <2>1. CASE partial > 0 /\ ~(partial <= batch[b].progress)
    <3>1. \E mds : batch' = [batch EXCEPT ![b].mds = mds, ![b].progress = partial]
      BY <1>3, <2>1 DEF SendBatchMetadata
    <3>2. partial > batch[b].progress
      BY <1>4, <2>1, Constants
    <3> QED BY <3>1, <3>2
  <2>2. CASE partial > 0 /\ partial <= batch[b].progress
    BY <1>3, <2>2 DEF SendBatchMetadata
  <2>3. CASE ~(partial > 0)
    <3>1. partial = 0
      BY <2>3, Constants
    <3> QED BY <1>3, <2>3, <3>1
  <2> QED BY <2>1, <2>2, <2>3
<1>6. /\ OnlyBatch(b) /\ batch'[b].last = batch[b].last /\ batch'[b].bufs = batch[b].bufs
      /\ batch'[b].shutterDone = batch[b].shutterDone /\ batch'[b].bufsDone = batch[b].bufsDone
      /\ batch'[b].progress = batch[b].progress
           \/ (partial > batch[b].progress /\ batch'[b].progress = partial)
  <2>1. CASE batch' = batch
    BY <1>3, <2>1 DEF OnlyBatch
  <2>2. ASSUME NEW mds, batch' = [batch EXCEPT ![b].mds = mds, ![b].progress = partial],
               partial > batch[b].progress
        PROVE  /\ OnlyBatch(b) /\ batch'[b].last = batch[b].last /\ batch'[b].bufs = batch[b].bufs
               /\ batch'[b].shutterDone = batch[b].shutterDone
               /\ batch'[b].bufsDone = batch[b].bufsDone /\ batch'[b].progress = partial
    <3>1. batch \in [Frames -> Batch]
      BY <1>0 DEF Types
    <3> QED BY <1>3, <1>4, <2>2, <3>1 DEF Batch, OnlyBatch
  <2> QED BY <1>5, <2>1, <2>2
<1>7. pc'["result"] = "buffers" /\ OnlyMoves("result")
  <2>1. "buffers" \in Labels /\ "result" \in Threads
    BY DEF Labels, Holding, Threads
  <2> QED BY <1>0, <1>3, <2>1, Moves DEF OnlyMoves
<1>8. ASSUME ResultsDone(b)', ~ResultsDone(b), NEW a \in Live, a > b
      PROVE  ~ResultsDone(a)
  <2>1. partial = NumPartial
    BY <1>2, <1>4, <1>6, <1>8, Constants DEF ResultsDone
  <2>2. Newest(NumPartial, batch[b].last) /\ NumPartial \in Strict
    BY <1>4, <2>1, Constants DEF Strict
  <2>3. b < a
    BY <1>0, <1>8, Ordered DEF IInv
  <2>4. ~DoneLane(NumPartial, a)
    BY <1>0, <2>2, <2>3, LaterUnsent
  <2>5. batch[a].progress \in 0..NumPartial
    BY <1>0, LiveBatches, BatchFields
  <2> QED BY <2>4, <2>5, Constants DEF DoneLane, ResultsDone
<1>9. batch[b].progress = NumPartial => batch'[b].progress = NumPartial
  BY <1>2, <1>4, <1>6, Constants
<1>10. ASSUME AtLast(NumPartial, b)
       PROVE  DoneLane(NumPartial, b)'
  <2>1. partial = NumPartial
    BY <1>2, <1>3, <1>10, Constants DEF AtLast, Shutter
  <2>2. CASE batch' = batch /\ (partial = 0 \/ partial <= batch[b].progress)
    <3>1. batch[b].progress = NumPartial
      BY <1>4, <2>1, <2>2, Constants
    <3> QED BY <2>2, <3>1 DEF DoneLane
  <2>3. CASE partial > batch[b].progress
                 /\ \E mds : batch' = [batch EXCEPT ![b].mds = mds, ![b].progress = partial]
    <3>1. PICK mds : batch' = [batch EXCEPT ![b].mds = mds, ![b].progress = partial]
      BY <2>3
    <3>2. batch'[b].progress = NumPartial
      BY <1>0, <1>4, <2>1, <3>1 DEF Types, Batch
    <3> QED BY <3>2 DEF DoneLane
  <2> QED BY <1>5, <2>2, <2>3
<1>11. \A l \in LanesOf(b) : DoneLane(l, b) => DoneLane(l, b)'
  BY <1>6, <1>9 DEF DoneLane
<1>12. \A s \in DOMAIN batch[b].bufs : AtLast(s, b) => AtLast(s, b)'
  <2>1. \A s \in DOMAIN batch[b].bufs : s \in Streams /\ s # Shutter /\ s # NumPartial
    BY <1>0, <1>4, BatchFields, Constants DEF Shutter
  <2> QED BY <1>3, <1>6, <1>7, <2>1 DEF AtLast, Carries
<1> QED BY <1>1, <1>3, <1>6, <1>7, <1>8, <1>10, <1>11, <1>12, ResultEndsQ

LEMMA SendBuffersQ ==
  ASSUME QInv, IInv', [Contract!Next]_(Contract!vars), SendBuffers
  PROVE  QInv'
<1>0. IInv /\ Types
  BY DEF QInv, IInv
<1>1. PICK b \in Live : b = cur["result"].batch
  BY <1>0 DEF SendBuffers, IInv, Workers, Holding
<1>2. PICK S : S = cur["result"].filled
  OBVIOUS
<1>3. /\ pc["result"] = "buffers" /\ Goto("result", "unlock") /\ cur' = cur
      /\ IF S # {} THEN SendBatchBuffers("result", b, S) ELSE UNCHANGED <<batch, dataVars>>
      /\ mInflightBatches' = mInflightBatches /\ sent' = sent
  BY <1>1, <1>2 DEF SendBuffers
<1>4. /\ b \in Frames /\ batch[b] \in Batch /\ batch \in [Frames -> Batch]
      /\ cur["result"].frame = batch[b].last
      /\ S \subseteq DOMAIN batch[b].bufs /\ S \subseteq Streams
      /\ DOMAIN batch[b].bufs \subseteq Streams
      /\ \A s \in S : Newest(s, batch[b].last)
  <2>1. b \in Frames
    BY <1>0, LiveBatches
  <2>2. DOMAIN batch[b].bufs \subseteq Streams /\ batch[b] \in Batch
    BY <1>0, <2>1, BatchFields
  <2> QED BY <1>0, <1>1, <1>2, <1>3, <2>1, <2>2 DEF IInv, Workers, Types
<1>5. /\ OnlyBatch(b) /\ batch'[b].last = batch[b].last
      /\ DOMAIN batch'[b].bufs = DOMAIN batch[b].bufs
      /\ batch'[b].shutterDone = batch[b].shutterDone /\ batch'[b].progress = batch[b].progress
      /\ batch'[b].bufsDone = batch[b].bufsDone \cup S
  <2>1. CASE S = {}
    BY <1>3, <2>1 DEF OnlyBatch
  <2>2. CASE S # {}
    <3>1. SendBatchBuffers("result", b, S) /\ S \in SUBSET DOMAIN batch[b].bufs
      BY <1>3, <1>4, <2>2
    <3> QED BY <1>0, <1>3, <3>1, BuffersSent
  <2> QED BY <2>1, <2>2
<1>6. pc'["result"] = "unlock" /\ OnlyMoves("result")
  <2>1. "unlock" \in Labels /\ "result" \in Threads
    BY DEF Labels, Holding, Threads
  <2> QED BY <1>0, <1>3, <2>1, Moves DEF OnlyMoves
<1>7. ASSUME NEW s \in S
      PROVE  AtLast(s, b) /\ s \in Strict
  BY <1>2, <1>3, <1>4 DEF AtLast, Carries, Strict
<1>8. ASSUME ResultsDone(b)', ~ResultsDone(b), NEW a \in Live, a > b
      PROVE  ~ResultsDone(a)
  <2>1. PICK s \in S : s \notin batch[b].bufsDone
    BY <1>5, <1>8 DEF ResultsDone
  <2>2. ~Handled(<<s, batch[b].last>>)
    BY <1>0, <1>4, <1>7, <2>1, CarriedUnhandled
  <2>3. b < a
    BY <1>0, <1>8, Ordered DEF IInv
  <2>4. DOMAIN batch[a].bufs = DOMAIN batch[b].bufs
    BY <1>4, <2>1, <2>2, <2>3 DEF QInv, OldStreams
  <2>5. ~DoneLane(s, a)
    BY <1>0, <1>4, <1>7, <2>1, <2>3, LaterUnsent
  <2> QED BY <1>4, <2>1, <2>4, <2>5 DEF DoneLane, ResultsDone
<1>9. ~AtLast(NumPartial, b)
  BY <1>3, Constants DEF AtLast, Shutter
<1>10. \A l \in LanesOf(b) : DoneLane(l, b) => DoneLane(l, b)'
  BY <1>5 DEF DoneLane
<1>11. \A s \in DOMAIN batch[b].bufs : AtLast(s, b) => DoneLane(s, b)'
  <2>1. \A s \in DOMAIN batch[b].bufs : s \in Streams /\ s # Shutter /\ s # NumPartial
    BY <1>4, Constants DEF Shutter
  <2> QED BY <1>2, <1>3, <1>5, <2>1 DEF AtLast, Carries, DoneLane
<1> QED BY <1>1, <1>3, <1>5, <1>6, <1>8, <1>9, <1>10, <1>11, ResultEndsQ

\* The flush is at the first batch, and takes it out.
LEMMA FlushEndsQ ==
  ASSUME QInv, IInv', [Contract!Next]_(Contract!vars), NEW h \in Live, h = Head(mInflightBatches),
         NEW label \in Flushing, Goto("error", label), cur' = cur, sent' = sent, OnlyBatch(h),
         batch'[h].last = batch[h].last, DOMAIN batch'[h].bufs = DOMAIN batch[h].bufs,
         \A l \in LanesOf(h) : DoneLane(l, h) => DoneLane(l, h)'
  PROVE  QInv'
<1>0. IInv /\ Types /\ h \in Frames /\ mInflightBatches' = mInflightBatches
  BY LiveBatches DEF QInv, IInv, OnlyBatch
<1>1. /\ pc'["error"] \in Flushing
      /\ pc'["shutter"] = pc["shutter"] /\ pc'["result"] = pc["result"]
  <2>1. label \in Labels
    BY DEF Labels
  <2> QED BY <1>0, <2>1, Moves DEF Threads
<1>2. Live' = Live /\ Live \subseteq Frames /\ \A a \in Live : a # h => batch'[a] = batch[a]
  BY <1>0, LiveBatches DEF Live, OnlyBatch
<1>3. WillCheck(h)'
  BY <1>0, <1>1 DEF WillCheck, ErrorTakes
<1>4. \A a \in Live : a # h => ~(a < h)
  <2>1. \A a \in Live : a # h => batch[h].last < a /\ h <= batch[h].last /\ a \in Nat
                                   /\ h \in Nat /\ batch[h].last \in Nat
    BY <1>0, Ordered DEF IInv
  <2> QED BY <2>1
<1>5. ASSUME NEW a \in Live, a # h
      PROVE  /\ ShutterLooks(a) => ShutterLooks(a)'
             /\ ResultLooks(a) => ResultLooks(a)'
             /\ ~ErrorTakes(a)
  BY <1>1, <1>2, <1>5 DEF ShutterLooks, ResultLooks, ErrorTakes
<1>6. ASSUME NEW a \in Live, NEW l \in LanesOf(a), DoneLane(l, a) \/ AtLast(l, a)
      PROVE  DoneLane(l, a)' \/ AtLast(l, a)'
  <2>1. batch'[a].last = batch[a].last
    BY <1>2
  <2>2. AtLast(l, a) => AtLast(l, a)'
    BY <1>1, <2>1 DEF AtLast, Carries
  <2>3. DoneLane(l, a) => DoneLane(l, a)'
    BY <1>2 DEF DoneLane
  <2> QED BY <1>6, <2>2, <2>3
<1> QED BY <1>3, <1>4, <1>5, <1>6, OneEnds

LEMMA FlushQ ==
  ASSUME QInv, IInv', [Contract!Next]_(Contract!vars), FlushShutters \/ FlushBuffers \/ FlushMetadata
  PROVE  QInv'
<1>0. IInv /\ Types
  BY DEF QInv, IInv
<1>1. mInflightBatches # <<>>
  BY <1>0 DEF FlushShutters, FlushBuffers, FlushMetadata, IInv, Locks, Flushing
<1>2. PICK h \in Live : h = Head(mInflightBatches)
  BY <1>0, <1>1, LiveBatches
<1>3. /\ h \in Frames /\ batch[h] \in Batch /\ batch \in [Frames -> Batch]
      /\ batch[h].progress \in 0..NumPartial
  <2>1. h \in Frames
    BY <1>0, LiveBatches
  <2> QED BY <1>0, <2>1, BatchFields DEF Types
<1>4. /\ mInflightBatches' = mInflightBatches /\ cur' = cur /\ sent' = sent
      /\ \E label \in Flushing : Goto("error", label)
  BY DEF FlushShutters, FlushBuffers, FlushMetadata, Flushing
<1>5. /\ OnlyBatch(h) /\ batch'[h].last = batch[h].last
      /\ DOMAIN batch'[h].bufs = DOMAIN batch[h].bufs
      /\ batch[h].shutterDone => batch'[h].shutterDone
      /\ batch[h].progress = NumPartial => batch'[h].progress = NumPartial
      /\ batch[h].bufsDone \subseteq batch'[h].bufsDone
  <2>1. CASE FlushShutters
    <3>1. PICK s : batch' = [batch EXCEPT ![h].shutters = s, ![h].shutterDone = TRUE]
      BY <1>2, <1>3, <2>1 DEF FlushShutters
    <3> QED BY <1>3, <1>4, <3>1 DEF Batch, OnlyBatch
  <2>2. CASE FlushBuffers
    <3>1. SendBatchBuffers("error", h, mStreamsToBatch)
      BY <1>2, <2>2 DEF FlushBuffers
    <3>2. CASE mStreamsToBatch \subseteq DOMAIN batch[h].bufs
      <4>1. mStreamsToBatch \in SUBSET DOMAIN batch[h].bufs /\ "error" \in {"result", "error"}
        BY <3>2
      <4>2. /\ OnlyBatch(h) /\ batch'[h].last = batch[h].last
            /\ DOMAIN batch'[h].bufs = DOMAIN batch[h].bufs
            /\ batch'[h].shutterDone = batch[h].shutterDone
            /\ batch'[h].progress = batch[h].progress
            /\ batch'[h].bufsDone = batch[h].bufsDone \cup mStreamsToBatch
        BY <1>0, <1>4, <3>1, <4>1, BuffersSent
      <4> QED BY <4>2
    <3>3. CASE ~(mStreamsToBatch \subseteq DOMAIN batch[h].bufs)
      <4>1. batch' = batch
        BY <3>1, <3>3 DEF SendBatchBuffers
      <4> QED BY <1>4, <4>1 DEF OnlyBatch
    <3> QED BY <3>2, <3>3
  <2>3. CASE FlushMetadata
    <3>1. SendBatchMetadata("error", h, NumPartial)
      BY <1>2, <2>3 DEF FlushMetadata
    <3>2. CASE NumPartial <= batch[h].progress
      <4>1. batch' = batch
        BY <3>1, <3>2 DEF SendBatchMetadata
      <4> QED BY <1>4, <4>1 DEF OnlyBatch
    <3>3. CASE ~(NumPartial <= batch[h].progress)
      <4>1. PICK m : batch' = [batch EXCEPT ![h].mds = m, ![h].progress = NumPartial]
        BY <1>3, <3>1, <3>3 DEF SendBatchMetadata
      <4> QED BY <1>3, <1>4, <4>1 DEF Batch, OnlyBatch
    <3> QED BY <3>2, <3>3
  <2> QED BY <2>1, <2>2, <2>3
<1>6. \A l \in LanesOf(h) : DoneLane(l, h) => DoneLane(l, h)'
  BY <1>5 DEF DoneLane
<1> QED BY <1>2, <1>4, <1>5, <1>6, FlushEndsQ

\* The look at the first batch: if it is complete it goes, and no other is complete.
LEMMA CheckFirstBatchQ ==
  ASSUME QInv, IInv', [Contract!Next]_(Contract!vars),
         NEW t \in {"shutter", "result"}, CheckFirstBatch(t)
  PROVE  QInv'
<1>0. IInv /\ Types /\ Deque
  BY DEF QInv, IInv
<1>1. pc[t] = "check" /\ t \in Threads /\ mLock = "free" /\ Done(t) /\ sent' = sent
  BY DEF CheckFirstBatch, Threads
<1>2. pc["error"] \notin Flushing
  BY <1>0, <1>1 DEF IInv, Locks
<1>3. OnlyMoves(t)
  BY <1>0, <1>1, DoneMoves
<1>4. \A b \in Live : AllDelivered(b) => b = Head(mInflightBatches)
  <2> SUFFICES ASSUME NEW b \in Live, AllDelivered(b), b # Head(mInflightBatches) PROVE FALSE
    OBVIOUS
  <2>1. PICK h \in Live : h = Head(mInflightBatches)
    <3>1. mInflightBatches # <<>>
      BY <1>0 DEF Live, Types
    <3> QED BY <1>0, <3>1, LiveBatches
  <2>2. h < b
    <3>1. batch[h].last < b /\ h <= batch[h].last /\ h \in Nat /\ b \in Nat /\ batch[h].last \in Nat
      BY <1>0, <2>1, Ordered
    <3> QED BY <3>1
  <2> QED BY <1>2, <2>2, FirstCompleteFirst
<1>5. \/ /\ mInflightBatches # <<>> /\ AllDelivered(Head(mInflightBatches))
         /\ batch' = [batch EXCEPT ![Head(mInflightBatches)].removed = TRUE]
         /\ mInflightBatches' = Tail(mInflightBatches)
      \/ /\ ~(mInflightBatches # <<>> /\ AllDelivered(Head(mInflightBatches)))
         /\ batch' = batch /\ mInflightBatches' = mInflightBatches
  BY DEF CheckFirstBatch, batchVars
<1>6. /\ Live' \subseteq Live /\ \A b \in Live' : batch'[b] = batch[b]
      /\ \A b \in Live' : ~AllDelivered(b)
  <2>1. CASE /\ mInflightBatches # <<>> /\ AllDelivered(Head(mInflightBatches))
             /\ batch' = [batch EXCEPT ![Head(mInflightBatches)].removed = TRUE]
             /\ mInflightBatches' = Tail(mInflightBatches)
    <3>1. PICK h : h = Head(mInflightBatches)
      OBVIOUS
    <3>2. h \in Live /\ h \in Frames /\ Live' = Live \ {h} /\ Live \subseteq Frames
      BY <1>0, <2>1, <3>1, HeadGone, LiveBatches
    <3>3. \A b \in Frames \ {h} : batch'[b] = batch[b]
      BY <1>0, <2>1, <3>1 DEF Types
    <3> QED BY <1>4, <3>1, <3>2, <3>3
  <2>2. CASE /\ ~(mInflightBatches # <<>> /\ AllDelivered(Head(mInflightBatches)))
             /\ batch' = batch /\ mInflightBatches' = mInflightBatches
    <3>1. Live' = Live
      BY <2>2 DEF Live
    <3>2. ASSUME NEW b \in Live PROVE ~AllDelivered(b)
      <4>1. mInflightBatches # <<>>
        BY <1>0 DEF Live, Types
      <4> QED BY <1>4, <2>2, <4>1
    <3> QED BY <2>2, <3>1, <3>2
  <2> QED BY <1>5, <2>1, <2>2
<1>7. SameBatches
  BY <1>6 DEF SameBatches
<1>8. Awaited'
  BY <1>6 DEF Awaited, AllDelivered
<1>9. Reached'
  <2>1. ASSUME NEW b \in Live', NEW l \in LanesOf(b), DoneLane(l, b) \/ AtLast(l, b)
        PROVE  DoneLane(l, b)' \/ AtLast(l, b)'
    <3>1. \A u \in {"shutter", "result"} \ {t} : pc'[u] = pc[u] /\ cur'[u] = cur[u]
      BY <1>3 DEF OnlyMoves, Threads
    <3>2. AtLast(l, b) => AtLast(l, b)'
      BY <1>1, <1>6, <3>1 DEF AtLast, Carries
    <3>3. DoneLane(l, b) => DoneLane(l, b)'
      BY <1>6 DEF DoneLane
    <3> QED BY <2>1, <3>2, <3>3
  <2> QED BY <1>1, <1>7, <2>1, ReachedKept
<1> QED BY <1>7, <1>8, <1>9, OldStreamsKept DEF QInv

\* The new batch is the last, and none of its pieces has come.
LEMMA RegisterBatchQ ==
  ASSUME QInv, IInv', [Contract!Next]_(Contract!vars), RegisterBatch
  PROVE  QInv'
<1>0. IInv /\ Types /\ Deque /\ Client
  BY DEF QInv, IInv
<1>1. PICK n \in Frames : n = burst.first
  BY <1>0 DEF RegisterBatch, Client
<1>2. /\ call = "register" /\ mLock = "free"
      /\ batch' = [batch EXCEPT ![n] = NewBatch(n, burst.last)]
      /\ mInflightBatches' = Append(mInflightBatches, n)
      /\ UNCHANGED <<got, lost, mStreamsToBatch, pc, cur, sent>>
  BY <1>1 DEF RegisterBatch, dataVars
<1>3. /\ n \in Nat /\ burst.last \in Nat /\ n <= burst.last
      /\ \A i \in sent : i[2] < n
  BY <1>0, <1>1, <1>2, Constants DEF Client, Types
<1>4. \A b \in Live : b \in Frames /\ b \in Nat /\ b # n /\ b < n
  BY <1>0, <1>1, <1>2, <1>3, Ordered, LiveBatches DEF Deque, Settled
<1>5. /\ \A b \in Live : batch'[b] = batch[b]
      /\ batch'[n] = NewBatch(n, burst.last)
  BY <1>0, <1>2, <1>4 DEF Types
<1>6. /\ batch'[n].last = burst.last /\ ~batch'[n].shutterDone /\ batch'[n].progress = 0
      /\ DOMAIN batch'[n].bufs = mStreamsToBatch
  BY <1>5 DEF NewBatch
<1>7. Live' = Live \cup {n}
  <2>1. /\ mInflightBatches \in Seq(Frames) /\ Len(mInflightBatches) \in Nat
        /\ DOMAIN mInflightBatches = 1..Len(mInflightBatches)
        /\ DOMAIN mInflightBatches' = 1..(Len(mInflightBatches) + 1)
        /\ \A k \in DOMAIN mInflightBatches : mInflightBatches'[k] = mInflightBatches[k]
        /\ mInflightBatches'[Len(mInflightBatches) + 1] = n
    BY <1>0, <1>2 DEF Types
  <2> QED BY <2>1 DEF Live
<1>8. pc["error"] \notin Flushing
  BY <1>0, <1>2 DEF IInv, Locks
<1>9. ~AllDelivered(n)' /\ ~ResultsDone(n)'
  BY <1>6, Constants DEF AllDelivered, ResultsDone
<1>10. ASSUME NEW b \in Live, AllDelivered(b)'
       PROVE  WillCheck(b)'
  <2>1. AllDelivered(b)
    BY <1>5, <1>10 DEF AllDelivered
  <2>2. WillCheck(b) /\ ~ErrorTakes(b)
    BY <1>8, <2>1 DEF QInv, Awaited, ErrorTakes
  <2>3. /\ ShutterLooks(b) => ShutterLooks(b)'
        /\ ResultLooks(b) => ResultLooks(b)'
    BY <1>2, <1>5 DEF ShutterLooks, ResultLooks
  <2>4. CASE ShutterLooks(b) /\ \A a \in Live : a > b => ~batch[a].shutterDone
    <3>1. \A a \in Live' : a > b => ~batch'[a].shutterDone
      BY <1>4, <1>5, <1>6, <1>7, <2>4
    <3> QED BY <2>3, <2>4, <3>1 DEF WillCheck
  <2>5. CASE ResultLooks(b) /\ \A a \in Live : a > b => ~ResultsDone(a)
    <3>1. \A a \in Live : ResultsDone(a)' <=> ResultsDone(a)
      BY <1>5 DEF ResultsDone
    <3>2. \A a \in Live' : a > b => ~ResultsDone(a)'
      BY <1>4, <1>7, <1>9, <2>5, <3>1
    <3> QED BY <2>3, <2>5, <3>2 DEF WillCheck
  <2> QED BY <2>2, <2>4, <2>5 DEF WillCheck
<1>11. Awaited'
  BY <1>7, <1>9, <1>10 DEF Awaited
<1>12. Reached'
  <2>1. ASSUME NEW b \in Live, NEW l \in LanesOf(b), DoneLane(l, b) \/ AtLast(l, b)
        PROVE  DoneLane(l, b)' \/ AtLast(l, b)'
    BY <1>2, <1>5, <2>1 DEF DoneLane, AtLast, Carries
  <2>2. \A l : <<l, burst.last>> \notin sent
    BY <1>3
  <2>3. \A b \in Live : LanesOf(b)' = LanesOf(b) /\ batch'[b].last = batch[b].last
    BY <1>5 DEF LanesOf
  <2>4. ASSUME NEW b \in Live, NEW l \in LanesOf(b), <<l, batch[b].last>> \in sent
        PROVE  DoneLane(l, b)' \/ AtLast(l, b)'
    BY <2>1, <2>4 DEF QInv, Reached
  <2> QED BY <1>2, <1>6, <1>7, <2>2, <2>3, <2>4 DEF Reached
<1>13. OldStreams'
  <2>1. \A i : Handled(i)' <=> Handled(i)
    BY <1>2 DEF Handled
  <2>2. ASSUME NEW a \in Live, DOMAIN batch[a].bufs # mStreamsToBatch, NEW s \in DOMAIN batch[a].bufs
        PROVE  <<s, batch[a].last>> \in sent /\ Handled(<<s, batch[a].last>>)
    BY <1>0, <2>2 DEF IInv, Reconfigured
  <2>3. ASSUME NEW a \in Live, NEW b \in Live, a < b, DOMAIN batch[a].bufs # DOMAIN batch[b].bufs,
               NEW s \in DOMAIN batch[a].bufs
        PROVE  <<s, batch[a].last>> \in sent /\ Handled(<<s, batch[a].last>>)
    BY <2>3 DEF QInv, OldStreams
  <2>4. ASSUME NEW a \in Live', NEW b \in Live', a < b, DOMAIN batch'[a].bufs # DOMAIN batch'[b].bufs,
               NEW s \in DOMAIN batch'[a].bufs
        PROVE  (<<s, batch[a].last>> \in sent /\ Handled(<<s, batch[a].last>>))'
    <3>1. a \in Live
      <4>1. a # n
        BY <1>3, <1>4, <1>7, <2>4
      <4> QED BY <1>7, <4>1
    <3>2. batch'[a] = batch[a] /\ s \in DOMAIN batch[a].bufs
      BY <1>5, <2>4, <3>1
    <3>3. CASE b \in Live
      BY <1>2, <1>5, <2>1, <2>3, <2>4, <3>1, <3>2, <3>3
    <3>4. CASE b = n
      BY <1>2, <1>6, <2>1, <2>2, <2>4, <3>1, <3>2, <3>4
    <3> QED BY <1>7, <3>3, <3>4
  <2> QED BY <2>4 DEF OldStreams
<1> QED BY <1>11, <1>12, <1>13 DEF QInv

\* The bearer of a new piece finds the batch of its frame.
LEMMA ArrivesQ ==
  ASSUME QInv, IInv', [Contract!Next]_(Contract!vars), NEW t \in {"shutter", "result"},
         NEW f \in submitted, NEW partial, NEW items, Enter(t, f, partial, items, "queue"),
         \A i \in items : i[2] = f,
         t = "shutter" => \A i \in items : i[1] = Shutter,
         t = "result" => \A i \in items : i[1] # Shutter /\ (i[1] = NumPartial => partial = NumPartial)
  PROVE  QInv'
<1>0. IInv /\ Types /\ t \in Threads /\ f \in Frames /\ f \in Nat
  BY Constants DEF QInv, IInv, Types, Threads
<1>1. PICK m : /\ cur' = [cur EXCEPT ![t] = m]
               /\ m.frame = f /\ m.partial = partial /\ m.items = items
  <2> DEFINE message == [frame |-> f, batch |-> BatchOf(f), partial |-> partial,
                         items |-> items, filled |-> {}, idx |-> BatchIdx(f)]
  <2>1. cur' = [cur EXCEPT ![t] = message]
    BY DEF Enter
  <2>2. message.frame = f /\ message.partial = partial /\ message.items = items
    OBVIOUS
  <2> HIDE DEF message
  <2> QED BY <2>1, <2>2
<1>2. /\ pc[t] = "idle" /\ sent' = sent \cup items
      /\ Goto(t, IF BatchOf(f) = None THEN "single" ELSE "queue")
      /\ UNCHANGED <<batch, mInflightBatches>>
  BY DEF Enter, batchVars
<1>3. /\ pc'[t] = (IF BatchOf(f) = None THEN "single" ELSE "queue")
      /\ \A u \in Threads \ {t} : pc'[u] = pc[u] /\ cur'[u] = cur[u]
      /\ cur'[t] = m
  <2>1. {"single", "queue"} \subseteq Labels
    BY DEF Labels
  <2> QED BY <1>0, <1>1, <1>2, <2>1, Moves DEF Types
<1>4. Live' = Live /\ \A b \in Live : SameEnds(b) /\ LanesOf(b)' = LanesOf(b)
  BY <1>2 DEF Live, SameEnds, LanesOf
<1>5. pc'["error"] = pc["error"] /\ "shutter" # "result"
  BY <1>3 DEF Threads
<1>6. \A u \in {"shutter", "result"} \ {t} : pc'[u] = pc[u] /\ cur'[u] = cur[u]
  BY <1>3 DEF Threads
<1>7. ASSUME NEW b \in Live
      PROVE  /\ ShutterLooks(b) => ShutterLooks(b)'
             /\ ResultLooks(b) => ResultLooks(b)'
             /\ ErrorTakes(b) => ErrorTakes(b)'
             /\ \A l : AtLast(l, b) => AtLast(l, b)'
             /\ \A l : DoneLane(l, b) => DoneLane(l, b)'
  BY <1>2, <1>5, <1>6 DEF ShutterLooks, ResultLooks, ErrorTakes, AtLast, Carries, DoneLane
<1>8. Awaited'
  BY <1>4, <1>7, AwaitedKept
<1>9. Reached'
  <2>1. ASSUME NEW b \in Live, NEW l \in LanesOf(b), <<l, batch[b].last>> \in sent'
        PROVE  DoneLane(l, b)' \/ AtLast(l, b)'
    <3>1. CASE <<l, batch[b].last>> \in sent
      BY <1>7, <3>1 DEF QInv, Reached
    <3>2. CASE <<l, batch[b].last>> \in items
      <4>1. f = batch[b].last
        BY <3>2
      <4>2. BatchOf(f) # None
        <5>1. f \in FramesOf(b)
          BY <1>0, <4>1, Ordered DEF IInv
        <5> QED BY <1>0, <5>1, BatchFound
      <4>3. pc'[t] = "queue" /\ cur'[t].frame = batch[b].last /\ batch'[b].last = batch[b].last
        BY <1>1, <1>2, <1>3, <4>1, <4>2
      <4>4. CASE t = "shutter"
        <5>1. l = Shutter
          BY <3>2, <4>4
        <5> QED BY <4>3, <4>4, <5>1 DEF AtLast
      <4>5. CASE t = "result"
        <5>1. l # Shutter /\ (l = NumPartial => cur'["result"].partial = NumPartial)
          BY <1>1, <1>3, <3>2, <4>5
        <5>2. l = NumPartial \/ l \in Streams
          <6>1. DOMAIN batch[b].bufs \subseteq Streams
            BY <1>0, LiveBatches, BatchFields
          <6> QED BY <5>1, <6>1 DEF LanesOf
        <5>3. <<l, cur'["result"].frame>> \in cur'["result"].items
          BY <1>1, <1>3, <3>2, <4>1, <4>5
        <5> QED BY <4>3, <4>5, <5>1, <5>2, <5>3 DEF AtLast, Carries
      <4> QED BY <4>4, <4>5
    <3> QED BY <1>2, <2>1, <3>1, <3>2
  <2> QED BY <1>2, <1>4, <2>1 DEF Reached
<1>10. OldStreams'
  <2>1. SameBatches
    BY <1>4 DEF SameBatches, SameEnds
  <2> QED BY <2>1, OldStreamsKept
<1> QED BY <1>8, <1>9, <1>10 DEF QInv

LEMMA ShutterArrivesQ ==
  ASSUME QInv, IInv', [Contract!Next]_(Contract!vars), ShutterArrives
  PROVE  QInv'
<1>1. PICK f \in submitted : Enter("shutter", f, 0, {<<Shutter, f>>}, "queue")
  BY DEF ShutterArrives
<1> DEFINE items == {<<Shutter, f>>}
<1>2. Enter("shutter", f, 0, items, "queue") /\ \A i \in items : i[2] = f /\ i[1] = Shutter
  BY <1>1
<1> HIDE DEF items
<1> QED BY <1>2, ArrivesQ

LEMMA ResultArrivesQ ==
  ASSUME QInv, IInv', [Contract!Next]_(Contract!vars), ResultArrives
  PROVE  QInv'
<1>1. PICK f \in submitted, partial \in 0..NumPartial, bufs \in SUBSET Streams :
        Enter("result", f, partial, ((Partials \cap {partial}) \cup bufs) \X {f}, "queue")
  BY DEF ResultArrives
<1> DEFINE items == ((Partials \cap {partial}) \cup bufs) \X {f}
<1>2. \A i \in items : /\ i[2] = f /\ i[1] # Shutter
                       /\ i[1] = NumPartial => partial = NumPartial
  <2>1. \A i \in items : i[2] = f /\ i[1] \in (Partials \cap {partial}) \cup bufs
    OBVIOUS
  <2> QED BY <2>1, Constants DEF Shutter
<1>3. Enter("result", f, partial, items, "queue")
  BY <1>1
<1> HIDE DEF items
<1> QED BY <1>2, <1>3, ArrivesQ

---------------------------------------------------------------------------
(* The deque of a session at rest. *)

LEMMA NextQ ==
  ASSUME QInv, HalWaits, [Next]_vars
  PROVE  QInv'
<1>1. IInv' /\ [Contract!Next]_(Contract!vars)
  BY NextStep DEF QInv
<1>2. CASE ClientStep
  BY <1>1, <1>2, ClientMovesQ, RegisterBatchQ DEF ClientStep
<1>3. CASE ShutterStep
  BY <1>1, <1>3, ShutterArrivesQ, SingleShutterQ, QueueShutterQ, CheckFirstBatchQ DEF ShutterStep
<1>4. CASE ResultStep
  BY <1>1, <1>4, ResultArrivesQ, SingleResultQ, ResultOfRemovedBatchQ, QueueResultQ, SendOthersQ,
     SendMetadataQ, SendBuffersQ, UnlockBatchQ, CheckFirstBatchQ DEF ResultStep
<1>5. CASE ErrorStep
  BY <1>1, <1>5, ErrorMovesQ, FlushQ, PopFlushedQ DEF ErrorStep
<1>6. CASE ConfigureStreams \/ (\E t \in Threads : CallbackReturns(t)) \/ UNCHANGED vars
  BY <1>1, <1>6, ClientMovesQ
<1> QED BY <1>2, <1>3, <1>4, <1>5, <1>6 DEF Next, Quiet

\* When all has come and no thread is at work, no batch is left: each is complete, and of a
\* complete one somebody would still have to look at the first.
LEMMA GoneAtRest == ASSUME QInv PROVE QuiescentBatchesGone
<1> SUFFICES ASSUME Owed = {}, \A t \in Threads : pc[t] = "idle", mInflightBatches # <<>>
             PROVE  FALSE
  BY DEF QuiescentBatchesGone
<1>0. IInv /\ Types /\ Deque /\ Errors
  BY DEF QInv, IInv
<1>1. PICK b \in Live : TRUE
  BY <1>0, LiveBatches
<1>2. pc["shutter"] = "idle" /\ pc["result"] = "idle" /\ pc["error"] = "idle"
  BY DEF Threads
<1>3. batch[b].last \in FramesOf(b) /\ FramesOf(b) \subseteq submitted
  BY <1>0, Ordered DEF Deque
<1>4. batch[b].last \in submitted \ Excused
  BY <1>0, <1>3 DEF Errors
<1>5. ASSUME NEW l \in LanesOf(b) PROVE <<l, batch[b].last>> \in sent
  <2>1. l \in Strict /\ l \in Lanes
    BY <1>0, Complete, Pieces
  <2>2. l \notin 1..(NumPartial - 1)
    BY <2>1, Constants DEF Strict, Shutter
  <2>3. ~Optional(<<l, batch[b].last>>)
    BY <1>4, <2>2 DEF Optional
  <2> QED BY <1>4, <2>1, <2>3 DEF Owed
<1>6. \A l \in LanesOf(b) : DoneLane(l, b)
  BY <1>2, <1>5 DEF QInv, Reached, AtLast, Carries
<1>7. AllDelivered(b)
  BY <1>0, <1>6, Complete
<1>8. WillCheck(b)
  BY <1>7 DEF QInv, Awaited
<1> QED BY <1>2, <1>8 DEF WillCheck, ShutterLooks, ResultLooks, ErrorTakes, Flushing

\* Each call looks only at the first batch of the deque, and a later one may be completed by a
\* thread that goes away again: still none is left behind when the session comes to rest.
THEOREM BatchesGone == ASSUME HalWaits PROVE Spec => []QuiescentBatchesGone
<1>1. Init => QInv
  <2> SUFFICES ASSUME Init PROVE Awaited /\ Reached /\ OldStreams
    BY InitIInv DEF QInv
  <2>1. Live = {}
    BY DEF Init, Live
  <2> QED BY <2>1 DEF Awaited, Reached, OldStreams
<1>2. QInv /\ [Next]_vars => QInv'
  BY NextQ
<1>3. QInv => QuiescentBatchesGone
  BY GoneAtRest
<1> QED BY <1>1, <1>2, <1>3, PTL DEF Spec

---------------------------------------------------------------------------
(* The types of ResultBatcher. *)

\* Batches have different first frames, so the deque is no longer than the frames; and of the
\* batches that have left, too, only buffers of their own streams were handed on.
Typed ==
  /\ \A k \in DOMAIN mInflightBatches : k <= mInflightBatches[k]
  /\ \A t \in Threads : cur[t].idx <= MaxFrames
  /\ \A b \in Frames : batch[b].bufsDone \subseteq DOMAIN batch[b].bufs /\ batch[b].last \in Frames \cup {None}

\* The steps there are.
LEMMA Steps ==
  ASSUME [Next]_vars
  PROVE  \/ ConfigureStreams \/ ClientStep \/ ShutterStep \/ ResultStep \/ ErrorStep
         \/ (\E t \in Threads : CallbackReturns(t)) \/ UNCHANGED vars
<1>1. CASE Next
  BY <1>1 DEF Next, Quiet
<1> QED BY <1>1

\* Where getBatch may find a batch.
LEMMA PositionBound ==
  ASSUME IInv, Typed, NEW f
  PROVE  BatchIdx(f) \in 0..MaxFrames
<1>1. /\ DOMAIN mInflightBatches = 1..Len(mInflightBatches) /\ Len(mInflightBatches) \in Nat
      /\ \A k \in DOMAIN mInflightBatches : mInflightBatches[k] \in Frames
  BY DEF IInv, Types
<1>2. \A k \in DOMAIN mInflightBatches : k \in 0..MaxFrames
  <2> SUFFICES ASSUME NEW k \in DOMAIN mInflightBatches PROVE k \in 0..MaxFrames
    OBVIOUS
  <2>1. k <= mInflightBatches[k]
    BY DEF Typed
  <2>2. mInflightBatches[k] \in Frames /\ k \in Nat
    BY <1>1
  <2>3. mInflightBatches[k] <= MaxFrames /\ mInflightBatches[k] \in Nat /\ MaxFrames \in Nat
    BY <2>2, Constants
  <2> QED BY <2>1, <2>2, <2>3
<1>3. 0 \in 0..MaxFrames
  BY Constants
<1> QED BY <1>2, <1>3 DEF BatchIdx

\* One thread at most gets a new message.
LEMMA MessageTyped ==
  ASSUME IInv, Typed, [Next]_vars
  PROVE  \/ cur' = cur
         \/ \E t \in Threads : \E m : cur' = [cur EXCEPT ![t] = m] /\ m.idx \in 0..MaxFrames
<1>0. /\ \A t \in Threads : cur[t] \in Message /\ cur[t].idx \in 0..MaxFrames
      /\ cur \in [Threads -> Message] /\ MaxFrames \in Nat
      /\ {"shutter", "result", "error"} \subseteq Threads /\ Idle.idx \in 0..MaxFrames
  <2>1. \A t \in Threads : cur[t].idx \in Nat /\ cur[t].idx <= MaxFrames
    BY DEF IInv, Types, Typed, Message
  <2> QED BY <2>1, Constants DEF IInv, Types, Threads, Idle
<1> DEFINE Goal == \/ cur' = cur
                   \/ \E t \in Threads : \E m : cur' = [cur EXCEPT ![t] = m] /\ m.idx \in 0..MaxFrames
<1>1. \A t \in Threads : Done(t) => Goal
  BY <1>0 DEF Done
<1>2. ASSUME NEW t \in Threads, NEW f, NEW partial, NEW items, NEW label, Enter(t, f, partial, items, label)
      PROVE  Goal
  <2> DEFINE message == [frame |-> f, batch |-> BatchOf(f), partial |-> partial,
                         items |-> items, filled |-> {}, idx |-> BatchIdx(f)]
  <2>1. cur' = [cur EXCEPT ![t] = message]
    BY <1>2 DEF Enter
  <2>2. message.idx \in 0..MaxFrames
    BY PositionBound
  <2> HIDE DEF message
  <2> QED BY <2>1, <2>2
<1>3. CASE QueueResult \/ SendOthers
  <2>1. PICK items, filled :
          cur' = [cur EXCEPT !["result"] = [cur["result"] EXCEPT !.items = items, !.filled = filled]]
    <3>1. CASE QueueResult
      BY <1>0, <3>1 DEF QueueResult
    <3>2. CASE SendOthers
      <4>1. cur' = [cur EXCEPT !["result"] = [cur["result"] EXCEPT !.items = {}]]
        BY <1>0, <3>2 DEF SendOthers
      <4>2. [cur["result"] EXCEPT !.items = {}]
              = [cur["result"] EXCEPT !.items = {}, !.filled = cur["result"].filled]
        BY <1>0 DEF Message
      <4> QED BY <4>1, <4>2
    <3> QED BY <1>3, <3>1, <3>2
  <2>2. [cur["result"] EXCEPT !.items = items, !.filled = filled].idx \in 0..MaxFrames
    BY <1>0 DEF Message
  <2> QED BY <1>0, <2>1, <2>2
<1>4. CASE PopFlushed
  <2>1. CASE cur["error"].idx > 1
    <3>1. cur' = [cur EXCEPT !["error"] = [cur["error"] EXCEPT !.idx = cur["error"].idx - 1]]
      BY <1>0, <1>4, <2>1 DEF PopFlushed
    <3>2. [cur["error"] EXCEPT !.idx = cur["error"].idx - 1].idx = cur["error"].idx - 1
      BY <1>0 DEF Message
    <3>3. cur["error"].idx - 1 \in 0..MaxFrames
      BY <1>0, <2>1
    <3> QED BY <1>0, <3>1, <3>2, <3>3
  <2>2. CASE ~(cur["error"].idx > 1)
    BY <1>0, <1>1, <1>4, <2>2 DEF PopFlushed
  <2> QED BY <2>1, <2>2
<1>5. CASE ShutterArrives \/ ResultArrives \/ ErrorArrives
  <2>1. CASE ShutterArrives
    <3>1. PICK f : Enter("shutter", f, 0, {<<Shutter, f>>}, "queue")
      BY <2>1 DEF ShutterArrives
    <3> QED BY <1>0, <1>2, <3>1
  <2>2. CASE ResultArrives
    <3>1. PICK f, partial, items : Enter("result", f, partial, items, "queue")
      BY <2>2 DEF ResultArrives
    <3> QED BY <1>0, <1>2, <3>1
  <2>3. CASE ErrorArrives
    <3>1. PICK f : Enter("error", f, 0, {}, "lock")
      BY <2>3 DEF ErrorArrives
    <3> QED BY <1>0, <1>2, <3>1
  <2> QED BY <1>5, <2>1, <2>2, <2>3
<1>6. /\ ConfigureStreams \/ ClientStep \/ UNCHANGED vars => Goal
      /\ \A t \in Threads : CallbackReturns(t) => Goal
  BY DEF ConfigureStreams, ClientStep, ProcessCaptureRequest, RequestAccepted, RequestRefused,
         RegisterBatch, CallbackReturns, vars
<1>7. CASE SingleShutter \/ SingleResult \/ SingleError \/ QueueShutter \/ UnlockBatch
             \/ CheckFirstBatch("shutter") \/ CheckFirstBatch("result")
  <2>1. cur' = cur \/ \E t \in Threads : Done(t)
    BY <1>0, <1>7 DEF SingleShutter, SingleResult, SingleError, QueueShutter, UnlockBatch, CheckFirstBatch
  <2> HIDE DEF Goal
  <2> QED BY <1>1, <2>1 DEF Goal
<1>8. CASE ResultOfRemovedBatch \/ SendMetadata \/ SendBuffers \/ LockForFlush \/ FlushMissingBatch
             \/ FlushShutters \/ FlushBuffers \/ FlushMetadata
  BY <1>8 DEF ResultOfRemovedBatch, SendMetadata, SendBuffers, LockForFlush, FlushMissingBatch,
              FlushShutters, FlushBuffers, FlushMetadata
<1> HIDE DEF Goal
<1>9. CASE ShutterStep \/ ResultStep \/ ErrorStep
  <2>1. CASE ShutterStep
    BY <1>5, <1>7, <2>1 DEF ShutterStep
  <2>2. CASE ResultStep
    BY <1>3, <1>5, <1>7, <1>8, <2>2 DEF ResultStep
  <2>3. CASE ErrorStep
    BY <1>4, <1>5, <1>7, <1>8, <2>3 DEF ErrorStep
  <2> QED BY <1>9, <2>1, <2>2, <2>3
<1>10. Goal
  BY <1>6, <1>9, Steps DEF Goal
<1> QED BY <1>10 DEF Goal

\* The frames and the buffers of a batch that is not in the deque stay as they are.
LEMMA GoneStays ==
  ASSUME IInv, [Next]_vars, NEW b \in Frames, b \notin Live'
  PROVE  /\ batch'[b].bufs = batch[b].bufs /\ batch'[b].bufsDone = batch[b].bufsDone
         /\ batch'[b].last = batch[b].last
<1>0. Types /\ batch \in [Frames -> Batch] /\ batch[b] \in Batch /\ Live \subseteq Frames
  BY BatchFields, LiveBatches DEF IInv, Types
<1> DEFINE Goal == /\ batch'[b].bufs = batch[b].bufs /\ batch'[b].bufsDone = batch[b].bufsDone
                   /\ batch'[b].last = batch[b].last
<1>1. UNCHANGED batch => Goal
  OBVIOUS
<1>2. ASSUME mInflightBatches' = mInflightBatches, NEW c \in Live, NEW B, batch' = [batch EXCEPT ![c] = B]
      PROVE  Goal
  <2>1. b # c
    BY <1>2 DEF Live
  <2> QED BY <1>0, <1>2, <2>1
<1>3. CASE RegisterBatch
  <2>1. mInflightBatches' = Append(mInflightBatches, burst.first)
        /\ batch' = [batch EXCEPT ![burst.first] = NewBatch(burst.first, burst.last)]
    BY <1>3 DEF RegisterBatch
  <2>2. burst.first \in Live'
    <3>1. mInflightBatches'[Len(mInflightBatches) + 1] = burst.first
          /\ Len(mInflightBatches) + 1 \in DOMAIN mInflightBatches'
      BY <1>0, <2>1 DEF Types
    <3> QED BY <3>1 DEF Live
  <2> QED BY <1>0, <2>1, <2>2
<1>4. CASE QueueShutter
  <2>1. PICK c \in Frames : c = cur["shutter"].batch
    BY <1>4 DEF QueueShutter, IInv, Workers
  <2>2. UNCHANGED batch \/ \E s, d : batch' = [batch EXCEPT ![c].shutters = s, ![c].shutterDone = d]
    <3>1. CASE FallsBack(c) 
      BY <1>4, <2>1, <3>1 DEF QueueShutter
    <3>2. CASE ~FallsBack(c) /\ IsLast("shutter")
      BY <1>4, <2>1, <3>2, ZenonT(60) DEF QueueShutter
    <3>3. CASE ~FallsBack(c) /\ ~IsLast("shutter")
      <4>1. PICK s : batch' = [batch EXCEPT ![c].shutters = s]
        BY <1>4, <2>1, <3>3 DEF QueueShutter
      <4>2. batch' = [batch EXCEPT ![c].shutters = s, ![c].shutterDone = batch[c].shutterDone]
        BY <1>0, <2>1, <4>1 DEF Batch
      <4> QED BY <4>2
    <3> QED BY <3>1, <3>2, <3>3
  <2>3. ASSUME NEW s, NEW d, batch' = [batch EXCEPT ![c].shutters = s, ![c].shutterDone = d]
        PROVE  Goal
    BY <1>0, <2>1, <2>3 DEF Batch
  <2> QED BY <2>2, <2>3
<1>5. CASE QueueResult
  <2>1. cur["result"].batch \in Live /\ mInflightBatches' = mInflightBatches
    BY <1>5, ZenonT(60) DEF QueueResult, FallsBack, IInv, Workers
  <2>2. \E B : batch' = [batch EXCEPT ![cur["result"].batch] = B]
    BY <1>5, Zenon DEF QueueResult
  <2> QED BY <1>2, <2>1, <2>2
<1>6. CASE SendMetadata \/ SendBuffers
  <2>1. cur["result"].batch \in Live /\ mInflightBatches' = mInflightBatches
    BY <1>6, SMTT(30) DEF SendMetadata, SendBuffers, IInv, Workers, Holding
  <2>2. UNCHANGED batch \/ \E B : batch' = [batch EXCEPT ![cur["result"].batch] = B]
    BY <1>6 DEF SendMetadata, SendBuffers, SendBatchMetadata, SendBatchBuffers
  <2> QED BY <1>1, <1>2, <2>1, <2>2
<1>7. CASE FlushShutters \/ FlushBuffers \/ FlushMetadata
  <2>1. mInflightBatches # <<>> /\ mInflightBatches' = mInflightBatches
    BY <1>7 DEF FlushShutters, FlushBuffers, FlushMetadata, IInv, Locks, Flushing
  <2>2. Head(mInflightBatches) \in Live
    BY <1>0, <2>1, LiveBatches
  <2>3. UNCHANGED batch \/ \E B : batch' = [batch EXCEPT ![Head(mInflightBatches)] = B]
    BY <1>7 DEF FlushShutters, FlushBuffers, FlushMetadata, SendBatchMetadata, SendBatchBuffers
  <2> QED BY <1>1, <1>2, <2>1, <2>2, <2>3
<1>8. CASE PopFlushed \/ CheckFirstBatch("shutter") \/ CheckFirstBatch("result")
  <2>1. UNCHANGED batch \/ batch' = [batch EXCEPT ![Head(mInflightBatches)].removed = TRUE]
    BY <1>8 DEF PopFlushed, CheckFirstBatch, batchVars
  <2> QED BY <1>0, <2>1 DEF Batch
<1>9. /\ \/ ConfigureStreams \/ ProcessCaptureRequest \/ RequestAccepted \/ RequestRefused
         \/ UNCHANGED vars
         => Goal
      /\ \A t \in Threads : CallbackReturns(t) => Goal
  BY DEF ConfigureStreams, ProcessCaptureRequest, RequestAccepted, RequestRefused, CallbackReturns,
         vars, batchVars
<1>10. CASE \/ ShutterArrives \/ ResultArrives \/ ErrorArrives \/ SingleShutter \/ SingleResult
            \/ SingleError \/ ResultOfRemovedBatch \/ SendOthers \/ UnlockBatch
            \/ LockForFlush \/ FlushMissingBatch
  BY <1>10 DEF ShutterArrives, ResultArrives, ErrorArrives, Enter, SingleShutter, SingleResult,
               SingleError, ResultOfRemovedBatch, SendOthers, UnlockBatch, LockForFlush,
               FlushMissingBatch, batchVars
<1> HIDE DEF Goal
<1>11. CASE ClientStep \/ ShutterStep \/ ResultStep \/ ErrorStep
  <2>1. CASE ClientStep
    BY <1>3, <1>9, <2>1 DEF ClientStep, Goal
  <2>2. CASE ShutterStep
    BY <1>4, <1>8, <1>10, <2>2 DEF ShutterStep
  <2>3. CASE ResultStep
    BY <1>5, <1>6, <1>8, <1>10, <2>3 DEF ResultStep
  <2>4. CASE ErrorStep
    BY <1>7, <1>8, <1>10, <2>4 DEF ErrorStep
  <2> QED BY <1>11, <2>1, <2>2, <2>3, <2>4
<1>12. Goal
  BY <1>9, <1>11, Steps DEF Goal
<1> QED BY <1>12 DEF Goal

\* How the deque changes.
LEMMA DequeChanges ==
  ASSUME IInv, [Next]_vars
  PROVE  \/ mInflightBatches' = mInflightBatches
         \/ mInflightBatches # <<>> /\ mInflightBatches' = Tail(mInflightBatches)
         \/ RegisterBatch
<1> DEFINE Goal == \/ mInflightBatches' = mInflightBatches
                   \/ mInflightBatches # <<>> /\ mInflightBatches' = Tail(mInflightBatches)
<1>1. /\ \/ ConfigureStreams \/ ProcessCaptureRequest \/ RequestAccepted \/ RequestRefused
         \/ UNCHANGED vars
         => Goal
      /\ \A t \in Threads : CallbackReturns(t) => Goal
  BY DEF ConfigureStreams, ProcessCaptureRequest, RequestAccepted, RequestRefused, CallbackReturns,
         vars, batchVars
<1>2. CASE ShutterStep
  BY <1>2, Zenon DEF ShutterStep, ShutterArrives, Enter, SingleShutter, QueueShutter, CheckFirstBatch, batchVars
<1>3. CASE ResultStep
  BY <1>3, Zenon DEF ResultStep, ResultArrives, Enter, SingleResult, ResultOfRemovedBatch, QueueResult,
              SendOthers, SendMetadata, SendBuffers, UnlockBatch, CheckFirstBatch, batchVars
<1>4. CASE PopFlushed
  BY <1>4 DEF PopFlushed, IInv, Locks, Flushing
<1>5. CASE \/ ErrorArrives \/ SingleError \/ LockForFlush \/ FlushMissingBatch
           \/ FlushShutters \/ FlushBuffers \/ FlushMetadata
  BY <1>5 DEF ErrorArrives, Enter, SingleError, LockForFlush, FlushMissingBatch, FlushShutters,
              FlushBuffers, FlushMetadata, batchVars
<1> HIDE DEF Goal
<1>6. CASE ErrorStep
  BY <1>4, <1>5, <1>6 DEF ErrorStep
<1>7. CASE ClientStep
  BY <1>1, <1>7 DEF ClientStep, Goal
<1>8. Goal \/ RegisterBatch
  BY <1>1, <1>2, <1>3, <1>6, <1>7, Steps DEF Goal
<1> QED BY <1>8 DEF Goal

\* A batch of the deque ends with a frame, in the next state too.
LEMMA LastFrames == Types /\ Deque => \A b \in Live : batch[b].last \in Frames
BY Ordered

LEMMA LastFramesAfter == Types' /\ Deque' => \A b \in Live' : batch'[b].last \in Frames
<1>1. (Types /\ Deque)' => (\A b \in Live : batch[b].last \in Frames)'
  BY LastFrames, PTL
<1> QED BY <1>1

LEMMA TypedKept ==
  ASSUME IInv, Typed, HalWaits, [Next]_vars
  PROVE  IInv' /\ Typed'
<1>0. IInv'
  BY NextStep
<1>1. \A t \in Threads : cur'[t].idx <= MaxFrames
  <2>1. CASE cur' = cur
    BY <2>1 DEF Typed
  <2>2. ASSUME NEW u \in Threads, NEW m, cur' = [cur EXCEPT ![u] = m], m.idx \in 0..MaxFrames
        PROVE  \A t \in Threads : cur'[t].idx <= MaxFrames
    <3>1. m.idx <= MaxFrames
      BY <2>2, Constants
    <3> QED BY <2>2, <3>1 DEF Typed, IInv, Types
  <2> QED BY <2>1, <2>2, MessageTyped
<1>2. \A b \in Frames : batch'[b].bufsDone \subseteq DOMAIN batch'[b].bufs /\ batch'[b].last \in Frames \cup {None}
  <2>1. \A b \in Live' : batch'[b].bufsDone \subseteq DOMAIN batch'[b].bufs /\ batch'[b].last \in Frames
    BY <1>0, LastFramesAfter DEF IInv, Delivered
  <2>2. ASSUME NEW b \in Frames, b \notin Live'
        PROVE  batch'[b].bufsDone \subseteq DOMAIN batch'[b].bufs /\ batch'[b].last \in Frames \cup {None}
    <3>1. /\ batch'[b].bufs = batch[b].bufs /\ batch'[b].bufsDone = batch[b].bufsDone
          /\ batch'[b].last = batch[b].last
      BY <2>2, GoneStays
    <3> QED BY <3>1 DEF Typed
  <2> QED BY <2>1, <2>2
<1>3. \A k \in DOMAIN mInflightBatches' : k <= mInflightBatches'[k]
  <2>0. /\ mInflightBatches \in Seq(Frames) /\ Len(mInflightBatches) \in Nat
        /\ DOMAIN mInflightBatches = 1..Len(mInflightBatches)
        /\ \A k \in DOMAIN mInflightBatches :
             /\ k \in Nat /\ k <= mInflightBatches[k] /\ mInflightBatches[k] \in Nat
             /\ mInflightBatches[k] \in Live
    <3>1. /\ mInflightBatches \in Seq(Frames) /\ Len(mInflightBatches) \in Nat
          /\ DOMAIN mInflightBatches = 1..Len(mInflightBatches)
          /\ \A k \in DOMAIN mInflightBatches : mInflightBatches[k] \in Frames
      BY DEF IInv, Types
    <3>2. \A k \in DOMAIN mInflightBatches : k <= mInflightBatches[k]
      BY DEF Typed
    <3>3. Frames \subseteq Nat
      BY Constants
    <3>4. \A k \in DOMAIN mInflightBatches : mInflightBatches[k] \in Live
      BY DEF Live
    <3>5. \A k \in DOMAIN mInflightBatches : k \in Nat
      BY <3>1
    <3> QED BY <3>1, <3>2, <3>3, <3>4, <3>5
  <2>1. CASE mInflightBatches' = mInflightBatches
    BY <2>1 DEF Typed
  <2>2. CASE mInflightBatches # <<>> /\ mInflightBatches' = Tail(mInflightBatches)
    <3>1. \A k \in DOMAIN mInflightBatches' :
            k \in Nat /\ k + 1 \in DOMAIN mInflightBatches
              /\ mInflightBatches'[k] = mInflightBatches[k + 1]
      BY <2>2, HeadGone DEF IInv
    <3> QED BY <2>0, <3>1
  <2>3. CASE RegisterBatch
    <3>1. PICK n \in Frames : n = burst.first
      BY <2>3 DEF RegisterBatch, IInv, Client
    <3>2. mInflightBatches' = Append(mInflightBatches, n) /\ call = "register" /\ n \in Nat /\ n >= 1
      BY <2>3, <3>1, Constants DEF RegisterBatch
    <3>3. \A b \in Live : b < n
      <4>1. \A b \in Live : b <= batch[b].last /\ batch[b].last < n /\ b \in Nat /\ batch[b].last \in Nat
        BY <3>1, <3>2, Ordered DEF IInv, Deque, Settled
      <4> QED BY <3>2, <4>1
    <3>4. Len(mInflightBatches) + 1 <= n
      <4>1. CASE Len(mInflightBatches) = 0
        BY <3>2, <4>1
      <4>2. CASE Len(mInflightBatches) # 0
        <5>1. Len(mInflightBatches) \in DOMAIN mInflightBatches
          BY <2>0, <4>2
        <5> QED BY <2>0, <3>2, <3>3, <5>1
      <4> QED BY <4>1, <4>2
    <3>5. /\ DOMAIN mInflightBatches' = 1..(Len(mInflightBatches) + 1)
          /\ \A k \in DOMAIN mInflightBatches : mInflightBatches'[k] = mInflightBatches[k]
          /\ mInflightBatches'[Len(mInflightBatches) + 1] = n
      BY <2>0, <3>1, <3>2
    <3> QED BY <2>0, <3>4, <3>5
  <2> QED BY <2>1, <2>2, <2>3, DequeChanges
<1> QED BY <1>0, <1>1, <1>2, <1>3 DEF Typed

LEMMA TypesAreOK == ASSUME IInv, Typed PROVE TypeOK
<1>1. Types
  BY DEF IInv
<1>2. ASSUME NEW b \in Frames PROVE BatchTypeOK(batch[b])
  <2>1. batch[b].last \in Frames \cup {None} /\ batch[b].bufsDone \subseteq DOMAIN batch[b].bufs
    BY DEF Typed
  <2> QED BY <1>1, <2>1, BatchFields DEF BatchTypeOK
<1>3. \A t \in Threads : cur[t].items \subseteq Item /\ cur[t].idx \in 0..MaxFrames
  <2>1. \A t \in Threads : cur[t] \in Message
    BY <1>1 DEF Types
  <2>2. \A t \in Threads : cur[t].items \subseteq Item /\ cur[t].idx \in Nat /\ cur[t].idx <= MaxFrames
    BY <2>1 DEF Message, Typed
  <2> QED BY <2>2, Constants
<1> QED BY <1>1, <1>2, <1>3 DEF TypeOK, Types

\* Its fields keep their types, and the deque never holds more batches than there are frames.
THEOREM BatcherTypes == ASSUME HalWaits PROVE Spec => []TypeOK
<1>1. Init => IInv /\ Typed
  <2> SUFFICES ASSUME Init PROVE Typed
    BY InitIInv
  <2>1. /\ mInflightBatches = <<>> /\ \A t \in Threads : cur[t] = Idle
        /\ \A b \in Frames : batch[b] = NoBatch
    BY DEF Init
  <2>2. Idle.idx <= MaxFrames
    BY Constants DEF Idle
  <2> QED BY <2>1, <2>2 DEF Typed, NoBatch, None
<1>2. IInv /\ Typed /\ [Next]_vars => IInv' /\ Typed'
  BY TypedKept
<1>3. IInv /\ Typed => TypeOK
  BY TypesAreOK
<1> QED BY <1>1, <1>2, <1>3, PTL DEF Spec
=============================================================================
