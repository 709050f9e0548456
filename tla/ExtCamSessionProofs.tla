------------------------ MODULE ExtCamSessionProofs ------------------------
(***************************************************************************)
(* What holds of ExtCamSession for every set of streams, every set of      *)
(* rates, every number of V4L2 buffers and every bound: first the types    *)
(* and the flush, then that each capture request is in one place and is    *)
(* answered once, then that the pool of V4L2 buffers is never lost track   *)
(* of, and last the order of the shutters.  Each part rests on the ones    *)
(* before.                                                                 *)
(***************************************************************************)
EXTENDS ExtCamSession, SequenceTheorems, FiniteSetTheorems, TLAPS

\* The unchanged parts of the state are named by these tuples.
USE DEF sessionVars, v4l2Vars, threadVars, localVars, clientVars, kernelVars

---------------------------------------------------------------------------
(* Type correctness. *)

\* The thread that moves is the only one whose control point changes.
LEMMA GotoMoves ==
  ASSUME PcTypeOK, NEW t \in {"api", "out", "dump"}, NEW label, Goto(t, label)
  PROVE  /\ pc'[t] = label
         /\ \A u \in {"api", "out", "dump"} \ {t} : pc'[u] = pc[u]
         /\ DOMAIN pc' = {"api", "out", "dump"}
BY DEF Goto, PcTypeOK

\* The initial state has the types.
LEMMA InitType == Init => TypeOK
<1> SUFFICES ASSUME Init PROVE TypeOK
  OBVIOUS
<1> USE ConstantsAssumption DEF Init, ConstantsAssumption
<1>1. SessionTypeOK /\ ClientTypeOK /\ KernelTypeOK
  BY DEF SessionTypeOK, ClientTypeOK, KernelTypeOK, Frames, Threads
<1>2. V4l2TypeOK
  BY DEF V4l2TypeOK
<1>3. RequestTypeOK
  BY DEF RequestTypeOK
<1>4. PcTypeOK /\ HasRequest
  BY DEF PcTypeOK, HasRequest, Unemployed, Threads, ApiLabels, OutLabels, DumpLabels
<1>5. FlagTypeOK
  BY DEF FlagTypeOK, Flags
<1> QED BY <1>1, <1>2, <1>3, <1>4, <1>5 DEF TypeOK

\* A queue given by its entries.
LEMMA ListedQueue ==
  ASSUME NEW n \in Nat, NEW q \in [1..n -> Nat]
  PROVE  q \in Seq(Nat)
OBVIOUS

\* However a reconfiguration of the V4L2 stream ends, the stream's fields have
\* their types.
LEMMA ReconfigurationType ==
  ASSUME V4l2TypeOK, NEW rate \in Rates, ConfigureSucceeds(rate) \/ ConfigureFails(rate)
  PROVE  V4l2TypeOK'
<1> USE DEF V4l2TypeOK, SetFps, CountAfterStreamOff
<1>1. BufferCount[rate] \in Nat \ {0} /\ MaxConfigs \in Nat
  BY ConstantsAssumption DEF ConstantsAssumption
<1>2. CASE ConfigureSucceeds(rate)
  <2> USE <1>2 DEF ConfigureSucceeds, ReallocateBuffers
  <2>1. \A i \in 1..BufferCount[rate] : i % BufferCount[rate] \in Nat
    BY <1>1
  <2>2. kQueue' \in [1..BufferCount[rate] -> Nat]
    BY <2>1
  <2>3. kQueue' \in Seq(Nat)
    BY ONLY <1>1, <2>2, ListedQueue
  <2>4. epoch' \in 0..MaxConfigs /\ lost' \subseteq Nat
    BY <1>1
  <2> QED BY <1>1, <2>3, <2>4
<1>3. CASE StreamOffFails
  BY <1>3 DEF StreamOffFails
<1>4. CASE ConfigureFailsEarly(rate)
  <2>1. mV4l2StreamingFps' \in Rates \cup {NoRate}
    BY <1>4 DEF ConfigureFailsEarly
  <2>2. mV4L2BufferCount' \in Nat
    BY <1>4 DEF ConfigureFailsEarly
  <2>3. kQueue' = <<>> \/ kQueue' = kQueue
    BY <1>4 DEF ConfigureFailsEarly
  <2>4. epoch' = epoch /\ lost' \in {{}, lost}
    BY <1>4 DEF ConfigureFailsEarly
  <2>5. kQueue' \in Seq(Nat)
    BY <2>3, EmptySeq
  <2>6. lost' \subseteq Nat /\ epoch' \in 0..MaxConfigs
    BY <2>4
  <2> QED BY <2>1, <2>2, <2>5, <2>6
<1>5. CASE ConfigureFailsLate(rate)
  BY <1>1, <1>5 DEF ConfigureFailsLate, ReallocateBuffers
<1>6. CASE ConfigureFailsStreaming(rate)
  <2> USE <1>6 DEF ConfigureFailsStreaming, ReallocateBuffers
  <2>1. PICK swallowed \in 0..1 :
          /\ kQueue' = [i \in 1..(BufferCount[rate] - swallowed) |-> i + swallowed - 1]
          /\ lost' = 0..(swallowed - 1)
    OBVIOUS
  <2>2. BufferCount[rate] - swallowed \in Nat
    BY <1>1, <2>1
  <2>3. \A i \in 1..(BufferCount[rate] - swallowed) : i + swallowed - 1 \in Nat
    BY <1>1, <2>1
  <2>4. kQueue' \in [1..(BufferCount[rate] - swallowed) -> Nat]
    BY ONLY <2>1, <2>3
  <2>5. kQueue' \in Seq(Nat)
    BY ONLY <2>2, <2>4, ListedQueue
  <2>6. epoch' \in 0..MaxConfigs /\ lost' \subseteq Nat
    BY <1>1, <2>1
  <2> QED BY <1>1, <2>5, <2>6
<1> QED BY <1>2, <1>3, <1>4, <1>5, <1>6 DEF ConfigureFails

\* ... and its flags stay flags.
LEMMA ReconfigurationFlags ==
  ASSUME FlagTypeOK, NEW rate \in Rates, ConfigureSucceeds(rate) \/ ConfigureFails(rate)
  PROVE  {mV4l2Streaming', kAllocated', kStreaming'} \subseteq BOOLEAN
<1> USE DEF FlagTypeOK, Flags
<1>1. CASE ConfigureSucceeds(rate)
  BY <1>1 DEF ConfigureSucceeds, ReallocateBuffers
<1>2. CASE StreamOffFails
  BY <1>2 DEF StreamOffFails
<1>3. CASE ConfigureFailsEarly(rate)
  BY <1>3 DEF ConfigureFailsEarly
<1>4. CASE ConfigureFailsLate(rate)
  BY <1>4 DEF ConfigureFailsLate, ReallocateBuffers
<1>5. CASE ConfigureFailsStreaming(rate)
  BY <1>5 DEF ConfigureFailsStreaming, ReallocateBuffers
<1> QED BY <1>1, <1>2, <1>3, <1>4, <1>5 DEF ConfigureFails

\* A call into the session keeps the types.
LEMMA ApiCallType == ASSUME TypeOK, ApiCall PROVE TypeOK'
<1>1. CASE ConfigureStreams
  <2> USE <1>1 DEF ConfigureStreams, Enter, MayConfigure
  <2>1. SessionTypeOK' /\ V4l2TypeOK' /\ RequestTypeOK' /\ ClientTypeOK' /\ KernelTypeOK'
    BY DEF TypeOK, SessionTypeOK, V4l2TypeOK, RequestTypeOK, ClientTypeOK, KernelTypeOK
  <2>2. FlagTypeOK'
    BY DEF TypeOK, FlagTypeOK, Flags
  <2>3. PcTypeOK'
    BY GotoMoves DEF TypeOK, PcTypeOK, ApiLabels, OutLabels, DumpLabels, Threads
  <2>4. HasRequest'
    BY GotoMoves DEF TypeOK, RequestTypeOK, HasRequest, Unemployed, Threads, PcTypeOK
  <2> QED BY <2>1, <2>2, <2>3, <2>4 DEF TypeOK
<1>2. CASE ProcessCaptureRequest
  <2> USE <1>2 DEF ProcessCaptureRequest, Enter
  <2>1. cur'["api"] \in Request /\ cur'["out"] = cur["out"]
    <3>1. nextFrame \in Frames
      BY ConstantsAssumption DEF TypeOK, ClientTypeOK, Frames, ConstantsAssumption
    <3>2. PICK s \in SUBSET mCirculatingBuffers :
            cur' = [cur EXCEPT !["api"] = [num |-> nextFrame, streams |-> s, idx |-> 0, epoch |-> 0]]
      OBVIOUS
    <3>3. [num |-> nextFrame, streams |-> s, idx |-> 0, epoch |-> 0] \in Request
      BY <3>1, ConstantsAssumption DEF TypeOK, SessionTypeOK, Request, ConstantsAssumption
    <3> QED BY <3>2, <3>3 DEF TypeOK, RequestTypeOK, Threads
  <2>2. RequestTypeOK'
    BY <2>1 DEF TypeOK, RequestTypeOK, Threads
  <2>3. ClientTypeOK'
    BY ConstantsAssumption DEF TypeOK, ClientTypeOK, ConstantsAssumption
  <2>4. SessionTypeOK' /\ V4l2TypeOK' /\ KernelTypeOK'
    BY DEF TypeOK, SessionTypeOK, V4l2TypeOK, KernelTypeOK
  <2>5. FlagTypeOK'
    BY DEF TypeOK, FlagTypeOK, Flags
  <2>6. PcTypeOK'
    BY GotoMoves DEF TypeOK, PcTypeOK, ApiLabels, OutLabels, DumpLabels, Threads
  <2>7. HasRequest'
    BY <2>1, GotoMoves DEF TypeOK, RequestTypeOK, HasRequest, Unemployed, Threads, PcTypeOK
  <2> QED BY <2>1, <2>2, <2>3, <2>4, <2>5, <2>6, <2>7 DEF TypeOK
<1>3. ASSUME NEW byClose \in BOOLEAN, Flush(byClose) PROVE TypeOK'
  <2> USE <1>3 DEF Flush, Enter, TakenByFlush, LeftByFlush, AfterTakingList
  <2>1. RequestTypeOK'
    BY DEF TypeOK, RequestTypeOK
  <2>2. SessionTypeOK' /\ V4l2TypeOK' /\ ClientTypeOK' /\ KernelTypeOK'
    BY DEF TypeOK, SessionTypeOK, V4l2TypeOK, ClientTypeOK, KernelTypeOK
  <2>3. FlagTypeOK'
    BY DEF TypeOK, FlagTypeOK, Flags
  <2>4. PcTypeOK'
    BY GotoMoves DEF TypeOK, PcTypeOK, ApiLabels, OutLabels, DumpLabels, Threads
  <2>5. HasRequest'
    BY GotoMoves DEF TypeOK, RequestTypeOK, HasRequest, Unemployed, Threads, PcTypeOK
  <2> QED BY <2>1, <2>2, <2>3, <2>4, <2>5 DEF TypeOK
<1> QED BY <1>1, <1>2, <1>3 DEF ApiCall

\* Returning a request, on either thread, keeps the types.
LEMMA ReturnRequestType == ASSUME TypeOK, NEW t \in Threads, ReturnRequest(t) PROVE TypeOK'
<1>1. CASE EnqueueFrame(t)
  <2> USE <1>1 DEF EnqueueFrame
  <2>1. V4l2TypeOK'
    <3>1. cur[t].idx \in Nat
      BY DEF TypeOK, HasRequest, Unemployed, Request
    <3> QED BY <3>1 DEF TypeOK, V4l2TypeOK
  <2>2. SessionTypeOK' /\ RequestTypeOK' /\ ClientTypeOK' /\ KernelTypeOK'
    BY DEF TypeOK, SessionTypeOK, RequestTypeOK, ClientTypeOK, KernelTypeOK
  <2>3. FlagTypeOK'
    BY DEF TypeOK, FlagTypeOK, Flags
  <2>4. PcTypeOK'
    BY GotoMoves DEF TypeOK, PcTypeOK, ApiLabels, OutLabels, DumpLabels, Threads
  <2>5. HasRequest'
    BY GotoMoves DEF TypeOK, RequestTypeOK, HasRequest, Unemployed, Threads, PcTypeOK
  <2> QED BY <2>1, <2>2, <2>3, <2>4, <2>5 DEF TypeOK
<1>2. CASE EnqueueFails(t)
  <2> USE <1>2 DEF EnqueueFails, AfterFailedEnqueue
  <2>1. KernelTypeOK'
    BY DEF TypeOK, KernelTypeOK, HasRequest, Unemployed, Request
  <2>2. SessionTypeOK' /\ V4l2TypeOK' /\ RequestTypeOK' /\ ClientTypeOK'
    BY DEF TypeOK, SessionTypeOK, V4l2TypeOK, RequestTypeOK, ClientTypeOK
  <2>3. FlagTypeOK'
    BY DEF TypeOK, FlagTypeOK, Flags
  <2>4. PcTypeOK'
    BY GotoMoves DEF TypeOK, PcTypeOK, ApiLabels, OutLabels, DumpLabels, Threads
  <2>5. HasRequest'
    BY GotoMoves DEF TypeOK, RequestTypeOK, HasRequest, Unemployed, Threads, PcTypeOK
  <2> QED BY <2>1, <2>2, <2>3, <2>4, <2>5 DEF TypeOK
<1>3. CASE UncountFrame(t)
  <2> USE <1>3 DEF UncountFrame, AfterBufferReturned
  <2>1. KernelTypeOK'
    BY DEF TypeOK, KernelTypeOK
  <2>2. SessionTypeOK' /\ V4l2TypeOK' /\ RequestTypeOK' /\ ClientTypeOK'
    BY DEF TypeOK, SessionTypeOK, V4l2TypeOK, RequestTypeOK, ClientTypeOK
  <2>3. FlagTypeOK'
    BY DEF TypeOK, FlagTypeOK, Flags
  <2>4. PcTypeOK'
    BY GotoMoves DEF TypeOK, PcTypeOK, ApiLabels, OutLabels, DumpLabels, Threads
  <2>5. HasRequest'
    BY GotoMoves DEF TypeOK, RequestTypeOK, HasRequest, Unemployed, Threads, PcTypeOK
  <2> QED BY <2>1, <2>2, <2>3, <2>4, <2>5 DEF TypeOK
<1>4. CASE NotifyShutter(t)
  <2> USE <1>4 DEF NotifyShutter
  <2>a. cur[t] \in Request
    BY DEF TypeOK, HasRequest, Unemployed
  <2>b. cur[t].num \in 0..MaxFrames
    BY <2>a, ConstantsAssumption DEF Request, Frames, ConstantsAssumption
  <2>1. ClientTypeOK'
    BY <2>b DEF TypeOK, ClientTypeOK
  <2>2. SessionTypeOK' /\ V4l2TypeOK' /\ RequestTypeOK' /\ KernelTypeOK'
    BY DEF TypeOK, SessionTypeOK, V4l2TypeOK, RequestTypeOK, KernelTypeOK
  <2>3. FlagTypeOK'
    BY DEF TypeOK, FlagTypeOK, Flags
  <2>4. PcTypeOK'
    BY GotoMoves DEF TypeOK, PcTypeOK, ApiLabels, OutLabels, DumpLabels, Threads
  <2>5. HasRequest'
    BY GotoMoves DEF TypeOK, RequestTypeOK, HasRequest, Unemployed, Threads, PcTypeOK
  <2> QED BY <2>1, <2>2, <2>3, <2>4, <2>5 DEF TypeOK
<1>5. CASE EraseInflight(t)
  <2> USE <1>5 DEF EraseInflight, Erased
  <2>1. SessionTypeOK'
    BY DEF TypeOK, SessionTypeOK
  <2>2. V4l2TypeOK' /\ RequestTypeOK' /\ ClientTypeOK' /\ KernelTypeOK'
    BY DEF TypeOK, V4l2TypeOK, RequestTypeOK, ClientTypeOK, KernelTypeOK
  <2>3. FlagTypeOK'
    BY DEF TypeOK, FlagTypeOK, Flags
  <2>4. PcTypeOK'
    BY GotoMoves DEF TypeOK, PcTypeOK, ApiLabels, OutLabels, DumpLabels, Threads
  <2>5. HasRequest'
    BY GotoMoves DEF TypeOK, RequestTypeOK, HasRequest, Unemployed, Threads, PcTypeOK
  <2> QED BY <2>1, <2>2, <2>3, <2>4, <2>5 DEF TypeOK
<1>6. CASE LockResult(t)
  <2> USE <1>6 DEF LockResult
  <2>1. SessionTypeOK'
    BY DEF TypeOK, SessionTypeOK
  <2>2. V4l2TypeOK' /\ RequestTypeOK' /\ ClientTypeOK' /\ KernelTypeOK'
    BY DEF TypeOK, V4l2TypeOK, RequestTypeOK, ClientTypeOK, KernelTypeOK
  <2>3. FlagTypeOK'
    BY DEF TypeOK, FlagTypeOK, Flags
  <2>4. PcTypeOK'
    BY GotoMoves DEF TypeOK, PcTypeOK, ApiLabels, OutLabels, DumpLabels, Threads
  <2>5. HasRequest'
    BY GotoMoves DEF TypeOK, RequestTypeOK, HasRequest, Unemployed, Threads, PcTypeOK
  <2> QED BY <2>1, <2>2, <2>3, <2>4, <2>5 DEF TypeOK
<1>7. CASE LockResultTimeout(t)
  <2> USE <1>7 DEF LockResultTimeout, AfterResult
  <2>1. RequestTypeOK'
    BY DEF TypeOK, RequestTypeOK
  <2>2. ClientTypeOK'
    BY DEF TypeOK, ClientTypeOK, HasRequest, Unemployed, Request
  <2>3. SessionTypeOK' /\ V4l2TypeOK' /\ KernelTypeOK'
    BY DEF TypeOK, SessionTypeOK, V4l2TypeOK, KernelTypeOK
  <2>4. FlagTypeOK'
    BY DEF TypeOK, FlagTypeOK, Flags
  <2>5. PcTypeOK'
    BY GotoMoves DEF TypeOK, PcTypeOK, ApiLabels, OutLabels, DumpLabels, Threads
  <2>6. HasRequest'
    BY GotoMoves DEF TypeOK, RequestTypeOK, HasRequest, Unemployed, Threads, PcTypeOK
  <2> QED BY <2>1, <2>2, <2>3, <2>4, <2>5, <2>6 DEF TypeOK
<1>8. CASE DeliverResult(t)
  <2> USE <1>8 DEF DeliverResult, AfterResult
  <2>1. SessionTypeOK'
    BY DEF TypeOK, SessionTypeOK
  <2>2. RequestTypeOK'
    BY DEF TypeOK, RequestTypeOK
  <2>3. ClientTypeOK'
    BY DEF TypeOK, ClientTypeOK, HasRequest, Unemployed, Request
  <2>4. V4l2TypeOK' /\ KernelTypeOK'
    BY DEF TypeOK, V4l2TypeOK, KernelTypeOK
  <2>5. FlagTypeOK'
    BY DEF TypeOK, FlagTypeOK, Flags
  <2>6. PcTypeOK'
    BY GotoMoves DEF TypeOK, PcTypeOK, ApiLabels, OutLabels, DumpLabels, Threads
  <2>7. HasRequest'
    BY GotoMoves DEF TypeOK, RequestTypeOK, HasRequest, Unemployed, Threads, PcTypeOK
  <2> QED BY <2>1, <2>2, <2>3, <2>4, <2>5, <2>6, <2>7 DEF TypeOK
<1> QED BY <1>1, <1>2, <1>3, <1>4, <1>5, <1>6, <1>7, <1>8 DEF ReturnRequest

\* What the binder thread does inside a method keeps the types.
LEMMA ApiStepType == ASSUME TypeOK, ApiStep PROVE TypeOK'
<1>1. CASE ConfigureV4l2
  <2> USE <1>1 DEF ConfigureV4l2, Return
  <2>1. SessionTypeOK'
    BY DEF TypeOK, SessionTypeOK
  <2>2. V4l2TypeOK'
    BY ReconfigurationType, ConstantsAssumption DEF TypeOK, V4l2TypeOK, ConstantsAssumption
  <2>3. RequestTypeOK' /\ ClientTypeOK' /\ KernelTypeOK'
    BY DEF TypeOK, RequestTypeOK, ClientTypeOK, KernelTypeOK
  <2>4. FlagTypeOK'
    <3>1. {mV4l2Streaming', kAllocated', kStreaming'} \subseteq BOOLEAN
      BY ReconfigurationFlags, ConstantsAssumption DEF TypeOK, RequestTypeOK, FlagTypeOK, Flags, ConstantsAssumption
    <3> QED BY <3>1 DEF TypeOK, FlagTypeOK, Flags
  <2>5. PcTypeOK'
    BY GotoMoves DEF TypeOK, PcTypeOK, ApiLabels, OutLabels, DumpLabels, Threads
  <2>6. HasRequest'
    BY GotoMoves DEF TypeOK, RequestTypeOK, HasRequest, Unemployed, Threads, PcTypeOK
  <2> QED BY <2>1, <2>2, <2>3, <2>4, <2>5, <2>6 DEF TypeOK
<1>2. CASE WaitIdle
  <2> USE <1>2 DEF WaitIdle
  <2>1. SessionTypeOK' /\ V4l2TypeOK' /\ RequestTypeOK' /\ ClientTypeOK' /\ KernelTypeOK'
    BY DEF TypeOK, SessionTypeOK, V4l2TypeOK, RequestTypeOK, ClientTypeOK, KernelTypeOK
  <2>2. FlagTypeOK'
    BY DEF TypeOK, FlagTypeOK, Flags
  <2>3. PcTypeOK'
    BY GotoMoves DEF TypeOK, PcTypeOK, ApiLabels, OutLabels, DumpLabels, Threads
  <2>4. HasRequest'
    BY GotoMoves DEF TypeOK, RequestTypeOK, HasRequest, Unemployed, Threads, PcTypeOK
  <2> QED BY <2>1, <2>2, <2>3, <2>4 DEF TypeOK
<1>3. CASE Reconfigure
  <2> USE <1>3 DEF Reconfigure
  <2>1. V4l2TypeOK'
    BY ReconfigurationType DEF TypeOK, RequestTypeOK
  <2>2. SessionTypeOK' /\ RequestTypeOK' /\ ClientTypeOK' /\ KernelTypeOK'
    BY DEF TypeOK, SessionTypeOK, RequestTypeOK, ClientTypeOK, KernelTypeOK
  <2>3. FlagTypeOK'
    <3>1. {mV4l2Streaming', kAllocated', kStreaming'} \subseteq BOOLEAN
      BY ReconfigurationFlags, ConstantsAssumption DEF TypeOK, RequestTypeOK, FlagTypeOK, Flags, ConstantsAssumption
    <3> QED BY <3>1 DEF TypeOK, FlagTypeOK, Flags
  <2>4. PcTypeOK'
    BY GotoMoves DEF TypeOK, PcTypeOK, ApiLabels, OutLabels, DumpLabels, Threads
  <2>5. HasRequest'
    BY GotoMoves DEF TypeOK, RequestTypeOK, HasRequest, Unemployed, Threads, PcTypeOK
  <2> QED BY <2>1, <2>2, <2>3, <2>4, <2>5 DEF TypeOK
<1>4. CASE ImportRequest
  <2> USE <1>4 DEF ImportRequest, LeaveRequest, Return
  <2>1. RequestTypeOK'
    BY ConstantsAssumption DEF TypeOK, RequestTypeOK, Threads, ConstantsAssumption
  <2>2. SessionTypeOK' /\ V4l2TypeOK' /\ ClientTypeOK' /\ KernelTypeOK'
    BY DEF TypeOK, SessionTypeOK, V4l2TypeOK, ClientTypeOK, KernelTypeOK
  <2>3. FlagTypeOK'
    BY DEF TypeOK, FlagTypeOK, Flags
  <2>4. PcTypeOK'
    BY GotoMoves DEF TypeOK, PcTypeOK, ApiLabels, OutLabels, DumpLabels, Threads
  <2>5. HasRequest'
    BY GotoMoves DEF TypeOK, RequestTypeOK, HasRequest, Unemployed, Threads, PcTypeOK
  <2> QED BY <2>1, <2>2, <2>3, <2>4, <2>5 DEF TypeOK
<1>5. CASE Dequeue
  <2> USE <1>5 DEF Dequeue
  <2>1. SessionTypeOK' /\ V4l2TypeOK' /\ RequestTypeOK' /\ ClientTypeOK' /\ KernelTypeOK'
    BY DEF TypeOK, SessionTypeOK, V4l2TypeOK, RequestTypeOK, ClientTypeOK, KernelTypeOK
  <2>2. FlagTypeOK'
    BY DEF TypeOK, FlagTypeOK, Flags
  <2>3. PcTypeOK'
    BY GotoMoves DEF TypeOK, PcTypeOK, ApiLabels, OutLabels, DumpLabels, Threads
  <2>4. HasRequest'
    BY GotoMoves DEF TypeOK, RequestTypeOK, HasRequest, Unemployed, Threads, PcTypeOK
  <2> QED BY <2>1, <2>2, <2>3, <2>4 DEF TypeOK
<1>6. CASE BufferWaitTimeout
  <2> USE <1>6 DEF BufferWaitTimeout, LeaveRequest, Return
  <2>1. RequestTypeOK'
    BY ConstantsAssumption DEF TypeOK, RequestTypeOK, Threads, ConstantsAssumption
  <2>2. SessionTypeOK' /\ V4l2TypeOK' /\ ClientTypeOK' /\ KernelTypeOK'
    BY DEF TypeOK, SessionTypeOK, V4l2TypeOK, ClientTypeOK, KernelTypeOK
  <2>3. FlagTypeOK'
    BY DEF TypeOK, FlagTypeOK, Flags
  <2>4. PcTypeOK'
    BY GotoMoves DEF TypeOK, PcTypeOK, ApiLabels, OutLabels, DumpLabels, Threads
  <2>5. HasRequest'
    BY GotoMoves DEF TypeOK, RequestTypeOK, HasRequest, Unemployed, Threads, PcTypeOK
  <2> QED BY <2>1, <2>2, <2>3, <2>4, <2>5 DEF TypeOK
<1>7. CASE SpuriousBufferWakeup
  <2> USE <1>7 DEF SpuriousBufferWakeup, AfterBufferReturned
  <2>1. SessionTypeOK' /\ V4l2TypeOK' /\ RequestTypeOK' /\ ClientTypeOK' /\ KernelTypeOK'
    BY DEF TypeOK, SessionTypeOK, V4l2TypeOK, RequestTypeOK, ClientTypeOK, KernelTypeOK
  <2>2. FlagTypeOK'
    BY DEF TypeOK, FlagTypeOK, Flags
  <2>3. PcTypeOK'
    BY GotoMoves DEF TypeOK, PcTypeOK, ApiLabels, OutLabels, DumpLabels, Threads
  <2>4. HasRequest'
    BY GotoMoves DEF TypeOK, RequestTypeOK, HasRequest, Unemployed, Threads, PcTypeOK
  <2> QED BY <2>1, <2>2, <2>3, <2>4 DEF TypeOK
<1>8. CASE DequeueFrame
  <2> USE <1>8 DEF DequeueFrame
  <2>1. cur'["api"] \in Request /\ cur'["out"] = cur["out"]
    <3>1. Head(kQueue) \in Nat /\ cur["api"] \in Request /\ epoch \in 0..MaxConfigs
      BY DEF TypeOK, V4l2TypeOK, HasRequest, Unemployed, Threads
    <3>2. [cur["api"] EXCEPT !.idx = Head(kQueue), !.epoch = epoch] \in Request
      BY <3>1 DEF Request
    <3> QED BY <3>2 DEF TypeOK, RequestTypeOK, Threads
  <2>2. V4l2TypeOK'
    BY DEF TypeOK, V4l2TypeOK
  <2>3. RequestTypeOK'
    BY <2>1 DEF TypeOK, RequestTypeOK, Threads
  <2>4. SessionTypeOK' /\ ClientTypeOK' /\ KernelTypeOK'
    BY DEF TypeOK, SessionTypeOK, ClientTypeOK, KernelTypeOK
  <2>5. FlagTypeOK'
    BY DEF TypeOK, FlagTypeOK, Flags
  <2>6. PcTypeOK'
    BY GotoMoves DEF TypeOK, PcTypeOK, ApiLabels, OutLabels, DumpLabels, Threads
  <2>7. HasRequest'
    BY <2>1, GotoMoves DEF TypeOK, RequestTypeOK, HasRequest, Unemployed, Threads, PcTypeOK
  <2> QED BY <2>1, <2>2, <2>3, <2>4, <2>5, <2>6, <2>7 DEF TypeOK
<1>9. CASE DequeueFails
  <2> USE <1>9 DEF DequeueFails, LeaveRequest, Return
  <2>1. RequestTypeOK'
    BY ConstantsAssumption DEF TypeOK, RequestTypeOK, Threads, ConstantsAssumption
  <2>2. SessionTypeOK' /\ V4l2TypeOK' /\ ClientTypeOK' /\ KernelTypeOK'
    BY DEF TypeOK, SessionTypeOK, V4l2TypeOK, ClientTypeOK, KernelTypeOK
  <2>3. FlagTypeOK'
    BY DEF TypeOK, FlagTypeOK, Flags
  <2>4. PcTypeOK'
    BY GotoMoves DEF TypeOK, PcTypeOK, ApiLabels, OutLabels, DumpLabels, Threads
  <2>5. HasRequest'
    BY GotoMoves DEF TypeOK, RequestTypeOK, HasRequest, Unemployed, Threads, PcTypeOK
  <2> QED BY <2>1, <2>2, <2>3, <2>4, <2>5 DEF TypeOK
<1>10. CASE DequeueRefused
  <2> USE <1>10 DEF DequeueRefused, LeaveRequest, Return
  <2>1. V4l2TypeOK'
    <3>1. Head(kQueue) \in Nat /\ Tail(kQueue) \in Seq(Nat)
      BY DEF TypeOK, V4l2TypeOK
    <3> QED BY <3>1 DEF TypeOK, V4l2TypeOK
  <2>2. RequestTypeOK'
    BY ConstantsAssumption DEF TypeOK, RequestTypeOK, Threads, ConstantsAssumption
  <2>3. KernelTypeOK'
    BY ConstantsAssumption DEF TypeOK, KernelTypeOK, ConstantsAssumption
  <2>4. SessionTypeOK' /\ ClientTypeOK'
    BY DEF TypeOK, SessionTypeOK, ClientTypeOK
  <2>5. FlagTypeOK'
    BY DEF TypeOK, FlagTypeOK, Flags
  <2>6. PcTypeOK'
    BY GotoMoves DEF TypeOK, PcTypeOK, ApiLabels, OutLabels, DumpLabels, Threads
  <2>7. HasRequest'
    BY GotoMoves DEF TypeOK, RequestTypeOK, HasRequest, Unemployed, Threads, PcTypeOK
  <2> QED BY <2>1, <2>2, <2>3, <2>4, <2>5, <2>6, <2>7 DEF TypeOK
<1>11. CASE CountFrame
  <2> USE <1>11 DEF CountFrame, OneMoreFrame
  <2>1. KernelTypeOK'
    BY DEF TypeOK, KernelTypeOK
  <2>2. SessionTypeOK' /\ V4l2TypeOK' /\ RequestTypeOK' /\ ClientTypeOK'
    BY DEF TypeOK, SessionTypeOK, V4l2TypeOK, RequestTypeOK, ClientTypeOK
  <2>3. FlagTypeOK'
    BY DEF TypeOK, FlagTypeOK, Flags
  <2>4. PcTypeOK'
    BY GotoMoves DEF TypeOK, PcTypeOK, ApiLabels, OutLabels, DumpLabels, Threads
  <2>5. HasRequest'
    BY GotoMoves DEF TypeOK, RequestTypeOK, HasRequest, Unemployed, Threads, PcTypeOK
  <2> QED BY <2>1, <2>2, <2>3, <2>4, <2>5 DEF TypeOK
<1>12. CASE RecordInflight
  <2> USE <1>12 DEF RecordInflight
  <2>1. SessionTypeOK'
    BY DEF TypeOK, SessionTypeOK, HasRequest, Unemployed, Threads, Request
  <2>2. V4l2TypeOK' /\ RequestTypeOK' /\ ClientTypeOK' /\ KernelTypeOK'
    BY DEF TypeOK, V4l2TypeOK, RequestTypeOK, ClientTypeOK, KernelTypeOK
  <2>3. FlagTypeOK'
    BY DEF TypeOK, FlagTypeOK, Flags
  <2>4. PcTypeOK'
    BY GotoMoves DEF TypeOK, PcTypeOK, ApiLabels, OutLabels, DumpLabels, Threads
  <2>5. HasRequest'
    BY GotoMoves DEF TypeOK, RequestTypeOK, HasRequest, Unemployed, Threads, PcTypeOK
  <2> QED BY <2>1, <2>2, <2>3, <2>4, <2>5 DEF TypeOK
<1>13. CASE SubmitRequest
  <2> USE <1>13 DEF SubmitRequest, LeaveRequest, Return, PushedBack
  <2>1. RequestTypeOK'
    <3>1. cur["api"] \in Request
      BY DEF TypeOK, HasRequest, Unemployed, Threads
    <3> QED BY <3>1, ConstantsAssumption DEF TypeOK, RequestTypeOK, Threads, ConstantsAssumption
  <2>2. ClientTypeOK'
    BY DEF TypeOK, ClientTypeOK, HasRequest, Unemployed, Threads, Request
  <2>3. SessionTypeOK' /\ V4l2TypeOK' /\ KernelTypeOK'
    BY DEF TypeOK, SessionTypeOK, V4l2TypeOK, KernelTypeOK
  <2>4. FlagTypeOK'
    BY DEF TypeOK, FlagTypeOK, Flags
  <2>5. PcTypeOK'
    BY GotoMoves DEF TypeOK, PcTypeOK, ApiLabels, OutLabels, DumpLabels, Threads
  <2>6. HasRequest'
    BY GotoMoves DEF TypeOK, RequestTypeOK, HasRequest, Unemployed, Threads, PcTypeOK
  <2> QED BY <2>1, <2>2, <2>3, <2>4, <2>5, <2>6 DEF TypeOK
<1>14. CASE FlushGoesOnEarly
  <2> USE <1>14 DEF FlushGoesOnEarly
  <2>1. ClientTypeOK'
    BY DEF TypeOK, ClientTypeOK
  <2>2. SessionTypeOK' /\ V4l2TypeOK' /\ RequestTypeOK' /\ KernelTypeOK'
    BY DEF TypeOK, SessionTypeOK, V4l2TypeOK, RequestTypeOK, KernelTypeOK
  <2>3. FlagTypeOK'
    BY DEF TypeOK, FlagTypeOK, Flags
  <2>4. PcTypeOK'
    BY GotoMoves DEF TypeOK, PcTypeOK, ApiLabels, OutLabels, DumpLabels, Threads
  <2>5. HasRequest'
    BY GotoMoves DEF TypeOK, RequestTypeOK, HasRequest, Unemployed, Threads, PcTypeOK
  <2> QED BY <2>1, <2>2, <2>3, <2>4, <2>5 DEF TypeOK
<1>15. CASE NextError
  <2> USE <1>15 DEF NextError, ErrorStartsAt
  <2>1. RequestTypeOK'
    <3>1. Head(reqs) \in Request /\ Tail(reqs) \in Seq(Request)
      BY DEF TypeOK, RequestTypeOK
    <3> QED BY <3>1 DEF TypeOK, RequestTypeOK, Threads
  <2>2. SessionTypeOK' /\ V4l2TypeOK' /\ ClientTypeOK' /\ KernelTypeOK'
    BY DEF TypeOK, SessionTypeOK, V4l2TypeOK, ClientTypeOK, KernelTypeOK
  <2>3. FlagTypeOK'
    BY DEF TypeOK, FlagTypeOK, Flags
  <2>4. PcTypeOK'
    BY GotoMoves DEF TypeOK, PcTypeOK, ApiLabels, OutLabels, DumpLabels, Threads
  <2>5. HasRequest'
    BY GotoMoves DEF TypeOK, RequestTypeOK, HasRequest, Unemployed, Threads, PcTypeOK
  <2> QED BY <2>1, <2>2, <2>3, <2>4, <2>5 DEF TypeOK
<1>16. CASE FlushReturns
  <2> USE <1>16 DEF FlushReturns, Return
  <2>1. SessionTypeOK' /\ V4l2TypeOK' /\ RequestTypeOK' /\ ClientTypeOK' /\ KernelTypeOK'
    BY DEF TypeOK, SessionTypeOK, V4l2TypeOK, RequestTypeOK, ClientTypeOK, KernelTypeOK
  <2>2. FlagTypeOK'
    BY DEF TypeOK, FlagTypeOK, Flags
  <2>3. PcTypeOK'
    BY GotoMoves DEF TypeOK, PcTypeOK, ApiLabels, OutLabels, DumpLabels, Threads
  <2>4. HasRequest'
    BY GotoMoves DEF TypeOK, RequestTypeOK, HasRequest, Unemployed, Threads, PcTypeOK
  <2> QED BY <2>1, <2>2, <2>3, <2>4 DEF TypeOK
<1>17. CASE RequestExit
  <2> USE <1>17 DEF RequestExit
  <2>1. RequestTypeOK'
    BY DEF TypeOK, RequestTypeOK
  <2>2. SessionTypeOK' /\ V4l2TypeOK' /\ ClientTypeOK' /\ KernelTypeOK'
    BY DEF TypeOK, SessionTypeOK, V4l2TypeOK, ClientTypeOK, KernelTypeOK
  <2>3. FlagTypeOK'
    BY DEF TypeOK, FlagTypeOK, Flags
  <2>4. PcTypeOK'
    BY GotoMoves DEF TypeOK, PcTypeOK, ApiLabels, OutLabels, DumpLabels, Threads
  <2>5. HasRequest'
    BY GotoMoves DEF TypeOK, RequestTypeOK, HasRequest, Unemployed, Threads, PcTypeOK
  <2> QED BY <2>1, <2>2, <2>3, <2>4, <2>5 DEF TypeOK
<1>18. CASE Join
  <2> USE <1>18 DEF Join
  <2>1. SessionTypeOK' /\ V4l2TypeOK' /\ RequestTypeOK' /\ ClientTypeOK' /\ KernelTypeOK'
    BY DEF TypeOK, SessionTypeOK, V4l2TypeOK, RequestTypeOK, ClientTypeOK, KernelTypeOK
  <2>2. FlagTypeOK'
    BY DEF TypeOK, FlagTypeOK, Flags
  <2>3. PcTypeOK'
    BY GotoMoves DEF TypeOK, PcTypeOK, ApiLabels, OutLabels, DumpLabels, Threads
  <2>4. HasRequest'
    BY GotoMoves DEF TypeOK, RequestTypeOK, HasRequest, Unemployed, Threads, PcTypeOK
  <2> QED BY <2>1, <2>2, <2>3, <2>4 DEF TypeOK
<1>19. CASE Teardown
  <2> USE <1>19 DEF Teardown, Return
  <2>1. SessionTypeOK'
    BY DEF TypeOK, SessionTypeOK
  <2>2. V4l2TypeOK'
    BY DEF TypeOK, V4l2TypeOK
  <2>3. RequestTypeOK' /\ ClientTypeOK' /\ KernelTypeOK'
    BY DEF TypeOK, RequestTypeOK, ClientTypeOK, KernelTypeOK
  <2>4. FlagTypeOK'
    BY DEF TypeOK, FlagTypeOK, Flags
  <2>5. PcTypeOK'
    BY GotoMoves DEF TypeOK, PcTypeOK, ApiLabels, OutLabels, DumpLabels, Threads
  <2>6. HasRequest'
    BY GotoMoves DEF TypeOK, RequestTypeOK, HasRequest, Unemployed, Threads, PcTypeOK
  <2> QED BY <2>1, <2>2, <2>3, <2>4, <2>5, <2>6 DEF TypeOK
<1>20. CASE ReturnRequest("api")
  BY <1>20, ReturnRequestType DEF Threads
<1> QED BY <1>20, <1>1, <1>2, <1>3, <1>4, <1>5, <1>6, <1>7, <1>8, <1>9, <1>10, <1>11, <1>12, <1>13, <1>14, <1>15, <1>16, <1>17, <1>18, <1>19 DEF ApiStep

\* A step of the OutputThread keeps the types.
LEMMA OutputThreadType == ASSUME TypeOK, OutputThreadStep PROVE TypeOK'
<1>1. CASE TakeRequest
  <2> USE <1>1 DEF TakeRequest
  <2>1. RequestTypeOK'
    <3>1. Head(mRequestList) \in Request /\ Tail(mRequestList) \in Seq(Request)
      BY DEF TypeOK, RequestTypeOK
    <3> QED BY <3>1 DEF TypeOK, RequestTypeOK, Threads
  <2>2. SessionTypeOK' /\ V4l2TypeOK' /\ ClientTypeOK' /\ KernelTypeOK'
    BY DEF TypeOK, SessionTypeOK, V4l2TypeOK, ClientTypeOK, KernelTypeOK
  <2>3. FlagTypeOK'
    BY DEF TypeOK, FlagTypeOK, Flags
  <2>4. PcTypeOK'
    BY GotoMoves DEF TypeOK, PcTypeOK, ApiLabels, OutLabels, DumpLabels, Threads
  <2>5. HasRequest'
    BY GotoMoves DEF TypeOK, RequestTypeOK, HasRequest, Unemployed, Threads, PcTypeOK
  <2> QED BY <2>1, <2>2, <2>3, <2>4, <2>5 DEF TypeOK
<1>2. CASE ExitIdle
  <2> USE <1>2 DEF ExitIdle, MayExit
  <2>1. SessionTypeOK' /\ V4l2TypeOK' /\ RequestTypeOK' /\ ClientTypeOK' /\ KernelTypeOK'
    BY DEF TypeOK, SessionTypeOK, V4l2TypeOK, RequestTypeOK, ClientTypeOK, KernelTypeOK
  <2>2. FlagTypeOK'
    BY DEF TypeOK, FlagTypeOK, Flags
  <2>3. PcTypeOK'
    BY GotoMoves DEF TypeOK, PcTypeOK, ApiLabels, OutLabels, DumpLabels, Threads
  <2>4. HasRequest'
    BY GotoMoves DEF TypeOK, RequestTypeOK, HasRequest, Unemployed, Threads, PcTypeOK
  <2> QED BY <2>1, <2>2, <2>3, <2>4 DEF TypeOK
<1>3. CASE Convert
  <2> USE <1>3 DEF Convert
  <2>1. SessionTypeOK' /\ V4l2TypeOK' /\ RequestTypeOK' /\ ClientTypeOK' /\ KernelTypeOK'
    BY DEF TypeOK, SessionTypeOK, V4l2TypeOK, RequestTypeOK, ClientTypeOK, KernelTypeOK
  <2>2. FlagTypeOK'
    BY DEF TypeOK, FlagTypeOK, Flags
  <2>3. PcTypeOK'
    BY GotoMoves DEF TypeOK, PcTypeOK, ApiLabels, OutLabels, DumpLabels, Threads
  <2>4. HasRequest'
    BY GotoMoves DEF TypeOK, RequestTypeOK, HasRequest, Unemployed, Threads, PcTypeOK
  <2> QED BY <2>1, <2>2, <2>3, <2>4 DEF TypeOK
<1>4. CASE DeviceError
  <2> USE <1>4 DEF DeviceError
  <2>1. RequestTypeOK'
    BY DEF TypeOK, RequestTypeOK, Threads
  <2>2. ClientTypeOK'
    BY DEF TypeOK, ClientTypeOK, HasRequest, Unemployed, Request, Threads
  <2>3. KernelTypeOK'
    BY DEF TypeOK, KernelTypeOK, HasRequest, Unemployed, Request, Threads
  <2>4. SessionTypeOK' /\ V4l2TypeOK'
    BY DEF TypeOK, SessionTypeOK, V4l2TypeOK
  <2>5. FlagTypeOK'
    BY DEF TypeOK, FlagTypeOK, Flags
  <2>6. PcTypeOK'
    BY GotoMoves DEF TypeOK, PcTypeOK, ApiLabels, OutLabels, DumpLabels, Threads
  <2>7. HasRequest'
    BY GotoMoves DEF TypeOK, RequestTypeOK, HasRequest, Unemployed, Threads, PcTypeOK
  <2> QED BY <2>1, <2>2, <2>3, <2>4, <2>5, <2>6, <2>7 DEF TypeOK
<1>5. CASE SignalRequestDone
  <2> USE <1>5 DEF SignalRequestDone
  <2>1. SessionTypeOK' /\ V4l2TypeOK' /\ RequestTypeOK' /\ ClientTypeOK' /\ KernelTypeOK'
    BY DEF TypeOK, SessionTypeOK, V4l2TypeOK, RequestTypeOK, ClientTypeOK, KernelTypeOK
  <2>2. FlagTypeOK'
    BY DEF TypeOK, FlagTypeOK, Flags
  <2>3. PcTypeOK'
    BY GotoMoves DEF TypeOK, PcTypeOK, ApiLabels, OutLabels, DumpLabels, Threads
  <2>4. HasRequest'
    BY GotoMoves DEF TypeOK, RequestTypeOK, HasRequest, Unemployed, Threads, PcTypeOK
  <2> QED BY <2>1, <2>2, <2>3, <2>4 DEF TypeOK
<1>6. CASE ReturnRequest("out")
  BY <1>6, ReturnRequestType DEF Threads
<1> QED BY <1>6, <1>1, <1>2, <1>3, <1>4, <1>5 DEF OutputThreadStep

\* A dump keeps the types.
LEMMA DumpType == ASSUME TypeOK, DumpStep PROVE TypeOK'
<1>1. CASE DumpState
  <2> USE <1>1 DEF DumpState
  <2>1. SessionTypeOK'
    BY DEF TypeOK, SessionTypeOK
  <2>2. V4l2TypeOK' /\ RequestTypeOK' /\ ClientTypeOK' /\ KernelTypeOK'
    BY DEF TypeOK, V4l2TypeOK, RequestTypeOK, ClientTypeOK, KernelTypeOK
  <2>3. FlagTypeOK'
    BY DEF TypeOK, FlagTypeOK, Flags
  <2>4. PcTypeOK'
    BY GotoMoves DEF TypeOK, PcTypeOK, ApiLabels, OutLabels, DumpLabels, Threads
  <2>5. HasRequest'
    BY GotoMoves DEF TypeOK, RequestTypeOK, HasRequest, Unemployed, Threads, PcTypeOK
  <2> QED BY <2>1, <2>2, <2>3, <2>4, <2>5 DEF TypeOK
<1>2. CASE DumpClosed
  <2> USE <1>2 DEF DumpClosed
  <2>1. SessionTypeOK' /\ V4l2TypeOK' /\ RequestTypeOK' /\ ClientTypeOK' /\ KernelTypeOK'
    BY DEF TypeOK, SessionTypeOK, V4l2TypeOK, RequestTypeOK, ClientTypeOK, KernelTypeOK
  <2>2. FlagTypeOK'
    BY DEF TypeOK, FlagTypeOK, Flags
  <2>3. PcTypeOK'
    BY GotoMoves DEF TypeOK, PcTypeOK, ApiLabels, OutLabels, DumpLabels, Threads
  <2>4. HasRequest'
    BY GotoMoves DEF TypeOK, RequestTypeOK, HasRequest, Unemployed, Threads, PcTypeOK
  <2> QED BY <2>1, <2>2, <2>3, <2>4 DEF TypeOK
<1>3. CASE DumpOpen
  <2> USE <1>3 DEF DumpOpen
  <2>1. SessionTypeOK' /\ V4l2TypeOK' /\ RequestTypeOK' /\ ClientTypeOK' /\ KernelTypeOK'
    BY DEF TypeOK, SessionTypeOK, V4l2TypeOK, RequestTypeOK, ClientTypeOK, KernelTypeOK
  <2>2. FlagTypeOK'
    BY DEF TypeOK, FlagTypeOK, Flags
  <2>3. PcTypeOK'
    BY GotoMoves DEF TypeOK, PcTypeOK, ApiLabels, OutLabels, DumpLabels, Threads
  <2>4. HasRequest'
    BY GotoMoves DEF TypeOK, RequestTypeOK, HasRequest, Unemployed, Threads, PcTypeOK
  <2> QED BY <2>1, <2>2, <2>3, <2>4 DEF TypeOK
<1>4. CASE DumpThread
  <2> USE <1>4 DEF DumpThread
  <2>1. SessionTypeOK'
    BY DEF TypeOK, SessionTypeOK
  <2>2. V4l2TypeOK' /\ RequestTypeOK' /\ ClientTypeOK' /\ KernelTypeOK'
    BY DEF TypeOK, V4l2TypeOK, RequestTypeOK, ClientTypeOK, KernelTypeOK
  <2>3. FlagTypeOK'
    BY DEF TypeOK, FlagTypeOK, Flags
  <2>4. PcTypeOK'
    BY GotoMoves DEF TypeOK, PcTypeOK, ApiLabels, OutLabels, DumpLabels, Threads
  <2>5. HasRequest'
    BY GotoMoves DEF TypeOK, RequestTypeOK, HasRequest, Unemployed, Threads, PcTypeOK
  <2> QED BY <2>1, <2>2, <2>3, <2>4, <2>5 DEF TypeOK
<1> QED BY <1>1, <1>2, <1>3, <1>4 DEF DumpStep

\* TypeOK holds in every reachable state: threads are where the code can be,
\* and a thread that works on a request has one.
THEOREM TypeCorrect == Spec => []TypeOK
<1>1. ASSUME TypeOK, [Next]_vars PROVE TypeOK'
  <2>1. CASE Unplug
    <3> USE <1>1, <2>1 DEF Unplug
    <3>1. SessionTypeOK' /\ V4l2TypeOK' /\ RequestTypeOK' /\ ClientTypeOK' /\ KernelTypeOK'
      BY DEF TypeOK, SessionTypeOK, V4l2TypeOK, RequestTypeOK, ClientTypeOK, KernelTypeOK
    <3>2. FlagTypeOK'
      BY DEF TypeOK, FlagTypeOK, Flags
    <3>3. PcTypeOK' /\ HasRequest'
      BY DEF TypeOK, PcTypeOK, HasRequest
    <3> QED BY <3>1, <3>2, <3>3 DEF TypeOK
  <2>2. CASE UNCHANGED vars
    BY <1>1, <2>2 DEF vars, TypeOK, FlagTypeOK, Flags, SessionTypeOK, V4l2TypeOK, RequestTypeOK,
                ClientTypeOK, KernelTypeOK, PcTypeOK, HasRequest
  <2> QED
    BY <1>1, <2>1, <2>2, ApiCallType, ApiStepType, OutputThreadType, DumpType DEF Next, Crashed, Quiet
<1> QED BY <1>1, InitType, PTL DEF Spec

---------------------------------------------------------------------------
(* The flush and the result lock. *)

\* A call into the session: a flush starts with an empty list.
LEMMA ApiCallFlush ==
  ASSUME TypeOK, FlushWorksAlone, ApiCall PROVE FlushWorksAlone'
<1> USE GotoMoves DEF TypeOK, PcTypeOK, FlushWorksAlone, ReturnLabels, Threads
<1>1. CASE ConfigureStreams
  BY <1>1 DEF ConfigureStreams, Enter, MayConfigure
<1>2. CASE ProcessCaptureRequest
  BY <1>2 DEF ProcessCaptureRequest, Enter
<1>3. ASSUME NEW byClose \in BOOLEAN, Flush(byClose) PROVE FlushWorksAlone'
  BY <1>3 DEF Flush, Enter, TakenByFlush, LeftByFlush, AfterTakingList
<1> QED BY <1>1, <1>2, <1>3 DEF ApiCall

\* Returning a request takes and frees the result lock on its own behalf.
LEMMA ReturnRequestFlush ==
  ASSUME TypeOK, FlushWorksAlone, NEW t \in Threads, ReturnRequest(t) PROVE FlushWorksAlone'
<1> USE GotoMoves DEF TypeOK, PcTypeOK, FlushWorksAlone, ReturnLabels, Threads
<1>1. CASE EnqueueFrame(t)
  BY <1>1 DEF EnqueueFrame
<1>2. CASE EnqueueFails(t)
  BY <1>2 DEF EnqueueFails, AfterFailedEnqueue
<1>3. CASE UncountFrame(t)
  BY <1>3 DEF UncountFrame, AfterBufferReturned
<1>4. CASE NotifyShutter(t)
  BY <1>4 DEF NotifyShutter
<1>5. CASE EraseInflight(t)
  BY <1>5 DEF EraseInflight, Erased
<1>6. CASE LockResult(t)
  BY <1>6 DEF LockResult
<1>7. CASE LockResultTimeout(t)
  BY <1>7 DEF LockResultTimeout, AfterResult
<1>8. CASE DeliverResult(t)
  BY <1>8 DEF DeliverResult, AfterResult
<1> QED BY <1>1, <1>2, <1>3, <1>4, <1>5, <1>6, <1>7, <1>8 DEF ReturnRequest

\* Inside a method, only a flush cut short lets the OutputThread go on beside it.
LEMMA ApiStepFlush ==
  ASSUME TypeOK, FlushWorksAlone, ApiStep PROVE FlushWorksAlone'
<1> USE GotoMoves DEF TypeOK, PcTypeOK, FlushWorksAlone, ReturnLabels, Threads
<1>1. CASE ConfigureV4l2
  BY <1>1 DEF ConfigureV4l2, Return
<1>2. CASE WaitIdle
  BY <1>2 DEF WaitIdle
<1>3. CASE Reconfigure
  BY <1>3 DEF Reconfigure
<1>4. CASE ImportRequest
  BY <1>4 DEF ImportRequest, LeaveRequest, Return
<1>5. CASE Dequeue
  BY <1>5 DEF Dequeue
<1>6. CASE BufferWaitTimeout
  BY <1>6 DEF BufferWaitTimeout, LeaveRequest, Return
<1>7. CASE SpuriousBufferWakeup
  BY <1>7 DEF SpuriousBufferWakeup, AfterBufferReturned
<1>8. CASE DequeueFrame
  BY <1>8 DEF DequeueFrame
<1>9. CASE DequeueFails
  BY <1>9 DEF DequeueFails, LeaveRequest, Return
<1>10. CASE DequeueRefused
  BY <1>10 DEF DequeueRefused, LeaveRequest, Return
<1>11. CASE CountFrame
  BY <1>11 DEF CountFrame
<1>12. CASE RecordInflight
  BY <1>12 DEF RecordInflight
<1>13. CASE SubmitRequest
  BY <1>13 DEF SubmitRequest, LeaveRequest, Return
<1>14. CASE FlushGoesOnEarly
  BY <1>14 DEF FlushGoesOnEarly
<1>15. CASE NextError
  BY <1>15 DEF NextError, ErrorStartsAt
<1>16. CASE FlushReturns
  BY <1>16 DEF FlushReturns, Return
<1>17. CASE RequestExit
  BY <1>17 DEF RequestExit
<1>18. CASE Join
  BY <1>18 DEF Join
<1>19. CASE Teardown
  BY <1>19 DEF Teardown, Return
<1>20. CASE ReturnRequest("api")
  BY <1>20, ReturnRequestFlush
<1> QED BY <1>1, <1>2, <1>3, <1>4, <1>5, <1>6, <1>7, <1>8, <1>9, <1>10, <1>11, <1>12, <1>13, <1>14, <1>15, <1>16, <1>17, <1>18, <1>19, <1>20 DEF ApiStep

\* The OutputThread takes a request only from a list no flush has emptied.
LEMMA OutputThreadFlush ==
  ASSUME TypeOK, FlushWorksAlone, OutputThreadStep PROVE FlushWorksAlone'
<1> USE GotoMoves DEF TypeOK, PcTypeOK, FlushWorksAlone, ReturnLabels, Threads
<1>1. CASE TakeRequest
  BY <1>1 DEF TakeRequest
<1>2. CASE ExitIdle
  BY <1>2 DEF ExitIdle
<1>3. CASE Convert
  BY <1>3 DEF Convert
<1>4. CASE DeviceError
  BY <1>4 DEF DeviceError
<1>5. CASE SignalRequestDone
  BY <1>5 DEF SignalRequestDone
<1>6. CASE ReturnRequest("out")
  BY <1>6, ReturnRequestFlush
<1> QED BY <1>1, <1>2, <1>3, <1>4, <1>5, <1>6 DEF OutputThreadStep

\* A dump touches none of this.
LEMMA DumpFlush ==
  ASSUME TypeOK, FlushWorksAlone, DumpStep PROVE FlushWorksAlone'
<1> USE GotoMoves DEF TypeOK, PcTypeOK, FlushWorksAlone, ReturnLabels, Threads
<1>1. CASE DumpState
  BY <1>1 DEF DumpState
<1>2. CASE DumpClosed
  BY <1>2 DEF DumpClosed
<1>3. CASE DumpOpen
  BY <1>3 DEF DumpOpen
<1>4. CASE DumpThread
  BY <1>4 DEF DumpThread
<1> QED BY <1>1, <1>2, <1>3, <1>4 DEF DumpStep


\* A step drops a result only by the timeout on the result lock, and no step
\* forgets that a flush went on early.
LEMMA DroppedStep ==
  ASSUME Next
  PROVE  \/ \E t \in Threads : LockResultTimeout(t)
         \/ dropped' = dropped /\ (flushEarly => flushEarly')
<1>1. ASSUME NEW t \in Threads, ReturnRequest(t), ~LockResultTimeout(t)
      PROVE  dropped' = dropped /\ flushEarly' = flushEarly
  BY <1>1 DEF ReturnRequest, EnqueueFrame, EnqueueFails, UncountFrame, NotifyShutter, EraseInflight,
              LockResult, DeliverResult
<1>2. ASSUME ApiCall PROVE dropped' = dropped /\ flushEarly' = flushEarly
  BY <1>2 DEF ApiCall, ConfigureStreams, ProcessCaptureRequest, Flush
<1>3. ASSUME ApiStep, ~ReturnRequest("api")
      PROVE  dropped' = dropped /\ (flushEarly => flushEarly')
  BY <1>3 DEF ApiStep, ConfigureV4l2, WaitIdle, Reconfigure, ImportRequest, Dequeue, BufferWaitTimeout,
              SpuriousBufferWakeup, DequeueFrame, DequeueFails, DequeueRefused, CountFrame,
              RecordInflight, SubmitRequest, FlushGoesOnEarly, NextError, FlushReturns, RequestExit,
              Join, Teardown
<1>4. ASSUME OutputThreadStep, ~ReturnRequest("out")
      PROVE  dropped' = dropped /\ flushEarly' = flushEarly
  BY <1>4 DEF OutputThreadStep, TakeRequest, ExitIdle, Convert, DeviceError, SignalRequestDone
<1>5. ASSUME DumpStep \/ Unplug \/ Crashed \/ Quiet
      PROVE  dropped' = dropped /\ flushEarly' = flushEarly
  BY <1>5 DEF DumpStep, DumpState, DumpClosed, DumpOpen, DumpThread, Unplug, Crashed, Quiet, vars
<1> QED BY <1>1, <1>2, <1>3, <1>4, <1>5 DEF Next, Threads

\* A flush that was not cut short works alone, whatever the threads do and
\* however many requests there are.
THEOREM FlushAlone == Spec => []FlushWorksAlone
<1>1. Init => FlushWorksAlone
  BY DEF Init, FlushWorksAlone, ReturnLabels, Threads
<1>2. ASSUME TypeOK, FlushWorksAlone, [Next]_vars PROVE FlushWorksAlone'
  <2>1. CASE Unplug
    BY <1>2, <2>1 DEF Unplug, FlushWorksAlone
  <2>2. CASE UNCHANGED vars
    BY <1>2, <2>2 DEF vars, FlushWorksAlone
  <2> QED
    BY <1>2, <2>1, <2>2, ApiCallFlush, ApiStepFlush, OutputThreadFlush, DumpFlush DEF Next, Crashed, Quiet
<1> QED BY <1>1, <1>2, TypeCorrect, PTL DEF Spec

\* A result is lost to the result lock only after a flush was cut short.
THEOREM ResultsDelivered == Spec => []DroppedOnlyAfterEarlyFlush
<1>1. Init => DroppedOnlyAfterEarlyFlush
  BY DEF Init, DroppedOnlyAfterEarlyFlush
<1>2. ASSUME TypeOK, FlushWorksAlone, DroppedOnlyAfterEarlyFlush, [Next]_vars
      PROVE  DroppedOnlyAfterEarlyFlush'
  <2>1. ASSUME NEW t \in Threads, LockResultTimeout(t) PROVE flushEarly
    <3>1. pc[mProcessCaptureResultLock] = "callback" /\ mProcessCaptureResultLock \in Threads \ {t}
      BY <1>2, <2>1 DEF LockResultTimeout, TypeOK, SessionTypeOK, FlushWorksAlone
    <3>2. pc["api"] \in ReturnLabels /\ pc["out"] \in ReturnLabels
      BY <2>1, <3>1 DEF LockResultTimeout, Threads, ReturnLabels
    <3> QED BY <1>2, <3>2 DEF FlushWorksAlone
  <2>2. ASSUME NEW t \in Threads, LockResultTimeout(t) PROVE flushEarly' = flushEarly
    BY <2>2 DEF LockResultTimeout
  <2>3. CASE Next
    BY <1>2, <2>1, <2>2, <2>3, DroppedStep DEF DroppedOnlyAfterEarlyFlush
  <2>4. CASE UNCHANGED vars
    BY <1>2, <2>4 DEF vars, DroppedOnlyAfterEarlyFlush
  <2> QED BY <1>2, <2>3, <2>4
<1> QED BY <1>1, <1>2, TypeCorrect, FlushAlone, PTL DEF Spec

---------------------------------------------------------------------------
(* Where the requests are. *)

Nums(s)     == {s[i].num : i \in 1..Len(s)}
Distinct(s) == \A i, j \in 1..Len(s) : s[i].num = s[j].num => i = j

\* A request between the entry of processCaptureRequest and submitRequest ...
Submitting == {"waitIdle", "idleWaiting", "reconfigure", "import", "dequeue", "dequeueWaiting",
               "dqbuf", "count", "record", "submit"}

\* ... and one a thread has taken from a list and has yet to return.
Returning(t) == pc[t] \in {"convert"} \cup ReturnLabels

Recorded == {"submit", "convert", "qbuf", "uncount", "shutter", "erase"}

Listed  == Nums(mRequestList) \cup Nums(reqs)
Pending == Listed \cup {cur[t].num : t \in {u \in Threads : Returning(u)}}

\* An accepted request is in one place.
OnePlace ==
  /\ Distinct(mRequestList) /\ Distinct(reqs)
  /\ Nums(mRequestList) \cap Nums(reqs) = {}
  /\ \A t \in Threads : Returning(t) => cur[t].num \notin Listed
  /\ Returning("api") /\ Returning("out") => cur["api"].num # cur["out"].num

\* Requests are numbered in the order of their calls.
Numbered ==
  /\ \A f \in accepted : f < nextFrame
  /\ pc["api"] \in Submitting => cur["api"].num = nextFrame - 1 /\ cur["api"].num \notin accepted

\* It is to be answered, has been, or was lost in a known way.
Answers ==
  /\ Pending \cup deviceError \cup dropped \subseteq accepted
  /\ \A f \in Pending : results[f] = 0 /\ f \notin deviceError /\ f \notin dropped
  /\ \A f \in Frames : results[f] \in {0, 1} /\ (f \notin accepted => results[f] = 0)
  /\ \A f \in accepted : f \in Pending \cup deviceError \cup dropped \/ results[f] = 1

Inflight ==
  mInflightFrames = Listed \cup {cur[t].num : t \in {u \in Threads : pc[u] \in Recorded}} \cup deviceError

\* close() ends with nothing left: the flush before it has emptied both lists, and only
\* the thread that waits in join() could add a request.
Ending ==
  /\ pc["api"] \notin {"flushWaiting", "nextError"} \cup ReturnLabels => reqs = <<>>
  /\ pc["api"] \in {"join", "teardown"} \/ mClosed => mRequestList = <<>>
  /\ pc["api"] = "teardown" \/ mClosed => pc["out"] = "exited"
  /\ mClosed => pc["api"] = "idle"

AInv == OnePlace /\ Numbered /\ Answers /\ Inflight /\ Ending

---------------------------------------------------------------------------
(* Lists of requests. *)

LEMMA NumsOfTail ==
  ASSUME NEW s \in Seq(Request), s # <<>>, Distinct(s)
  PROVE  /\ Nums(s) = Nums(Tail(s)) \cup {Head(s).num}
         /\ Head(s).num \notin Nums(Tail(s))
         /\ Distinct(Tail(s))
<1>1. /\ Len(s) \in Nat \ {0} /\ Len(Tail(s)) = Len(s) - 1
      /\ \A i \in 1..Len(Tail(s)) : Tail(s)[i] = s[i+1]
      /\ Head(s) = s[1]
  BY HeadTailProperties, EmptySeq
<1>2. \A i \in 1..Len(s) : i = 1 \/ (i - 1 \in 1..Len(Tail(s)) /\ s[i] = Tail(s)[i - 1])
  BY <1>1
<1>3. \A i \in 1..Len(Tail(s)) : i + 1 \in 1..Len(s) /\ i + 1 # 1
  BY <1>1
<1>4. Distinct(Tail(s))
  <2> SUFFICES ASSUME NEW i \in 1..Len(Tail(s)), NEW j \in 1..Len(Tail(s)),
                      Tail(s)[i].num = Tail(s)[j].num
               PROVE  i = j
    BY DEF Distinct
  <2>1. i + 1 = j + 1
    BY <1>1, <1>3 DEF Distinct
  <2> QED BY <2>1
<1>5. Head(s).num \notin Nums(Tail(s))
  BY <1>1, <1>3 DEF Distinct, Nums
<1>6. Nums(s) \subseteq Nums(Tail(s)) \cup {Head(s).num}
  BY <1>1, <1>2, SMTT(30) DEF Nums
<1>7. Nums(Tail(s)) \cup {Head(s).num} \subseteq Nums(s)
  BY <1>1, <1>3 DEF Nums
<1> QED BY <1>4, <1>5, <1>6, <1>7

LEMMA NumsOfAppend ==
  ASSUME NEW s \in Seq(Request), NEW r \in Request, Distinct(s), r.num \notin Nums(s)
  PROVE  Nums(Append(s, r)) = Nums(s) \cup {r.num} /\ Distinct(Append(s, r))
<1>1. /\ Len(s) \in Nat /\ Len(Append(s, r)) = Len(s) + 1
      /\ \A i \in 1..Len(s) : Append(s, r)[i] = s[i]
      /\ Append(s, r)[Len(s) + 1] = r
  BY AppendProperties
<1>2. \A i \in 1..Len(Append(s, r)) : i \in 1..Len(s) \/ i = Len(s) + 1
  BY <1>1
<1>3. \A i \in 1..Len(s) : i \in 1..Len(Append(s, r)) /\ s[i].num # r.num
  BY <1>1 DEF Nums
<1>4. Distinct(Append(s, r))
  <2> SUFFICES ASSUME NEW i \in 1..Len(Append(s, r)), NEW j \in 1..Len(Append(s, r)),
                      Append(s, r)[i].num = Append(s, r)[j].num
               PROVE  i = j
    BY DEF Distinct
  <2> QED BY <1>1, <1>2, <1>3 DEF Distinct
<1>5. Nums(Append(s, r)) \subseteq Nums(s) \cup {r.num}
  BY <1>1, <1>2 DEF Nums
<1>6. Nums(s) \cup {r.num} \subseteq Nums(Append(s, r))
  <2>1. Len(s) + 1 \in 1..Len(Append(s, r))
    BY <1>1
  <2> QED BY <1>1, <1>3, <2>1 DEF Nums
<1> QED BY <1>4, <1>5, <1>6

LEMMA NumsOfNone == Nums(<<>>) = {} /\ Distinct(<<>>)
BY DEF Nums, Distinct

---------------------------------------------------------------------------
(* Steps that leave the requests where they are. *)

\* The control point of a thread, and the request in its hands, matter only as far as
\* they say where the request is.
LEMMA QuietStep ==
  ASSUME AInv,
         UNCHANGED <<mRequestList, reqs, accepted, results, dropped, deviceError, mInflightFrames, nextFrame>>,
         \A t \in Threads : /\ Returning(t)' <=> Returning(t)
                            /\ pc'[t] \in Recorded <=> pc[t] \in Recorded
                            /\ Returning(t) \/ pc[t] \in Recorded => cur'[t].num = cur[t].num,
         pc'["api"] \in Submitting => pc["api"] \in Submitting /\ cur'["api"].num = cur["api"].num,
         Ending'
  PROVE  AInv'
<1> USE DEF AInv
<1>1. OnePlace'
  BY DEF OnePlace, Threads, Listed
<1>2. Numbered'
  BY DEF Numbered
<1>3. Pending' = Pending
  BY DEF Pending, Listed
<1>4. Answers'
  BY <1>3 DEF Answers
<1>5. Inflight'
  <2>1. {cur'[t].num : t \in {u \in Threads : pc'[u] \in Recorded}}
          = {cur[t].num : t \in {u \in Threads : pc[u] \in Recorded}}
    OBVIOUS
  <2> QED BY <2>1 DEF Inflight, Listed
<1> QED BY <1>1, <1>2, <1>4, <1>5

\* The steps of the binder thread that change neither a list nor an answer.
LEMMA ApiQuietStep ==
  ASSUME TypeOK, FlushWorksAlone, AInv,
         \/ ConfigureStreams \/ ConfigureV4l2 \/ WaitIdle \/ Reconfigure \/ ImportRequest \/ Dequeue
         \/ BufferWaitTimeout \/ SpuriousBufferWakeup \/ DequeueFrame \/ DequeueFails \/ DequeueRefused
         \/ CountFrame \/ FlushGoesOnEarly \/ FlushReturns \/ RequestExit \/ Join \/ Teardown
  PROVE  AInv'
<1> USE GotoMoves DEF TypeOK, PcTypeOK, Threads
<1>1. ASSUME UNCHANGED <<mRequestList, reqs, accepted, results, dropped, deviceError, mInflightFrames,
                         nextFrame>>,
             NEW from \in ApiLabels, NEW to \in ApiLabels,
             pc["api"] = from, Goto("api", to), cur'["out"] = cur["out"],
             {from, to} \cap ReturnLabels = {},
             from \in Recorded <=> to \in Recorded,
             to \in Submitting => from \in Submitting,
             to \in Submitting \cup Recorded => cur'["api"].num = cur["api"].num,
             Ending'
      PROVE  AInv'
  <2>1. pc'["api"] = to /\ pc'["out"] = pc["out"]
    BY <1>1
  <2>2. from \notin {"convert"} /\ to \notin {"convert"}
    BY DEF ApiLabels
  <2>3. ~Returning("api") /\ ~Returning("api")' /\ (Returning("out")' <=> Returning("out"))
    BY <1>1, <2>1, <2>2 DEF Returning
  <2> QED BY <1>1, <2>1, <2>3, QuietStep
<1> USE DEF ApiLabels, Submitting, Recorded, ReturnLabels
<1>2. CASE ConfigureStreams
  <2>1. Ending'
    BY <1>2 DEF ConfigureStreams, MayConfigure, Enter, AInv, Ending
  <2> QED BY <1>1, <1>2, <2>1 DEF ConfigureStreams, Enter
<1>3. CASE ConfigureV4l2
  <2>1. Ending'
    BY <1>3 DEF ConfigureV4l2, Return, AInv, Ending
  <2> QED BY <1>1, <1>3, <2>1 DEF ConfigureV4l2, Return
<1>4. CASE WaitIdle
  <2>1. Ending'
    BY <1>4 DEF WaitIdle, AInv, Ending
  <2> QED BY <1>1, <1>4, <2>1 DEF WaitIdle
<1>5. CASE Reconfigure
  <2>1. Ending'
    BY <1>5 DEF Reconfigure, AInv, Ending
  <2> QED BY <1>1, <1>5, <2>1 DEF Reconfigure
<1>6. ASSUME LeaveRequest, pc["api"] \in Submitting \ Recorded,
             UNCHANGED <<mRequestList, reqs, accepted, results, dropped, deviceError, mInflightFrames,
                         nextFrame, mClosed>>
      PROVE  AInv'
  <2>1. pc'["api"] = "idle" /\ pc["api"] \notin {"idle", "flushWaiting", "nextError"} \cup ReturnLabels
    BY <1>6 DEF LeaveRequest, Return
  <2>2. Ending'
    BY <1>6, <2>1 DEF AInv, Ending
  <2>3. cur'["out"] = cur["out"]
    BY <1>6 DEF LeaveRequest, RequestTypeOK
  <2> QED BY <1>1, <1>6, <2>2, <2>3 DEF LeaveRequest, Return
<1>7. CASE ImportRequest
  <2>1. CASE Goto("api", "dequeue") /\ UNCHANGED cur
    <3>1. Ending'
      BY <1>7, <2>1 DEF ImportRequest, AInv, Ending
    <3> QED BY <1>1, <1>7, <2>1, <3>1 DEF ImportRequest
  <2> QED BY <1>6, <1>7, <2>1 DEF ImportRequest
<1>8. CASE Dequeue
  <2>1. Ending'
    BY <1>8 DEF Dequeue, AInv, Ending
  <2> QED BY <1>1, <1>8, <2>1 DEF Dequeue
<1>9. CASE BufferWaitTimeout \/ DequeueFails \/ DequeueRefused
  BY <1>6, <1>9 DEF BufferWaitTimeout, DequeueFails, DequeueRefused
<1>10. CASE SpuriousBufferWakeup
  <2>1. Ending'
    BY <1>10 DEF SpuriousBufferWakeup, AfterBufferReturned, AInv, Ending
  <2> QED BY <1>1, <1>10, <2>1 DEF SpuriousBufferWakeup, AfterBufferReturned
<1>11. CASE DequeueFrame
  <2>1. Ending'
    BY <1>11 DEF DequeueFrame, AInv, Ending
  <2>2. cur["api"] \in Request /\ cur \in [Threads -> Request \cup {NoReq}]
    BY <1>11 DEF DequeueFrame, HasRequest, Unemployed, RequestTypeOK
  <2>3. cur'["out"] = cur["out"] /\ cur'["api"].num = cur["api"].num
    BY <1>11, <2>2 DEF DequeueFrame, Request
  <2> QED BY <1>1, <1>11, <2>1, <2>3 DEF DequeueFrame
<1>12. CASE CountFrame
  <2>1. Ending'
    BY <1>12 DEF CountFrame, AInv, Ending
  <2> QED BY <1>1, <1>12, <2>1 DEF CountFrame
<1>13. CASE FlushGoesOnEarly
  <2>1. Ending'
    BY <1>13 DEF FlushGoesOnEarly, AInv, Ending
  <2> QED BY <1>1, <1>13, <2>1 DEF FlushGoesOnEarly
<1>14. CASE FlushReturns
  <2>1. Ending'
    BY <1>14 DEF FlushReturns, Return, AInv, Ending
  <2> QED BY <1>1, <1>14, <2>1 DEF FlushReturns, Return
<1>15. CASE RequestExit
  <2>1. Ending'
    BY <1>15 DEF RequestExit, AInv, Ending, FlushWorksAlone
  <2> QED BY <1>1, <1>15, <2>1 DEF RequestExit
<1>16. CASE Join
  <2>1. Ending'
    BY <1>16 DEF Join, AInv, Ending
  <2> QED BY <1>1, <1>16, <2>1 DEF Join
<1>17. CASE Teardown
  <2>1. Ending'
    BY <1>17 DEF Teardown, Return, AInv, Ending
  <2> QED BY <1>1, <1>17, <2>1 DEF Teardown, Return
<1> QED
  BY <1>2, <1>3, <1>4, <1>5, <1>7, <1>8, <1>9, <1>10, <1>11, <1>12, <1>13, <1>14, <1>15, <1>16, <1>17

\* The steps with which a thread returns a request, but for the two that change what is
\* known of it.
LEMMA ReturnQuietStep ==
  ASSUME TypeOK, FlushWorksAlone, AInv, NEW t \in Threads,
         \/ EnqueueFrame(t) \/ EnqueueFails(t) \/ UncountFrame(t) \/ NotifyShutter(t) \/ LockResult(t)
  PROVE  AInv'
<1> USE GotoMoves DEF TypeOK, PcTypeOK, Threads
<1>1. /\ UNCHANGED <<mRequestList, reqs, accepted, results, dropped, deviceError, mInflightFrames,
                     nextFrame, cur, mClosed>>
      /\ pc[t] \in ReturnLabels \ {"callback"}
  BY DEF EnqueueFrame, EnqueueFails, UncountFrame, NotifyShutter, LockResult, ReturnLabels
<1>2. /\ pc'[t] \in ReturnLabels
      /\ pc[t] \in Recorded <=> pc'[t] \in Recorded
  BY DEF EnqueueFrame, EnqueueFails, AfterFailedEnqueue, UncountFrame, NotifyShutter, LockResult,
         ReturnLabels, Recorded
<1>3. \A u \in Threads \ {t} :
        \/ pc'[u] = pc[u]
        \/ u = "api" /\ <<pc[u], pc'[u]>> \in {<<"idleWaiting", "waitIdle">>, <<"dequeueWaiting", "dqbuf">>}
  BY DEF EnqueueFrame, EnqueueFails, AfterFailedEnqueue, UncountFrame, AfterBufferReturned,
         NotifyShutter, LockResult
<1>4. /\ Returning("api")' <=> Returning("api")
      /\ Returning("out")' <=> Returning("out")
  BY <1>1, <1>2, <1>3 DEF Returning, ReturnLabels
<1>5. /\ pc["api"] \in Recorded <=> pc'["api"] \in Recorded
      /\ pc["out"] \in Recorded <=> pc'["out"] \in Recorded
  BY <1>2, <1>3 DEF Recorded
<1>6. pc'["api"] \in Submitting => pc["api"] \in Submitting
  BY <1>2, <1>3 DEF Submitting, ReturnLabels
<1>7. Ending'
  BY <1>1, <1>2, <1>3 DEF AInv, Ending, ReturnLabels
<1> QED BY <1>1, <1>4, <1>5, <1>6, <1>7, QuietStep

\* The steps of the OutputThread between two requests.
LEMMA OutputQuietStep ==
  ASSUME TypeOK, FlushWorksAlone, AInv, ExitIdle \/ Convert \/ SignalRequestDone
  PROVE  AInv'
<1> USE GotoMoves DEF TypeOK, PcTypeOK, Threads
<1>1. UNCHANGED <<mRequestList, reqs, accepted, results, dropped, deviceError, mInflightFrames,
                  nextFrame, cur, mClosed>>
  BY DEF ExitIdle, Convert, SignalRequestDone
<1>2. <<pc["out"], pc'["out"]>> \in {<<"wait", "exited">>, <<"convert", "qbuf">>, <<"done", "exited">>,
                                     <<"done", "wait">>, <<"failed", "exited">>, <<"failed", "wait">>}
  BY DEF ExitIdle, Convert, SignalRequestDone
<1>3. pc'["api"] = pc["api"] \/ <<pc["api"], pc'["api"]>> = <<"flushWaiting", "nextError">>
  BY DEF ExitIdle, Convert, SignalRequestDone
<1>4. /\ Returning("api")' <=> Returning("api")
      /\ Returning("out")' <=> Returning("out")
  BY <1>2, <1>3 DEF Returning, ReturnLabels
<1>5. /\ pc["api"] \in Recorded <=> pc'["api"] \in Recorded
      /\ pc["out"] \in Recorded <=> pc'["out"] \in Recorded
  BY <1>2, <1>3 DEF Recorded
<1>6. pc'["api"] \in Submitting => pc["api"] \in Submitting
  BY <1>3 DEF Submitting
<1>7. Ending'
  BY <1>1, <1>2, <1>3 DEF AInv, Ending, ReturnLabels
<1> QED BY <1>1, <1>4, <1>5, <1>6, <1>7, QuietStep

\* Dumps and the unplugging of the camera touch no request.
LEMMA OtherQuietStep ==
  ASSUME TypeOK, FlushWorksAlone, AInv, DumpStep \/ Unplug \/ UNCHANGED vars
  PROVE  AInv'
<1> USE GotoMoves DEF TypeOK, PcTypeOK, Threads
<1>1. /\ UNCHANGED <<mRequestList, reqs, accepted, results, dropped, deviceError, mInflightFrames,
                     nextFrame, cur, mClosed>>
      /\ pc'["api"] = pc["api"] /\ pc'["out"] = pc["out"]
  <2>1. CASE DumpState
    BY <2>1 DEF DumpState
  <2>2. CASE DumpClosed \/ DumpOpen
    BY <2>2 DEF DumpClosed, DumpOpen
  <2>3. CASE DumpThread
    BY <2>3 DEF DumpThread
  <2>4. CASE Unplug \/ UNCHANGED vars
    BY <2>4 DEF Unplug, vars
  <2> QED BY <2>1, <2>2, <2>3, <2>4 DEF DumpStep
<1>2. Ending'
  BY <1>1 DEF AInv, Ending
<1>3. /\ Returning("api")' <=> Returning("api")
      /\ Returning("out")' <=> Returning("out")
  BY <1>1 DEF Returning
<1> QED BY <1>1, <1>2, <1>3, QuietStep

---------------------------------------------------------------------------
(* Steps that move a request. *)

\* A thread is done with a request: it is nowhere else.
LEMMA RequestLeaves ==
  ASSUME TypeOK, OnePlace, NEW t \in Threads, Returning(t), ~Returning(t)',
         UNCHANGED <<mRequestList, reqs>>,
         \A u \in Threads \ {t} : (Returning(u)' <=> Returning(u)) /\ cur'[u] = cur[u]
  PROVE  /\ OnePlace'
         /\ cur[t].num \in Pending
         /\ Pending' = Pending \ {cur[t].num}
<1>1. Listed' = Listed
  BY DEF Listed
<1>2. OnePlace'
  BY <1>1 DEF OnePlace, Threads
<1>3. cur[t].num \in Pending
  BY DEF Pending
<1>4. \A u \in Threads \ {t} : Returning(u) => cur[u].num # cur[t].num
  BY DEF OnePlace, Threads
<1>5. cur[t].num \notin Listed
  BY DEF OnePlace
<1>6. Pending' = Pending \ {cur[t].num}
  <2>1. {cur'[u].num : u \in {v \in Threads : Returning(v)'}}
          = {cur[u].num : u \in {v \in Threads : Returning(v)}} \ {cur[t].num}
    <3>1. \A u \in Threads : Returning(u)' => u # t /\ Returning(u) /\ cur'[u].num = cur[u].num
      OBVIOUS
    <3>2. \A u \in Threads : Returning(u) /\ u # t => Returning(u)' /\ cur'[u].num = cur[u].num
      OBVIOUS
    <3> QED BY <1>4, <3>1, <3>2
  <2> QED BY <1>1, <1>5, <2>1 DEF Pending
<1> QED BY <1>2, <1>3, <1>6

\* A thread takes the first request of a list: it is pending as before.
LEMMA RequestTaken ==
  ASSUME TypeOK, OnePlace, NEW t \in Threads, ~Returning(t), Returning(t)',
         \/ /\ mRequestList # <<>> /\ mRequestList' = Tail(mRequestList) /\ reqs' = reqs
            /\ cur'[t] = Head(mRequestList)
         \/ /\ reqs # <<>> /\ reqs' = Tail(reqs) /\ mRequestList' = mRequestList
            /\ cur'[t] = Head(reqs),
         \A u \in Threads \ {t} : (Returning(u)' <=> Returning(u)) /\ cur'[u] = cur[u]
  PROVE  /\ OnePlace'
         /\ Pending' = Pending
         /\ Listed = Listed' \cup {cur'[t].num} /\ cur'[t].num \notin Listed'
<1>1. mRequestList \in Seq(Request) /\ reqs \in Seq(Request)
  BY DEF TypeOK, RequestTypeOK
<1>2. /\ Listed = Listed' \cup {cur'[t].num} /\ cur'[t].num \notin Listed'
      /\ Distinct(mRequestList') /\ Distinct(reqs')
      /\ Nums(mRequestList') \cap Nums(reqs') = {}
  <2>1. CASE /\ mRequestList # <<>> /\ mRequestList' = Tail(mRequestList) /\ reqs' = reqs
             /\ cur'[t] = Head(mRequestList)
    <3>1. /\ Nums(mRequestList) = Nums(mRequestList') \cup {cur'[t].num}
          /\ cur'[t].num \notin Nums(mRequestList') /\ Distinct(mRequestList')
      BY <1>1, <2>1, NumsOfTail DEF OnePlace
    <3> QED BY <2>1, <3>1 DEF OnePlace, Listed
  <2>2. CASE /\ reqs # <<>> /\ reqs' = Tail(reqs) /\ mRequestList' = mRequestList
             /\ cur'[t] = Head(reqs)
    <3>1. /\ Nums(reqs) = Nums(reqs') \cup {cur'[t].num}
          /\ cur'[t].num \notin Nums(reqs') /\ Distinct(reqs')
      BY <1>1, <2>2, NumsOfTail DEF OnePlace
    <3> QED BY <2>2, <3>1 DEF OnePlace, Listed
  <2> QED BY <2>1, <2>2
<1>3. OnePlace'
  <2>1. \A u \in Threads : Returning(u)' => cur'[u].num \notin Listed'
    BY <1>2 DEF OnePlace
  <2>2. \A u \in Threads \ {t} : Returning(u)' => cur'[u].num # cur'[t].num
    BY <1>2 DEF OnePlace
  <2> QED BY <1>2, <2>1, <2>2 DEF OnePlace, Threads
<1>4. Pending' = Pending
  <2>1. {cur'[u].num : u \in {v \in Threads : Returning(v)'}}
          = {cur[u].num : u \in {v \in Threads : Returning(v)}} \cup {cur'[t].num}
    <3>1. \A u \in Threads : Returning(u)' => u = t \/ (Returning(u) /\ cur'[u].num = cur[u].num)
      OBVIOUS
    <3>2. \A u \in Threads : Returning(u) => Returning(u)' /\ cur'[u].num = cur[u].num
      OBVIOUS
    <3> QED BY <3>1, <3>2
  <2> QED BY <1>2, <2>1 DEF Pending
<1> QED BY <1>2, <1>3, <1>4

LEMMA ProcessCaptureRequestStep == ASSUME TypeOK, AInv, ProcessCaptureRequest PROVE AInv'
<1> USE GotoMoves DEF TypeOK, PcTypeOK, Threads
<1>1. /\ UNCHANGED <<mRequestList, reqs, accepted, results, dropped, deviceError, mInflightFrames, mClosed>>
      /\ nextFrame' = nextFrame + 1 /\ ~mClosed
      /\ pc["api"] = "idle" /\ pc'["api"] \in {"import", "waitIdle"} /\ pc'["out"] = pc["out"]
  BY DEF ProcessCaptureRequest, Enter
<1>2. cur'["api"].num = nextFrame /\ cur'["out"] = cur["out"]
  <2>1. PICK s : cur' = [cur EXCEPT !["api"] = [num |-> nextFrame, streams |-> s, idx |-> 0, epoch |-> 0]]
    BY DEF ProcessCaptureRequest
  <2> QED BY <2>1 DEF RequestTypeOK
<1>3. ~Returning("api") /\ ~Returning("api")' /\ (Returning("out")' <=> Returning("out"))
  BY <1>1 DEF Returning, ReturnLabels
<1>4. OnePlace' /\ Pending' = Pending
  <2>1. {cur'[u].num : u \in {v \in Threads : Returning(v)'}} = {cur[u].num : u \in {v \in Threads : Returning(v)}}
    BY <1>2, <1>3
  <2> QED BY <1>1, <1>2, <1>3, <2>1 DEF AInv, OnePlace, Listed, Pending
<1>5. Numbered'
  <2>1. nextFrame \in Nat /\ accepted \subseteq Nat
    BY ConstantsAssumption DEF ClientTypeOK, Frames, ConstantsAssumption
  <2> QED BY <1>1, <1>2, <2>1 DEF AInv, Numbered
<1>6. Answers'
  BY <1>1, <1>4 DEF AInv, Answers
<1>7. Inflight'
  <2>1. {cur'[u].num : u \in {v \in Threads : pc'[v] \in Recorded}} = {cur[u].num : u \in {v \in Threads : pc[v] \in Recorded}}
    BY <1>1, <1>2 DEF Recorded
  <2> QED BY <1>1, <2>1 DEF AInv, Inflight, Listed
<1>8. Ending'
  BY <1>1 DEF AInv, Ending, ReturnLabels
<1> QED BY <1>4, <1>5, <1>6, <1>7, <1>8 DEF AInv

LEMMA RecordInflightStep == ASSUME TypeOK, AInv, RecordInflight PROVE AInv'
<1> USE GotoMoves DEF TypeOK, PcTypeOK, Threads
<1>1. /\ UNCHANGED <<mRequestList, reqs, accepted, results, dropped, deviceError, nextFrame, cur, mClosed>>
      /\ mInflightFrames' = mInflightFrames \cup {cur["api"].num}
      /\ pc["api"] = "record" /\ pc'["api"] = "submit" /\ pc'["out"] = pc["out"]
  BY DEF RecordInflight
<1>2. ~Returning("api") /\ ~Returning("api")' /\ (Returning("out")' <=> Returning("out"))
  BY <1>1 DEF Returning, ReturnLabels
<1>3. OnePlace' /\ Pending' = Pending
  <2>1. {cur'[u].num : u \in {v \in Threads : Returning(v)'}} = {cur[u].num : u \in {v \in Threads : Returning(v)}}
    BY <1>1, <1>2
  <2> QED BY <1>1, <1>2, <2>1 DEF AInv, OnePlace, Listed, Pending
<1>4. Numbered'
  BY <1>1 DEF AInv, Numbered, Submitting
<1>5. Answers'
  BY <1>1, <1>3 DEF AInv, Answers
<1>6. Inflight'
  <2>1. {cur'[u].num : u \in {v \in Threads : pc'[v] \in Recorded}}
          = {cur[u].num : u \in {v \in Threads : pc[v] \in Recorded}} \cup {cur["api"].num}
    BY <1>1 DEF Recorded
  <2> QED BY <1>1, <2>1 DEF AInv, Inflight, Listed
<1>7. Ending'
  BY <1>1 DEF AInv, Ending, ReturnLabels
<1> QED BY <1>3, <1>4, <1>5, <1>6, <1>7 DEF AInv

LEMMA SubmitRequestStep == ASSUME TypeOK, AInv, SubmitRequest PROVE AInv'
<1> USE GotoMoves DEF TypeOK, PcTypeOK, Threads
<1> DEFINE r == cur["api"]
<1>1. /\ UNCHANGED <<reqs, results, dropped, deviceError, mInflightFrames, nextFrame, mClosed>>
      /\ mRequestList' = Append(mRequestList, r) /\ accepted' = accepted \cup {r.num}
      /\ pc["api"] = "submit" /\ pc'["api"] = "idle" /\ pc'["out"] = pc["out"]
      /\ cur'["out"] = cur["out"]
  BY DEF SubmitRequest, PushedBack, LeaveRequest, Return, RequestTypeOK
<1>2. r \in Request /\ mRequestList \in Seq(Request) /\ r.num \in Frames
  BY <1>1 DEF HasRequest, Unemployed, RequestTypeOK, Request
<1>3. r.num = nextFrame - 1 /\ r.num \notin accepted /\ nextFrame \in Nat
  BY <1>1, ConstantsAssumption DEF AInv, Numbered, Submitting, ClientTypeOK, ConstantsAssumption
<1>4. r.num \notin Pending \cup deviceError \cup dropped
  BY <1>3 DEF AInv, Answers
<1>5. ~Returning("api") /\ ~Returning("api")' /\ (Returning("out")' <=> Returning("out"))
  BY <1>1 DEF Returning, ReturnLabels
<1>6. /\ Nums(mRequestList') = Nums(mRequestList) \cup {r.num} /\ Distinct(mRequestList')
      /\ Listed' = Listed \cup {r.num}
  <2>1. Distinct(mRequestList) /\ r.num \notin Nums(mRequestList)
    BY <1>4 DEF AInv, OnePlace, Pending, Listed
  <2>2. Nums(mRequestList') = Nums(mRequestList) \cup {r.num} /\ Distinct(mRequestList')
    BY <1>1, <1>2, <2>1, NumsOfAppend
  <2> QED BY <1>1, <2>2 DEF Listed
<1> HIDE DEF r
<1>7. OnePlace'
  <2>1. Returning("out") => cur["out"].num # r.num
    BY <1>4 DEF Pending
  <2>2. r.num \notin Nums(reqs)
    BY <1>4 DEF Pending, Listed
  <2> QED BY <1>1, <1>5, <1>6, <2>1, <2>2 DEF AInv, OnePlace
<1>8. Pending' = Pending \cup {r.num}
  <2>1. {cur'[u].num : u \in {v \in Threads : Returning(v)'}} = {cur[u].num : u \in {v \in Threads : Returning(v)}}
    BY <1>1, <1>5
  <2> QED BY <1>6, <2>1 DEF Pending
<1>9. Numbered'
  BY <1>1, <1>3 DEF AInv, Numbered, Submitting
<1>10. Answers'
  BY <1>1, <1>2, <1>3, <1>4, <1>8 DEF AInv, Answers
<1>11. Inflight'
  <2>1. {cur[u].num : u \in {v \in Threads : pc[v] \in Recorded}}
          = {cur'[u].num : u \in {v \in Threads : pc'[v] \in Recorded}} \cup {r.num}
    BY <1>1 DEF Recorded, r
  <2> QED BY <1>1, <1>6, <2>1 DEF AInv, Inflight
<1>12. Ending'
  BY <1>1 DEF AInv, Ending, ReturnLabels
<1> QED BY <1>7, <1>9, <1>10, <1>11, <1>12 DEF AInv

LEMMA FlushListStep == ASSUME TypeOK, AInv, NEW byClose \in BOOLEAN, Flush(byClose) PROVE AInv'
<1> USE GotoMoves DEF TypeOK, PcTypeOK, Threads
<1>1. /\ UNCHANGED <<accepted, results, dropped, deviceError, mInflightFrames, nextFrame, cur, mClosed>>
      /\ reqs' = mRequestList /\ mRequestList' = <<>> /\ ~mClosed
      /\ pc["api"] = "idle" /\ pc'["api"] \in {"flushWaiting", "nextError"} /\ pc'["out"] = pc["out"]
  BY DEF Flush, Enter, TakenByFlush, LeftByFlush, AfterTakingList
<1>2. reqs = <<>>
  BY <1>1 DEF AInv, Ending, ReturnLabels
<1>3. Listed' = Listed
  BY <1>1, <1>2, NumsOfNone DEF Listed
<1>4. ~Returning("api") /\ ~Returning("api")' /\ (Returning("out")' <=> Returning("out"))
  BY <1>1 DEF Returning, ReturnLabels
<1>5. OnePlace'
  BY <1>1, <1>3, <1>4, NumsOfNone DEF AInv, OnePlace
<1>6. Pending' = Pending
  <2>1. {cur'[u].num : u \in {v \in Threads : Returning(v)'}} = {cur[u].num : u \in {v \in Threads : Returning(v)}}
    BY <1>1, <1>4
  <2> QED BY <1>3, <2>1 DEF Pending
<1>7. Numbered'
  BY <1>1 DEF AInv, Numbered, Submitting
<1>8. Answers'
  BY <1>1, <1>6 DEF AInv, Answers
<1>9. Inflight'
  <2>1. {cur'[u].num : u \in {v \in Threads : pc'[v] \in Recorded}} = {cur[u].num : u \in {v \in Threads : pc[v] \in Recorded}}
    BY <1>1 DEF Recorded
  <2> QED BY <1>1, <1>3, <2>1 DEF AInv, Inflight
<1>10. Ending'
  BY <1>1 DEF AInv, Ending
<1> QED BY <1>5, <1>7, <1>8, <1>9, <1>10 DEF AInv

LEMMA TakeRequestStep == ASSUME TypeOK, FlushWorksAlone, AInv, TakeRequest PROVE AInv'
<1> USE GotoMoves DEF TypeOK, PcTypeOK, Threads
<1>1. /\ UNCHANGED <<reqs, accepted, results, dropped, deviceError, mInflightFrames, nextFrame, mClosed>>
      /\ mRequestList # <<>> /\ mRequestList' = Tail(mRequestList)
      /\ pc["out"] = "wait" /\ pc'["out"] = "convert" /\ pc'["api"] = pc["api"]
      /\ cur'["out"] = Head(mRequestList) /\ cur'["api"] = cur["api"]
  BY DEF TakeRequest, RequestTypeOK
<1>2. ~Returning("out") /\ Returning("out")' /\ (Returning("api")' <=> Returning("api"))
  BY <1>1 DEF Returning, ReturnLabels
<1>3. /\ OnePlace' /\ Pending' = Pending
      /\ Listed = Listed' \cup {cur'["out"].num}
  BY <1>1, <1>2, RequestTaken DEF AInv
<1>4. Numbered'
  BY <1>1 DEF AInv, Numbered
<1>5. Answers'
  BY <1>1, <1>3 DEF AInv, Answers
<1>6. Inflight'
  <2>1. {cur'[u].num : u \in {v \in Threads : pc'[v] \in Recorded}}
          = {cur[u].num : u \in {v \in Threads : pc[v] \in Recorded}} \cup {cur'["out"].num}
    BY <1>1 DEF Recorded
  <2> QED BY <1>1, <1>3, <2>1 DEF AInv, Inflight
<1>7. Ending'
  BY <1>1 DEF AInv, Ending
<1> QED BY <1>3, <1>4, <1>5, <1>6, <1>7 DEF AInv

LEMMA NextErrorStep == ASSUME TypeOK, AInv, NextError PROVE AInv'
<1> USE GotoMoves DEF TypeOK, PcTypeOK, Threads
<1>1. /\ UNCHANGED <<mRequestList, accepted, results, dropped, deviceError, mInflightFrames, nextFrame, mClosed>>
      /\ reqs # <<>> /\ reqs' = Tail(reqs)
      /\ pc["api"] = "nextError" /\ pc'["api"] = "qbuf" /\ pc'["out"] = pc["out"]
      /\ cur'["api"] = Head(reqs) /\ cur'["out"] = cur["out"]
  BY DEF NextError, ErrorStartsAt, RequestTypeOK
<1>2. ~Returning("api") /\ Returning("api")' /\ (Returning("out")' <=> Returning("out"))
  BY <1>1 DEF Returning, ReturnLabels
<1>3. /\ OnePlace' /\ Pending' = Pending
      /\ Listed = Listed' \cup {cur'["api"].num}
  BY <1>1, <1>2, RequestTaken DEF AInv
<1>4. Numbered'
  BY <1>1 DEF AInv, Numbered, Submitting
<1>5. Answers'
  BY <1>1, <1>3 DEF AInv, Answers
<1>6. Inflight'
  <2>1. {cur'[u].num : u \in {v \in Threads : pc'[v] \in Recorded}}
          = {cur[u].num : u \in {v \in Threads : pc[v] \in Recorded}} \cup {cur'["api"].num}
    BY <1>1 DEF Recorded
  <2> QED BY <1>1, <1>3, <2>1 DEF AInv, Inflight
<1>7. Ending'
  BY <1>1 DEF AInv, Ending, ReturnLabels
<1> QED BY <1>3, <1>4, <1>5, <1>6, <1>7 DEF AInv

LEMMA EraseInflightStep ==
  ASSUME TypeOK, AInv, NEW t \in Threads, EraseInflight(t) PROVE AInv'
<1> USE GotoMoves DEF TypeOK, PcTypeOK, Threads
<1> DEFINE f == cur[t].num
<1>1. /\ UNCHANGED <<mRequestList, reqs, accepted, results, dropped, deviceError, nextFrame, cur, mClosed>>
      /\ mInflightFrames' = mInflightFrames \ {f}
      /\ pc[t] = "erase" /\ pc'[t] = "result"
      /\ \A u \in Threads \ {t} : pc'[u] = pc[u]
  BY DEF EraseInflight, Erased
<1>2. \A u \in Threads : Returning(u)' <=> Returning(u)
  BY <1>1 DEF Returning, ReturnLabels
<1>3. OnePlace' /\ Pending' = Pending
  <2>1. {cur'[u].num : u \in {v \in Threads : Returning(v)'}} = {cur[u].num : u \in {v \in Threads : Returning(v)}}
    BY <1>1, <1>2
  <2> QED BY <1>1, <1>2, <2>1 DEF AInv, OnePlace, Listed, Pending
<1>4. Numbered'
  BY <1>1 DEF AInv, Numbered, Submitting
<1>5. Answers'
  BY <1>1, <1>3 DEF AInv, Answers
<1>6. Inflight'
  <2>1. Returning(t)
    BY <1>1 DEF Returning, ReturnLabels
  <2>2. f \in Pending /\ f \notin Listed
    BY <2>1 DEF AInv, OnePlace, Pending
  <2>3. f \notin deviceError /\ f \in accepted
    BY <2>2 DEF AInv, Answers
  <2>4. \A u \in Threads \ {t} : pc[u] \in Recorded => cur[u].num # f
    <3>1. \A u \in Threads \ {t} : Returning(u) => cur[u].num # f
      <4>1. Returning("api") /\ Returning("out") => cur["api"].num # cur["out"].num
        BY DEF AInv, OnePlace
      <4>2. CASE t = "api"
        BY <2>1, <4>1, <4>2
      <4>3. CASE t = "out"
        BY <2>1, <4>1, <4>3
      <4> QED BY <4>2, <4>3
    <3>2. \A u \in Threads : pc[u] \in Recorded => Returning(u) \/ (u = "api" /\ pc[u] = "submit")
      BY DEF Recorded, Returning, ReturnLabels, OutLabels
    <3>3. pc["api"] = "submit" => cur["api"].num # f
      BY <2>3 DEF AInv, Numbered, Submitting
    <3> QED BY <3>1, <3>2, <3>3
  <2>5. {cur'[u].num : u \in {v \in Threads : pc'[v] \in Recorded}}
          = {cur[u].num : u \in {v \in Threads : pc[v] \in Recorded}} \ {f}
    <3>1. \A u \in Threads : pc'[u] \in Recorded <=> pc[u] \in Recorded /\ u # t
      BY <1>1 DEF Recorded
    <3> HIDE DEF Threads
    <3> QED BY <1>1, <2>4, <3>1
  <2> QED BY <1>1, <2>2, <2>3, <2>5 DEF AInv, Inflight, Listed
<1>7. Ending'
  BY <1>1 DEF AInv, Ending, ReturnLabels
<1> QED BY <1>3, <1>4, <1>5, <1>6, <1>7 DEF AInv

\* What ends the return of a request: the result is delivered, or thrown away, ...
LEMMA ReturnEndsStep ==
  ASSUME TypeOK, AInv, NEW t \in Threads, LockResultTimeout(t) \/ DeliverResult(t) PROVE AInv'
<1> USE GotoMoves DEF TypeOK, PcTypeOK, Threads
<1> DEFINE f == cur[t].num
<1>1. /\ UNCHANGED <<mRequestList, reqs, accepted, deviceError, mInflightFrames, nextFrame, mClosed>>
      /\ pc[t] \in {"result", "callback"} /\ pc'[t] = AfterResult(t)
      /\ \A u \in Threads \ {t} : pc'[u] = pc[u] /\ cur'[u] = cur[u]
      /\ \/ dropped' = dropped \cup {f} /\ results' = results
         \/ dropped' = dropped /\ results' = [results EXCEPT ![f] = @ + 1]
  BY DEF LockResultTimeout, DeliverResult, RequestTypeOK
<1>2. Returning(t) /\ ~Returning(t)' /\ \A u \in Threads \ {t} : Returning(u)' <=> Returning(u)
  BY <1>1 DEF Returning, ReturnLabels, AfterResult
<1>3. OnePlace' /\ f \in Pending /\ Pending' = Pending \ {f}
  BY <1>1, <1>2, RequestLeaves DEF AInv
<1>4. Numbered'
  BY <1>1 DEF AInv, Numbered, Submitting, AfterResult
<1>5. Answers'
  <2>1. f \in accepted /\ results[f] = 0 /\ f \in Frames
    BY <1>3 DEF AInv, Answers, ClientTypeOK
  <2>2. results' = [results EXCEPT ![f] = results'[f]] /\ results'[f] \in {0, 1}
    BY <1>1, <2>1 DEF ClientTypeOK
  <2>3. results'[f] = 1 \/ f \in dropped'
    BY <1>1, <2>1 DEF ClientTypeOK
  <2>4. \A g \in Frames \ {f} : results'[g] = results[g]
    BY <1>1 DEF ClientTypeOK
  <2>5. Pending' \cup deviceError' \cup dropped' \subseteq accepted'
    BY <1>1, <1>3, <2>1 DEF AInv, Answers
  <2>6. \A g \in Pending' : results'[g] = 0 /\ g \notin deviceError' /\ g \notin dropped'
    BY <1>1, <1>3, <2>4, <2>5 DEF AInv, Answers, ClientTypeOK
  <2>7. \A g \in Frames : results'[g] \in {0, 1} /\ (g \notin accepted' => results'[g] = 0)
    BY <1>1, <2>1, <2>2, <2>4 DEF AInv, Answers
  <2>8. \A g \in accepted' : g \in Pending' \cup deviceError' \cup dropped' \/ results'[g] = 1
    BY <1>1, <1>3, <2>3, <2>4 DEF AInv, Answers, ClientTypeOK
  <2> QED BY <2>5, <2>6, <2>7, <2>8 DEF Answers
<1>6. Inflight'
  <2>1. {cur'[u].num : u \in {v \in Threads : pc'[v] \in Recorded}}
          = {cur[u].num : u \in {v \in Threads : pc[v] \in Recorded}}
    BY <1>1 DEF Recorded, AfterResult
  <2> QED BY <1>1, <2>1 DEF AInv, Inflight, Listed
<1>7. Ending'
  BY <1>1 DEF AInv, Ending, ReturnLabels, AfterResult
<1> QED BY <1>3, <1>4, <1>5, <1>6, <1>7 DEF AInv

\* ... or the framework has been told of a device error.
LEMMA DeviceErrorStep == ASSUME TypeOK, AInv, DeviceError PROVE AInv'
<1> USE GotoMoves DEF TypeOK, PcTypeOK, Threads
<1> DEFINE f == cur["out"].num
<1>1. /\ UNCHANGED <<mRequestList, reqs, accepted, results, dropped, mInflightFrames, nextFrame, mClosed>>
      /\ deviceError' = deviceError \cup {f}
      /\ pc["out"] = "convert" /\ pc'["out"] = "failed"
      /\ pc'["api"] = pc["api"] /\ cur'["api"] = cur["api"]
  BY DEF DeviceError, RequestTypeOK
<1>2. Returning("out") /\ ~Returning("out")' /\ (Returning("api")' <=> Returning("api"))
  BY <1>1 DEF Returning, ReturnLabels
<1>3. OnePlace' /\ f \in Pending /\ Pending' = Pending \ {f}
  BY <1>1, <1>2, RequestLeaves DEF AInv
<1>4. Numbered'
  BY <1>1 DEF AInv, Numbered
<1>5. Answers'
  BY <1>1, <1>3 DEF AInv, Answers
<1>6. Inflight'
  <2>1. {cur[u].num : u \in {v \in Threads : pc[v] \in Recorded}}
          = {cur'[u].num : u \in {v \in Threads : pc'[v] \in Recorded}} \cup {f}
    BY <1>1 DEF Recorded
  <2> QED BY <1>1, <2>1 DEF AInv, Inflight, Listed
<1>7. Ending'
  BY <1>1 DEF AInv, Ending
<1> QED BY <1>3, <1>4, <1>5, <1>6, <1>7 DEF AInv

---------------------------------------------------------------------------
LEMMA InitAInv == Init => AInv
<1> SUFFICES ASSUME Init PROVE AInv
  OBVIOUS
<1> USE ConstantsAssumption, NumsOfNone DEF Init, ConstantsAssumption, Threads
<1>1. ~Returning("api") /\ ~Returning("out") /\ Listed = {} /\ Pending = {}
  BY DEF Returning, ReturnLabels, Listed, Pending
<1>2. OnePlace
  BY <1>1 DEF OnePlace
<1>3. Numbered /\ Answers
  BY <1>1 DEF Numbered, Submitting, Answers, Frames
<1>4. Inflight
  BY <1>1 DEF Inflight, Recorded
<1>5. Ending
  BY DEF Ending
<1> QED BY <1>2, <1>3, <1>4, <1>5 DEF AInv

LEMMA NextAInv == ASSUME TypeOK, FlushWorksAlone, AInv, [Next]_vars PROVE AInv'
<1>1. ASSUME NEW t \in Threads, ReturnRequest(t) PROVE AInv'
  BY <1>1, ReturnQuietStep, EraseInflightStep, ReturnEndsStep DEF ReturnRequest
<1>2. CASE ApiCall
  BY <1>2, ApiQuietStep, ProcessCaptureRequestStep, FlushListStep DEF ApiCall
<1>3. CASE ApiStep
  BY <1>1, <1>3, ApiQuietStep, RecordInflightStep, SubmitRequestStep, NextErrorStep DEF ApiStep, Threads
<1>4. CASE OutputThreadStep
  BY <1>1, <1>4, OutputQuietStep, TakeRequestStep, DeviceErrorStep DEF OutputThreadStep, Threads
<1>5. CASE DumpStep \/ Unplug \/ UNCHANGED vars
  BY <1>5, OtherQuietStep
<1> QED BY <1>2, <1>3, <1>4, <1>5 DEF Next, Crashed, Quiet

\* What the run checks follows from where the requests are.
LEMMA AnsweredWhereTheyAre == ASSUME TypeOK, AInv PROVE AnsweredOnce
<1> USE DEF TypeOK, PcTypeOK, Threads
<1>1. InflightExact
  <2>1. {r.num : r \in RangeOf(mRequestList) \cup RangeOf(reqs)} = Listed
    BY DEF RangeOf, Listed, Nums
  <2> QED BY <2>1 DEF AInv, Inflight, InflightExact, Recorded
<1>2. AtMostOneResult
  BY DEF AInv, Answers, AtMostOneResult
<1>3. ClosedMeansAnswered
  <2> SUFFICES ASSUME mClosed, NEW f \in accepted \ (deviceError \cup dropped)
               PROVE  results[f] = 1
    BY DEF ClosedMeansAnswered
  <2>1. mRequestList = <<>> /\ reqs = <<>> /\ pc["api"] = "idle" /\ pc["out"] = "exited"
    BY DEF AInv, Ending, ReturnLabels
  <2>2. Listed = {} /\ ~Returning("api") /\ ~Returning("out")
    BY <2>1, NumsOfNone DEF Listed, Returning, ReturnLabels
  <2>3. Pending = {}
    BY <2>2 DEF Pending
  <2> QED BY <2>3 DEF AInv, Answers
<1> QED BY <1>1, <1>2, <1>3 DEF AnsweredOnce

\* Requests pass from the binder thread to the OutputThread and to a flush or a close
\* without a common lock: each is known to be in flight exactly as long as it is, is
\* answered once at most, and has been answered when the session is closed, unless the
\* device failed on it or its result was thrown away.
THEOREM EachAnsweredOnce == Spec => []AnsweredOnce
<1>1. Init => AInv
  BY InitAInv
<1>2. TypeOK /\ FlushWorksAlone /\ AInv /\ [Next]_vars => AInv'
  BY NextAInv
<1>3. TypeOK /\ AInv => AnsweredOnce
  BY AnsweredWhereTheyAre
<1> QED BY <1>1, <1>2, <1>3, TypeCorrect, FlushAlone, PTL DEF Spec

---------------------------------------------------------------------------
(* The books of the pool. *)

\* A frame that has left the driver and is yet to be counted, and those that are back in
\* the driver and still counted.
Uncounted    == IF pc["api"] = "count" THEN 1 ELSE 0
Returned(t)  == IF pc[t] = "uncount" THEN 1 ELSE 0
StillCounted == Returned("api") + Returned("out")

Finite == IsFiniteSet(HeldRequests) /\ IsFiniteSet(leaked) /\ IsFiniteSet(lost)

Counted ==
  mNumDequeuedV4l2Buffers
    = Cardinality(HeldRequests) + Cardinality(leaked) + StillCounted - Uncounted

\* An index is in one place.
InjectiveQueue == \A i, j \in 1..Len(kQueue) : kQueue[i] = kQueue[j] => i = j

Apart ==
  /\ \A r, s \in HeldRequests : r.idx = s.idx => r = s
  /\ \A r \in HeldRequests : r.idx \notin RangeOf(kQueue) \cup leaked \cup lost
  /\ InjectiveQueue
  /\ RangeOf(kQueue) \cap (leaked \cup lost) = {}
  /\ leaked \cap lost = {}

\* A stream can be allocated again only while nothing is held or given up.
Allocation ==
  /\ kStreaming => kAllocated
  /\ ~kAllocated => HeldRequests = {} /\ (leaked = {} \/ mClosed)
  /\ pc["api"] = "configure" => mInflightFrames = {}

\* A request on its way asks for buffers that are imported.
StreamsKept ==
  pc["api"] \in Submitting => ~mClosed /\ cur["api"].streams \subseteq mCirculatingBuffers

PInv ==
  /\ Finite /\ Counted /\ BufferPartition /\ Apart /\ Allocation /\ NothingStale /\ StreamsKept

---------------------------------------------------------------------------
(* Queues and lists. *)

LEMMA RangeOfTail ==
  ASSUME NEW S, NEW s \in Seq(S), s # <<>>
  PROVE  /\ RangeOf(s) = RangeOf(Tail(s)) \cup {Head(s)}
         /\ Len(Tail(s)) = Len(s) - 1 /\ Len(s) \in Nat
         /\ Head(s) \in S /\ Tail(s) \in Seq(S)
<1>1. /\ Len(s) \in Nat \ {0} /\ Len(Tail(s)) = Len(s) - 1
      /\ \A i \in 1..Len(Tail(s)) : Tail(s)[i] = s[i+1]
      /\ Head(s) = s[1] /\ Head(s) \in S /\ Tail(s) \in Seq(S)
  BY HeadTailProperties, EmptySeq
<1>2. \A i \in 1..Len(s) : i = 1 \/ (i - 1 \in 1..Len(Tail(s)) /\ s[i] = Tail(s)[i - 1])
  BY <1>1
<1>3. \A i \in 1..Len(Tail(s)) : i + 1 \in 1..Len(s)
  BY <1>1
<1>4. RangeOf(s) \subseteq RangeOf(Tail(s)) \cup {Head(s)}
  BY <1>1, <1>2 DEF RangeOf
<1>5. RangeOf(Tail(s)) \cup {Head(s)} \subseteq RangeOf(s)
  BY <1>1, <1>3 DEF RangeOf
<1> QED BY <1>1, <1>4, <1>5

LEMMA RangeOfAppend ==
  ASSUME NEW S, NEW s \in Seq(S), NEW e \in S
  PROVE  /\ RangeOf(Append(s, e)) = RangeOf(s) \cup {e}
         /\ Len(Append(s, e)) = Len(s) + 1 /\ Len(s) \in Nat
<1>1. /\ Len(s) \in Nat /\ Len(Append(s, e)) = Len(s) + 1
      /\ \A i \in 1..Len(s) : Append(s, e)[i] = s[i]
      /\ Append(s, e)[Len(s) + 1] = e
  BY AppendProperties
<1>2. \A i \in 1..Len(Append(s, e)) : i \in 1..Len(s) \/ i = Len(s) + 1
  BY <1>1
<1>3. \A i \in 1..Len(s) : i \in 1..Len(Append(s, e))
  BY <1>1
<1>4. Len(s) + 1 \in 1..Len(Append(s, e))
  BY <1>1
<1>5. RangeOf(Append(s, e)) \subseteq RangeOf(s) \cup {e}
  BY <1>1, <1>2 DEF RangeOf
<1>6. RangeOf(s) \cup {e} \subseteq RangeOf(Append(s, e))
  BY <1>1, <1>3, <1>4 DEF RangeOf
<1> QED BY <1>1, <1>5, <1>6

LEMMA RangeOfNone == RangeOf(<<>>) = {} /\ Len(<<>>) = 0
BY DEF RangeOf

LEMMA HeadOfInjective ==
  ASSUME kQueue \in Seq(Nat), kQueue # <<>>, InjectiveQueue, kQueue' = Tail(kQueue)
  PROVE  InjectiveQueue' /\ Head(kQueue) \notin RangeOf(kQueue')
<1>1. /\ Len(kQueue) \in Nat \ {0} /\ Len(kQueue') = Len(kQueue) - 1
      /\ \A i \in 1..Len(kQueue') : kQueue'[i] = kQueue[i+1]
      /\ Head(kQueue) = kQueue[1]
  BY HeadTailProperties, EmptySeq
<1>2. \A i \in 1..Len(kQueue') : i + 1 \in 1..Len(kQueue) /\ i + 1 # 1 /\ i \in Nat
  BY <1>1
<1>3. InjectiveQueue'
  <2> SUFFICES ASSUME NEW i \in 1..Len(kQueue'), NEW j \in 1..Len(kQueue'), kQueue'[i] = kQueue'[j]
               PROVE  i = j
    BY DEF InjectiveQueue
  <2>1. i + 1 = j + 1
    BY <1>1, <1>2 DEF InjectiveQueue
  <2> QED BY <1>2, <2>1
<1>4. 1 \in 1..Len(kQueue)
  BY <1>1
<1>5. Head(kQueue) \notin RangeOf(kQueue')
  BY <1>1, <1>2, <1>4 DEF RangeOf, InjectiveQueue
<1> QED BY <1>3, <1>5

LEMMA AppendedInjective ==
  ASSUME kQueue \in Seq(Nat), InjectiveQueue, NEW e \in Nat, e \notin RangeOf(kQueue),
         kQueue' = Append(kQueue, e)
  PROVE  InjectiveQueue'
<1>1. /\ Len(kQueue) \in Nat /\ Len(kQueue') = Len(kQueue) + 1
      /\ \A i \in 1..Len(kQueue) : kQueue'[i] = kQueue[i]
      /\ kQueue'[Len(kQueue) + 1] = e
  BY AppendProperties
<1>2. \A i \in 1..Len(kQueue') : i \in 1..Len(kQueue) \/ i = Len(kQueue) + 1
  BY <1>1
<1>3. \A i \in 1..Len(kQueue) : kQueue'[i] # e
  BY <1>1 DEF RangeOf
<1> SUFFICES ASSUME NEW i \in 1..Len(kQueue'), NEW j \in 1..Len(kQueue'), kQueue'[i] = kQueue'[j]
             PROVE  i = j
  BY DEF InjectiveQueue
<1> QED BY <1>1, <1>2, <1>3 DEF InjectiveQueue

\* The number of frames in the driver and still counted.
LEMMA StillCountedThreads ==
  Cardinality({t \in Threads : pc[t] = "uncount"}) = StillCounted
<1> DEFINE S == {t \in Threads : pc[t] = "uncount"}
<1>1. CASE pc["api"] = "uncount" /\ pc["out"] = "uncount"
  <2>1. S = {"api"} \cup {"out"}
    BY <1>1 DEF Threads
  <2>2. IsFiniteSet({"api"}) /\ Cardinality({"api"}) = 1 /\ "out" \notin {"api"}
    BY FS_Singleton
  <2>3. Cardinality(S) = 2
    BY <2>1, <2>2, FS_AddElement
  <2> QED BY <1>1, <2>3 DEF StillCounted, Returned
<1>2. CASE pc["api"] = "uncount" /\ pc["out"] # "uncount"
  <2>1. S = {"api"}
    BY <1>2 DEF Threads
  <2>2. Cardinality(S) = 1
    BY ONLY <2>1, FS_Singleton
  <2> QED BY <1>2, <2>2 DEF StillCounted, Returned
<1>3. CASE pc["api"] # "uncount" /\ pc["out"] = "uncount"
  <2>1. S = {"out"}
    BY <1>3 DEF Threads
  <2>2. Cardinality(S) = 1
    BY ONLY <2>1, FS_Singleton
  <2> QED BY <1>3, <2>2 DEF StillCounted, Returned
<1>4. CASE pc["api"] # "uncount" /\ pc["out"] # "uncount"
  <2>1. S = {}
    BY <1>4 DEF Threads
  <2> QED BY <1>4, <2>1, FS_EmptySet DEF StillCounted, Returned
<1> QED BY <1>1, <1>2, <1>3, <1>4

---------------------------------------------------------------------------
(* Which requests hold a frame. *)

LEMMA HeldSame ==
  ASSUME RangeOf(mRequestList)' \cup RangeOf(reqs)' = RangeOf(mRequestList) \cup RangeOf(reqs),
         \A t \in Threads : /\ HoldsFrame(t)' <=> HoldsFrame(t)
                            /\ HoldsFrame(t) => cur'[t] = cur[t]
  PROVE  HeldRequests' = HeldRequests
<1>1. {u \in Threads : HoldsFrame(u)'} = {u \in Threads : HoldsFrame(u)}
  OBVIOUS
<1>2. {cur'[t] : t \in {u \in Threads : HoldsFrame(u)'}} = {cur[t] : t \in {u \in Threads : HoldsFrame(u)}}
  BY <1>1
<1> QED BY <1>2 DEF HeldRequests

\* The request a thread is about to return, or to give up, is nowhere else.
LEMMA HeldByOne ==
  ASSUME TypeOK, AInv, NEW t \in Threads, pc[t] \in {"convert", "qbuf"}
  PROVE  /\ cur[t] \in HeldRequests /\ cur[t] \in Request
         /\ cur[t] \notin RangeOf(mRequestList) \cup RangeOf(reqs)
         /\ \A u \in Threads \ {t} : HoldsFrame(u) => cur[u] # cur[t]
<1> USE DEF TypeOK, PcTypeOK
<1>1. HoldsFrame(t) /\ Returning(t) /\ cur[t] \in Request
  BY DEF HoldsFrame, Returning, ReturnLabels, HasRequest, Unemployed
<1>2. cur[t].num \notin Listed /\ cur[t].num \in Pending
  BY <1>1 DEF AInv, OnePlace, Pending
<1>3. cur[t] \notin RangeOf(mRequestList) \cup RangeOf(reqs)
  BY <1>2 DEF RangeOf, Listed, Nums
<1>4. \A u \in Threads \ {t} : HoldsFrame(u) => cur[u].num # cur[t].num
  <2> SUFFICES ASSUME NEW u \in Threads \ {t}, HoldsFrame(u) PROVE cur[u].num # cur[t].num
    OBVIOUS
  <2>1. CASE Returning(u)
    BY <1>1, <2>1 DEF AInv, OnePlace, Threads
  <2>2. CASE ~Returning(u)
    <3>1. u = "api" /\ pc["api"] \in Submitting
      BY <2>2 DEF HoldsFrame, Returning, ReturnLabels, OutLabels, Submitting, Threads
    <3> QED BY <1>2, <3>1 DEF AInv, Numbered, Answers
  <2> QED BY <2>1, <2>2
<1> QED BY <1>1, <1>3, <1>4 DEF HeldRequests

LEMMA HeldLess ==
  ASSUME TypeOK, AInv, NEW t \in Threads, pc[t] \in {"convert", "qbuf"}, ~HoldsFrame(t)',
         UNCHANGED <<mRequestList, reqs>>,
         \A u \in Threads \ {t} : /\ HoldsFrame(u)' <=> HoldsFrame(u)
                                  /\ HoldsFrame(u) => cur'[u] = cur[u]
  PROVE  HeldRequests' = HeldRequests \ {cur[t]}
<1> DEFINE H  == {cur[u] : u \in {v \in Threads : HoldsFrame(v)}}
           L  == RangeOf(mRequestList) \cup RangeOf(reqs)
<1>1. H' = H \ {cur[t]}
  BY HeldByOne
<1>2. cur[t] \notin L /\ L' = L
  BY HeldByOne DEF RangeOf
<1>3. HeldRequests = L \cup H /\ HeldRequests' = L' \cup H'
  BY DEF HeldRequests
<1> HIDE DEF H, L
<1> QED BY <1>1, <1>2, <1>3

\* A request that has yet to be accepted is not among those that hold a frame.
LEMMA HeldAreAccepted ==
  ASSUME TypeOK, AInv, ~HoldsFrame("api"), NEW r \in HeldRequests
  PROVE  r.num \in accepted
<1> USE DEF TypeOK, PcTypeOK
<1>1. CASE r \in RangeOf(mRequestList) \cup RangeOf(reqs)
  <2>1. r.num \in Listed
    BY <1>1 DEF RangeOf, Listed, Nums
  <2> QED BY <2>1 DEF AInv, Answers, Pending
<1>2. CASE HoldsFrame("out") /\ r = cur["out"]
  <2>1. Returning("out")
    BY <1>2 DEF HoldsFrame, Returning, ReturnLabels, OutLabels
  <2>2. r.num \in Pending
    BY <1>2, <2>1 DEF Pending, Threads
  <2> QED BY <2>2 DEF AInv, Answers
<1> QED BY <1>1, <1>2 DEF HeldRequests, Threads

---------------------------------------------------------------------------
(* What a step does to the books. *)

\* No frame moves.
LEMMA BooksSame ==
  ASSUME TypeOK, PInv,
         HeldRequests' = HeldRequests,
         UNCHANGED <<kQueue, kStreaming, kAllocated, leaked, lost, epoch, mClosed>>,
         plugged' => plugged /\ mV4L2BufferCount' = mV4L2BufferCount,
         mCirculatingBuffers' = mCirculatingBuffers \/ HeldRequests = {},
         mNumDequeuedV4l2Buffers' = mNumDequeuedV4l2Buffers + (StillCounted' - Uncounted')
                                      - (StillCounted - Uncounted),
         pc'["api"] = "configure" => mInflightFrames' = {},
         StreamsKept'
  PROVE  PInv'
<1> USE DEF PInv
<1>1. Finite'
  BY DEF Finite
<1>2. Counted'
  <2>1. /\ Cardinality(HeldRequests) \in Nat /\ Cardinality(leaked) \in Nat
        /\ StillCounted \in Nat /\ Uncounted \in Nat /\ StillCounted' \in Nat /\ Uncounted' \in Nat
    BY FS_CardinalityType DEF Finite, StillCounted, Uncounted, Returned
  <2> QED BY <2>1 DEF Counted
<1>3. BufferPartition'
  BY DEF BufferPartition, RangeOf
<1>4. Apart'
  BY DEF Apart, InjectiveQueue, RangeOf
<1>5. Allocation'
  BY DEF Allocation
<1>6. NothingStale'
  BY DEF NothingStale, NoStaleFrame, InflightBuffersAlive
<1> QED BY <1>1, <1>2, <1>3, <1>4, <1>5, <1>6

\* The driver hands out the oldest frame.
LEMMA FrameTaken ==
  ASSUME TypeOK, PInv, NEW r \in Request, r \notin HeldRequests,
         HeldRequests' = HeldRequests \cup {r},
         kQueue # <<>>, kQueue' = Tail(kQueue), r.idx = Head(kQueue), r.epoch = epoch,
         r.streams \subseteq mCirculatingBuffers,
         kStreaming,
         UNCHANGED <<kStreaming, kAllocated, leaked, lost, epoch, mClosed, plugged, mV4L2BufferCount,
                     mCirculatingBuffers, mNumDequeuedV4l2Buffers>>,
         StillCounted' = StillCounted, Uncounted' = 1, Uncounted = 0,
         pc'["api"] # "configure",
         StreamsKept'
  PROVE  PInv'
<1> USE DEF PInv
<1>1. /\ RangeOf(kQueue) = RangeOf(kQueue') \cup {r.idx}
      /\ Len(kQueue') = Len(kQueue) - 1 /\ Len(kQueue) \in Nat
      /\ r.idx \notin RangeOf(kQueue') /\ InjectiveQueue'
  BY RangeOfTail, HeadOfInjective DEF TypeOK, V4l2TypeOK, Apart
<1>2. /\ IsFiniteSet(HeldRequests') /\ Cardinality(HeldRequests') = Cardinality(HeldRequests) + 1
      /\ Cardinality(HeldRequests) \in Nat
  BY FS_AddElement, FS_CardinalityType DEF Finite
<1>3. /\ Cardinality(leaked) \in Nat /\ Cardinality(lost) \in Nat /\ StillCounted \in Nat
      /\ mV4L2BufferCount \in Nat
  BY FS_CardinalityType DEF Finite, StillCounted, Returned, TypeOK, V4l2TypeOK
<1>4. {s.idx : s \in HeldRequests'} = {s.idx : s \in HeldRequests} \cup {r.idx}
  OBVIOUS
<1>5. Finite'
  BY <1>2 DEF Finite
<1>6. Counted'
  BY <1>2, <1>3, SMTT(30) DEF Counted
<1>7. BufferPartition'
  <2> SUFFICES ASSUME plugged'
               PROVE  /\ RangeOf(kQueue') \cup {s.idx : s \in HeldRequests'} \cup leaked \cup lost
                           = 0..(mV4L2BufferCount - 1)
                      /\ Len(kQueue') + Cardinality(HeldRequests') + Cardinality(leaked) + Cardinality(lost)
                           = mV4L2BufferCount
    BY DEF BufferPartition, RangeOf
  <2>1. /\ RangeOf(kQueue) \cup {s.idx : s \in HeldRequests} \cup leaked \cup lost
             = 0..(mV4L2BufferCount - 1)
        /\ Len(kQueue) + Cardinality(HeldRequests) + Cardinality(leaked) + Cardinality(lost)
             = mV4L2BufferCount
    BY DEF BufferPartition
  <2>2. RangeOf(kQueue') \cup {s.idx : s \in HeldRequests'} \cup leaked \cup lost
          = RangeOf(kQueue) \cup {s.idx : s \in HeldRequests} \cup leaked \cup lost
    BY <1>1, <1>4
  <2> QED BY <1>1, <1>2, <1>3, <2>1, <2>2, SMTT(30)
<1>8. Apart'
  <2>1. r.idx \in RangeOf(kQueue) /\ RangeOf(kQueue') \subseteq RangeOf(kQueue)
    BY <1>1
  <2>2. \A s, u \in HeldRequests' : s.idx = u.idx => s = u
    BY <2>1 DEF Apart
  <2>3. \A s \in HeldRequests' : s.idx \notin RangeOf(kQueue') \cup leaked \cup lost
    BY <1>1, <2>1 DEF Apart
  <2>4. RangeOf(kQueue') \cap (leaked \cup lost) = {}
    BY <2>1 DEF Apart
  <2> QED BY <1>1, <2>2, <2>3, <2>4 DEF Apart, RangeOf
<1>9. Allocation'
  BY DEF Allocation
<1>10. NothingStale'
  BY DEF NothingStale, NoStaleFrame, InflightBuffersAlive
<1> QED BY <1>5, <1>6, <1>7, <1>8, <1>9, <1>10

\* A frame leaves its request, ...
LEMMA FrameLeaves ==
  ASSUME TypeOK, PInv, NEW r \in HeldRequests, r \in Request,
         HeldRequests' = HeldRequests \ {r}
  PROVE  /\ IsFiniteSet(HeldRequests')
         /\ Cardinality(HeldRequests') = Cardinality(HeldRequests) - 1
         /\ Cardinality(HeldRequests) \in Nat /\ Cardinality(leaked) \in Nat /\ Cardinality(lost) \in Nat
         /\ {s.idx : s \in HeldRequests} = {s.idx : s \in HeldRequests'} \cup {r.idx}
         /\ r.idx \notin RangeOf(kQueue) \cup leaked \cup lost
         /\ \A s \in HeldRequests' : s.idx # r.idx
         /\ r.idx \in Nat
<1>1. IsFiniteSet(HeldRequests) /\ IsFiniteSet(leaked) /\ IsFiniteSet(lost)
  BY DEF PInv, Finite
<1>2. /\ IsFiniteSet(HeldRequests')
      /\ Cardinality(HeldRequests') = Cardinality(HeldRequests) - 1
  BY <1>1, FS_RemoveElement
<1> QED BY <1>1, <1>2, FS_CardinalityType DEF PInv, Apart, Request

\* ... for the driver's queue ...
LEMMA FrameReturned ==
  ASSUME TypeOK, PInv, NEW r \in HeldRequests, r \in Request,
         HeldRequests' = HeldRequests \ {r},
         kQueue' = Append(kQueue, r.idx),
         UNCHANGED <<kStreaming, kAllocated, leaked, lost, epoch, mClosed, plugged, mV4L2BufferCount,
                     mCirculatingBuffers, mNumDequeuedV4l2Buffers>>,
         StillCounted' = StillCounted + 1, Uncounted' = Uncounted,
         pc'["api"] = "configure" => mInflightFrames' = {},
         StreamsKept'
  PROVE  PInv'
<1> USE DEF PInv
<1>1. /\ IsFiniteSet(HeldRequests')
      /\ Cardinality(HeldRequests') = Cardinality(HeldRequests) - 1
      /\ Cardinality(HeldRequests) \in Nat /\ Cardinality(leaked) \in Nat /\ Cardinality(lost) \in Nat
      /\ {s.idx : s \in HeldRequests} = {s.idx : s \in HeldRequests'} \cup {r.idx}
      /\ r.idx \notin RangeOf(kQueue) \cup leaked \cup lost
      /\ \A s \in HeldRequests' : s.idx # r.idx
      /\ r.idx \in Nat
  BY FrameLeaves
<1>2. /\ RangeOf(kQueue') = RangeOf(kQueue) \cup {r.idx}
      /\ Len(kQueue') = Len(kQueue) + 1 /\ Len(kQueue) \in Nat
      /\ InjectiveQueue'
  BY <1>1, RangeOfAppend, AppendedInjective, SMTT(30) DEF TypeOK, V4l2TypeOK, Apart
<1>3. StillCounted \in Nat /\ Uncounted \in Nat /\ mV4L2BufferCount \in Nat
  BY DEF StillCounted, Returned, Uncounted, TypeOK, V4l2TypeOK
<1>4. Finite'
  BY <1>1 DEF Finite
<1>5. Counted'
  BY <1>1, <1>3 DEF Counted
<1>6. BufferPartition'
  <2> SUFFICES ASSUME kStreaming', plugged'
               PROVE  /\ RangeOf(kQueue') \cup {s.idx : s \in HeldRequests'} \cup leaked \cup lost
                           = 0..(mV4L2BufferCount - 1)
                      /\ Len(kQueue') + Cardinality(HeldRequests') + Cardinality(leaked) + Cardinality(lost)
                           = mV4L2BufferCount
    BY DEF BufferPartition, RangeOf
  <2>1. /\ RangeOf(kQueue) \cup {s.idx : s \in HeldRequests} \cup leaked \cup lost
             = 0..(mV4L2BufferCount - 1)
        /\ Len(kQueue) + Cardinality(HeldRequests) + Cardinality(leaked) + Cardinality(lost)
             = mV4L2BufferCount
    BY DEF BufferPartition
  <2>2. RangeOf(kQueue') \cup {s.idx : s \in HeldRequests'} \cup leaked \cup lost
          = RangeOf(kQueue) \cup {s.idx : s \in HeldRequests} \cup leaked \cup lost
    BY <1>1, <1>2
  <2> QED BY <1>1, <1>2, <1>3, <2>1, <2>2, SMTT(30)
<1>7. Apart'
  <2>1. HeldRequests' \subseteq HeldRequests
    OBVIOUS
  <2>2. \A s, u \in HeldRequests' : s.idx = u.idx => s = u
    BY <2>1 DEF Apart
  <2>3. \A s \in HeldRequests' : s.idx \notin RangeOf(kQueue') \cup leaked \cup lost
    BY <1>1, <1>2, <2>1 DEF Apart
  <2>4. RangeOf(kQueue') \cap (leaked \cup lost) = {}
    BY <1>1, <1>2 DEF Apart
  <2> QED BY <1>2, <2>2, <2>3, <2>4 DEF Apart, RangeOf
<1>8. Allocation'
  BY DEF Allocation
<1>9. NothingStale'
  BY DEF NothingStale, NoStaleFrame, InflightBuffersAlive
<1> QED BY <1>4, <1>5, <1>6, <1>7, <1>8, <1>9

\* ... or for ever.
LEMMA FrameGivenUp ==
  ASSUME TypeOK, PInv, NEW r \in HeldRequests, r \in Request,
         HeldRequests' = HeldRequests \ {r},
         leaked' = leaked \cup {r.idx},
         UNCHANGED <<kQueue, kStreaming, kAllocated, lost, epoch, mClosed, plugged, mV4L2BufferCount,
                     mCirculatingBuffers, mNumDequeuedV4l2Buffers>>,
         StillCounted' = StillCounted, Uncounted' = Uncounted,
         pc'["api"] = "configure" => mInflightFrames' = {},
         StreamsKept'
  PROVE  PInv'
<1> USE DEF PInv
<1>1. /\ IsFiniteSet(HeldRequests')
      /\ Cardinality(HeldRequests') = Cardinality(HeldRequests) - 1
      /\ Cardinality(HeldRequests) \in Nat /\ Cardinality(leaked) \in Nat /\ Cardinality(lost) \in Nat
      /\ {s.idx : s \in HeldRequests} = {s.idx : s \in HeldRequests'} \cup {r.idx}
      /\ r.idx \notin RangeOf(kQueue) \cup leaked \cup lost
      /\ \A s \in HeldRequests' : s.idx # r.idx
  BY FrameLeaves
<1>2. IsFiniteSet(leaked') /\ Cardinality(leaked') = Cardinality(leaked) + 1
  BY <1>1, FS_AddElement DEF Finite
<1>3. /\ StillCounted \in Nat /\ Uncounted \in Nat /\ mV4L2BufferCount \in Nat
      /\ Len(kQueue) \in Nat
  BY DEF StillCounted, Returned, Uncounted, TypeOK, V4l2TypeOK
<1>4. Finite'
  BY <1>1, <1>2 DEF Finite
<1>5. Counted'
  BY <1>1, <1>2, <1>3 DEF Counted
<1>6. BufferPartition'
  <2> SUFFICES ASSUME kStreaming', plugged'
               PROVE  /\ RangeOf(kQueue) \cup {s.idx : s \in HeldRequests'} \cup leaked' \cup lost
                           = 0..(mV4L2BufferCount - 1)
                      /\ Len(kQueue) + Cardinality(HeldRequests') + Cardinality(leaked') + Cardinality(lost)
                           = mV4L2BufferCount
    BY DEF BufferPartition, RangeOf
  <2>1. /\ RangeOf(kQueue) \cup {s.idx : s \in HeldRequests} \cup leaked \cup lost
             = 0..(mV4L2BufferCount - 1)
        /\ Len(kQueue) + Cardinality(HeldRequests) + Cardinality(leaked) + Cardinality(lost)
             = mV4L2BufferCount
    BY DEF BufferPartition
  <2>2. RangeOf(kQueue) \cup {s.idx : s \in HeldRequests'} \cup leaked' \cup lost
          = RangeOf(kQueue) \cup {s.idx : s \in HeldRequests} \cup leaked \cup lost
    BY <1>1
  <2> QED BY <1>1, <1>2, <1>3, <2>1, <2>2, SMTT(30)
<1>7. Apart'
  <2>1. HeldRequests' \subseteq HeldRequests
    OBVIOUS
  <2>2. \A s, u \in HeldRequests' : s.idx = u.idx => s = u
    BY <2>1 DEF Apart
  <2>3. \A s \in HeldRequests' : s.idx \notin RangeOf(kQueue) \cup leaked' \cup lost
    BY <1>1, <2>1 DEF Apart
  <2>4. RangeOf(kQueue) \cap (leaked' \cup lost) = {} /\ leaked' \cap lost = {}
    BY <1>1 DEF Apart
  <2> QED BY <2>2, <2>3, <2>4 DEF Apart, RangeOf, InjectiveQueue
<1>8. Allocation'
  BY DEF Allocation
<1>9. NothingStale'
  BY DEF NothingStale, NoStaleFrame, InflightBuffersAlive
<1> QED BY <1>4, <1>5, <1>6, <1>7, <1>8, <1>9

\* The driver's oldest frame is refused.
LEMMA FrameRefused ==
  ASSUME TypeOK, PInv, HeldRequests' = HeldRequests,
         kQueue # <<>>, kQueue' = Tail(kQueue), lost' = lost \cup {Head(kQueue)},
         UNCHANGED <<kStreaming, kAllocated, leaked, epoch, mClosed, plugged, mV4L2BufferCount,
                     mCirculatingBuffers, mNumDequeuedV4l2Buffers>>,
         StillCounted' = StillCounted, Uncounted' = Uncounted,
         pc'["api"] # "configure",
         StreamsKept'
  PROVE  PInv'
<1> USE DEF PInv
<1> DEFINE i == Head(kQueue)
<1>1. /\ RangeOf(kQueue) = RangeOf(kQueue') \cup {i}
      /\ Len(kQueue') = Len(kQueue) - 1 /\ Len(kQueue) \in Nat
      /\ i \notin RangeOf(kQueue') /\ InjectiveQueue'
  BY RangeOfTail, HeadOfInjective DEF TypeOK, V4l2TypeOK, Apart
<1>2. i \notin leaked /\ i \notin lost /\ \A s \in HeldRequests : s.idx # i
  BY <1>1 DEF Apart
<1>3. IsFiniteSet(lost') /\ Cardinality(lost') = Cardinality(lost) + 1
  BY <1>2, FS_AddElement DEF Finite
<1>4. /\ Cardinality(HeldRequests) \in Nat /\ Cardinality(leaked) \in Nat /\ Cardinality(lost) \in Nat
      /\ mV4L2BufferCount \in Nat
  BY FS_CardinalityType DEF Finite, TypeOK, V4l2TypeOK
<1>5. Finite' /\ Counted'
  BY <1>3 DEF Finite, Counted
<1>6. BufferPartition'
  <2> SUFFICES ASSUME kStreaming', plugged'
               PROVE  /\ RangeOf(kQueue') \cup {s.idx : s \in HeldRequests} \cup leaked \cup lost'
                           = 0..(mV4L2BufferCount - 1)
                      /\ Len(kQueue') + Cardinality(HeldRequests) + Cardinality(leaked) + Cardinality(lost')
                           = mV4L2BufferCount
    BY DEF BufferPartition, RangeOf
  <2>1. /\ RangeOf(kQueue) \cup {s.idx : s \in HeldRequests} \cup leaked \cup lost
             = 0..(mV4L2BufferCount - 1)
        /\ Len(kQueue) + Cardinality(HeldRequests) + Cardinality(leaked) + Cardinality(lost)
             = mV4L2BufferCount
    BY DEF BufferPartition
  <2>2. RangeOf(kQueue') \cup {s.idx : s \in HeldRequests} \cup leaked \cup lost'
          = RangeOf(kQueue) \cup {s.idx : s \in HeldRequests} \cup leaked \cup lost
    BY <1>1
  <2>3. Len(kQueue') + Cardinality(HeldRequests) + Cardinality(leaked) + Cardinality(lost')
          = mV4L2BufferCount
    BY ONLY <1>1, <1>3, <1>4, <2>1
  <2> QED BY <2>1, <2>2, <2>3
<1>7. Apart'
  <2>1. \A s \in HeldRequests' : s.idx \notin RangeOf(kQueue') \cup leaked \cup lost'
    BY <1>1, <1>2 DEF Apart
  <2>2. RangeOf(kQueue') \cap (leaked \cup lost') = {} /\ leaked \cap lost' = {}
    BY <1>1, <1>2 DEF Apart
  <2> QED BY <1>1, <2>1, <2>2 DEF Apart, RangeOf
<1>8. Allocation'
  BY DEF Allocation
<1>9. NothingStale'
  BY DEF NothingStale, NoStaleFrame, InflightBuffersAlive
<1> QED BY <1>5, <1>6, <1>7, <1>8, <1>9

\* The driver's buffers are freed, or allocated again, with nothing held.
LEMMA BooksReset ==
  ASSUME TypeOK, V4l2TypeOK', PInv,
         HeldRequests = {}, HeldRequests' = {},
         UNCHANGED <<leaked, mNumDequeuedV4l2Buffers>>, mClosed => mClosed',
         leaked = {} \/ (mClosed' /\ ~kStreaming' /\ ~kAllocated'),
         kStreaming' => kAllocated',
         InjectiveQueue', IsFiniteSet(lost'), RangeOf(kQueue') \cap lost' = {},
         leaked = {} \/ (RangeOf(kQueue') = {} /\ lost' = {}),
         kStreaming' => /\ RangeOf(kQueue') \cup lost' = 0..(mV4L2BufferCount' - 1)
                        /\ Len(kQueue') + Cardinality(lost') = mV4L2BufferCount',
         StillCounted' = StillCounted, Uncounted' = Uncounted,
         pc'["api"] # "configure",
         StreamsKept'
  PROVE  PInv'
<1> USE DEF PInv
<1>1. Finite' /\ Counted'
  BY DEF Finite, Counted
<1>2. BufferPartition'
  <2> SUFFICES ASSUME kStreaming'
               PROVE  /\ RangeOf(kQueue') \cup {s.idx : s \in HeldRequests'} \cup leaked' \cup lost'
                           = 0..(mV4L2BufferCount' - 1)
                      /\ Len(kQueue') + Cardinality(HeldRequests') + Cardinality(leaked') + Cardinality(lost')
                           = mV4L2BufferCount'
    BY DEF BufferPartition, RangeOf
  <2>1. leaked' = {} /\ {s.idx : s \in HeldRequests'} = {}
    OBVIOUS
  <2>2. Cardinality(HeldRequests') = 0 /\ Cardinality(leaked') = 0
    BY <2>1, FS_EmptySet
  <2>3. Len(kQueue') \in Nat /\ Cardinality(lost') \in Nat
    BY FS_CardinalityType DEF V4l2TypeOK
  <2>4. mV4L2BufferCount' \in Nat
    BY DEF V4l2TypeOK
  <2> QED BY <2>1, <2>2, <2>3, <2>4
<1>3. Apart'
  BY DEF Apart, RangeOf
<1>4. Allocation'
  BY DEF Allocation
<1>5. NothingStale'
  BY DEF NothingStale, NoStaleFrame, InflightBuffersAlive
<1> QED BY <1>1, <1>2, <1>3, <1>4, <1>5

---------------------------------------------------------------------------
(* Reconfiguration of the stream, and close. *)

\* The stream can be turned off, or allocated, only while no frame is out.
LEMMA NothingOut ==
  ASSUME TypeOK, AInv, PInv, pc["api"] \in {"configure", "reconfigure"},
         (mV4l2Streaming /\ StreamOffSucceeds) \/ FormatAccepted
  PROVE  HeldRequests = {} /\ leaked = {}
<1>1. ~mClosed
  BY DEF AInv, Ending
<1>2. CASE mV4l2Streaming
  <2>1. mNumDequeuedV4l2Buffers = 0
    BY <1>2 DEF StreamOffSucceeds, FormatAccepted
  <2>2. Cardinality(HeldRequests) \in Nat /\ Cardinality(leaked) \in Nat
    BY FS_CardinalityType DEF PInv, Finite
  <2>3. Uncounted = 0 /\ StillCounted \in Nat
    BY DEF Uncounted, StillCounted, Returned
  <2>4. Cardinality(HeldRequests) = 0 /\ Cardinality(leaked) = 0
    BY <2>1, <2>2, <2>3 DEF PInv, Counted
  <2> QED BY <2>4, FS_EmptySet DEF PInv, Finite
<1>3. CASE ~mV4l2Streaming
  BY <1>1, <1>3 DEF FormatAccepted, PInv, Allocation
<1> QED BY <1>2, <1>3

LEMMA QueueOf == ASSUME NEW S, NEW m \in Nat, NEW q \in [1..m -> S] PROVE q \in Seq(S) /\ Len(q) = m
OBVIOUS

LEMMA Wrapped == ASSUME NEW n \in Nat \ {0}, NEW i \in 1..n PROVE i % n = IF i = n THEN 0 ELSE i
OBVIOUS

\* The queue after a configuration that succeeds.
LEMMA FullQueue ==
  ASSUME NEW n \in Nat \ {0}, kQueue' = [i \in 1..n |-> i % n]
  PROVE  InjectiveQueue' /\ RangeOf(kQueue') = 0..(n - 1) /\ Len(kQueue') = n
<1>1. \A i \in 1..n : i % n = IF i = n THEN 0 ELSE i
  BY Wrapped
<1>2. kQueue' = [i \in 1..n |-> IF i = n THEN 0 ELSE i]
  BY <1>1
<1>3. kQueue' \in Seq(0..n) /\ Len(kQueue') = n
  BY <1>2
<1>4. InjectiveQueue'
  <2> SUFFICES ASSUME NEW i \in 1..n, NEW j \in 1..n, kQueue'[i] = kQueue'[j] PROVE i = j
    BY <1>3 DEF InjectiveQueue
  <2> QED BY <1>2
<1>5. RangeOf(kQueue') \subseteq 0..(n - 1)
  BY <1>2, <1>3 DEF RangeOf
<1>6. 0..(n - 1) \subseteq RangeOf(kQueue')
  <2> SUFFICES ASSUME NEW k \in 0..(n - 1) PROVE k \in RangeOf(kQueue')
    OBVIOUS
  <2>1. CASE k = 0
    <3>1. n \in 1..Len(kQueue') /\ kQueue'[n] = k
      BY <1>2, <1>3, <2>1
    <3> QED BY <3>1 DEF RangeOf
  <2>2. CASE k # 0
    <3>1. k \in 1..Len(kQueue') /\ kQueue'[k] = k
      BY <1>2, <1>3, <2>2
    <3> QED BY <3>1 DEF RangeOf
  <2> QED BY <2>1, <2>2
<1> QED BY <1>3, <1>4, <1>5, <1>6

\* The queue after one that failed at the first frame.
LEMMA FirstFrameLost ==
  ASSUME NEW n \in Nat \ {0}, NEW swallowed \in 0..1,
         kQueue' = [i \in 1..(n - swallowed) |-> i + swallowed - 1],
         lost' = 0..(swallowed - 1)
  PROVE  /\ InjectiveQueue' /\ IsFiniteSet(lost') /\ RangeOf(kQueue') \cap lost' = {}
         /\ RangeOf(kQueue') \cup lost' = 0..(n - 1)
         /\ Len(kQueue') + Cardinality(lost') = n
<1>1. kQueue' \in Seq(0..n) /\ Len(kQueue') = n - swallowed
  <2>1. n - swallowed \in Nat /\ \A i \in 1..(n - swallowed) : i + swallowed - 1 \in 0..n
    OBVIOUS
  <2>2. kQueue' \in [1..(n - swallowed) -> 0..n]
    BY <2>1
  <2> QED BY <2>1, <2>2, QueueOf
<1>2. IsFiniteSet(lost') /\ Cardinality(lost') = swallowed
  <2>1. /\ 0..(0 - 1) = {}
        /\ 0..(1 - 1) = {0}
    OBVIOUS
  <2>2. CASE swallowed = 0
    <3>1. lost' = {}
      BY ONLY <2>1, <2>2, lost' = 0..(swallowed - 1)
    <3> QED BY <2>2, <3>1, FS_EmptySet
  <2>3. CASE swallowed = 1
    <3>1. lost' = {0}
      BY ONLY <2>1, <2>3, lost' = 0..(swallowed - 1)
    <3>2. IsFiniteSet({0}) /\ Cardinality({0}) = 1
      BY FS_Singleton
    <3> QED BY <2>3, <3>1, <3>2
  <2> QED BY <2>2, <2>3
<1>3. InjectiveQueue'
  <2> SUFFICES ASSUME NEW i \in 1..(n - swallowed), NEW j \in 1..(n - swallowed), kQueue'[i] = kQueue'[j]
               PROVE  i = j
    BY <1>1 DEF InjectiveQueue
  <2> QED OBVIOUS
<1>4. RangeOf(kQueue') \subseteq swallowed..(n - 1)
  BY <1>1 DEF RangeOf
<1>5. swallowed..(n - 1) \subseteq RangeOf(kQueue')
  <2> SUFFICES ASSUME NEW k \in swallowed..(n - 1) PROVE k \in RangeOf(kQueue')
    OBVIOUS
  <2>1. k - swallowed + 1 \in 1..Len(kQueue') /\ kQueue'[k - swallowed + 1] = k
    BY <1>1
  <2> QED BY <2>1 DEF RangeOf
<1>6. RangeOf(kQueue') = swallowed..(n - 1)
  BY <1>4, <1>5
<1>7. /\ (swallowed..(n - 1)) \cap (0..(swallowed - 1)) = {}
      /\ (swallowed..(n - 1)) \cup (0..(swallowed - 1)) = 0..(n - 1)
  OBVIOUS
<1> QED BY <1>1, <1>2, <1>3, <1>6, <1>7

\* However a reconfiguration ends.
LEMMA ReconfigurationBooks ==
  ASSUME TypeOK, AInv, PInv, pc["api"] \in {"configure", "reconfigure"},
         NEW rate \in Rates, ConfigureSucceeds(rate) \/ ConfigureFails(rate),
         HeldRequests' = HeldRequests,
         UNCHANGED <<leaked, mNumDequeuedV4l2Buffers, mClosed, plugged>>,
         mCirculatingBuffers' = mCirculatingBuffers \/ HeldRequests = {},
         StillCounted' = StillCounted, Uncounted' = Uncounted,
         pc'["api"] # "configure",
         StreamsKept'
  PROVE  PInv'
<1>1. V4l2TypeOK' /\ BufferCount[rate] \in Nat \ {0}
  BY ReconfigurationType, ConstantsAssumption DEF TypeOK, ConstantsAssumption
<1>2. ASSUME UNCHANGED <<kQueue, kStreaming, kAllocated, lost, epoch>>,
             plugged => mV4L2BufferCount' = mV4L2BufferCount
      PROVE  PInv'
  <2>1. mNumDequeuedV4l2Buffers' = mNumDequeuedV4l2Buffers + (StillCounted' - Uncounted')
                                      - (StillCounted - Uncounted)
    BY DEF StillCounted, Uncounted, Returned, TypeOK, KernelTypeOK
  <2> QED BY <1>2, <2>1, BooksSame
<1>3. CASE StreamOffFails
  BY <1>2, <1>3 DEF StreamOffFails, StreamOffSucceeds
<1>4. CASE ConfigureFailsEarly(rate) /\ ~mV4l2Streaming
  BY <1>2, <1>4 DEF ConfigureFailsEarly, CountAfterStreamOff
<1>5. CASE ConfigureFailsEarly(rate) /\ mV4l2Streaming
  <2>1. HeldRequests = {} /\ leaked = {}
    BY <1>5, NothingOut DEF ConfigureFailsEarly
  <2>2. kQueue' = <<>> /\ lost' = {} /\ kStreaming' = FALSE
    BY <1>5 DEF ConfigureFailsEarly
  <2>3. InjectiveQueue' /\ IsFiniteSet(lost') /\ RangeOf(kQueue') = {}
    BY <2>2, FS_EmptySet DEF InjectiveQueue, RangeOf
  <2> QED BY <1>1, <2>1, <2>2, <2>3, BooksReset
<1>6. ASSUME ReallocateBuffers(rate) PROVE HeldRequests = {} /\ leaked = {} /\ kAllocated'
  BY <1>6, NothingOut DEF ReallocateBuffers
<1>7. CASE ConfigureFailsLate(rate)
  <2>1. HeldRequests = {} /\ leaked = {}
    BY <1>6, <1>7 DEF ConfigureFailsLate
  <2>2. kQueue' = <<>> /\ lost' = {} /\ kStreaming' = FALSE
    BY <1>7 DEF ConfigureFailsLate
  <2>3. InjectiveQueue' /\ IsFiniteSet(lost') /\ RangeOf(kQueue') = {}
    BY <2>2, FS_EmptySet DEF InjectiveQueue, RangeOf
  <2> QED BY <1>1, <2>1, <2>2, <2>3, BooksReset
<1>8. CASE ConfigureFailsStreaming(rate)
  <2>1. HeldRequests = {} /\ leaked = {} /\ kAllocated'
    BY <1>6, <1>8 DEF ConfigureFailsStreaming
  <2>2. /\ InjectiveQueue' /\ IsFiniteSet(lost') /\ RangeOf(kQueue') \cap lost' = {}
        /\ RangeOf(kQueue') \cup lost' = 0..(mV4L2BufferCount' - 1)
        /\ Len(kQueue') + Cardinality(lost') = mV4L2BufferCount'
    BY <1>1, <1>8, FirstFrameLost DEF ConfigureFailsStreaming
  <2> QED BY <1>1, <2>1, <2>2, BooksReset
<1>9. CASE ConfigureSucceeds(rate)
  <2>1. HeldRequests = {} /\ leaked = {} /\ kAllocated'
    BY <1>6, <1>9 DEF ConfigureSucceeds
  <2>2. /\ InjectiveQueue' /\ RangeOf(kQueue') = 0..(mV4L2BufferCount' - 1)
        /\ Len(kQueue') = mV4L2BufferCount' /\ lost' = {}
    BY <1>1, <1>9, FullQueue DEF ConfigureSucceeds
  <2>3. IsFiniteSet(lost') /\ Cardinality(lost') = 0
    BY <2>2, FS_EmptySet
  <2>4. Len(kQueue') + Cardinality(lost') = mV4L2BufferCount'
    BY <1>1, <2>2, <2>3 DEF V4l2TypeOK
  <2> QED BY <1>1, <2>1, <2>2, <2>3, <2>4, BooksReset
<1> QED BY <1>3, <1>4, <1>5, <1>7, <1>8, <1>9 DEF ConfigureFails

LEMMA ConfigureV4l2Books == ASSUME TypeOK, AInv, PInv, ConfigureV4l2 PROVE PInv'
<1> USE GotoMoves DEF TypeOK, PcTypeOK, Threads
<1>1. /\ pc["api"] = "configure" /\ pc'["api"] = "idle" /\ pc'["out"] = pc["out"]
      /\ UNCHANGED <<mRequestList, reqs, cur, leaked, mNumDequeuedV4l2Buffers, mClosed, plugged>>
  BY DEF ConfigureV4l2, Return
<1>2. HeldRequests' = HeldRequests
  BY <1>1, HeldSame DEF HoldsFrame, RangeOf
<1>3. HeldRequests = {}
  <2>1. Listed = {} /\ pc["out"] \notin Recorded
    <3>1. mInflightFrames = {} /\ Listed \subseteq mInflightFrames
      BY <1>1 DEF PInv, Allocation, AInv, Inflight
    <3>2. pc["out"] \in Recorded => cur["out"].num \in mInflightFrames
      BY DEF AInv, Inflight
    <3> QED BY <3>1, <3>2
  <2>2. RangeOf(mRequestList) = {} /\ RangeOf(reqs) = {}
    <3>1. \A r \in RangeOf(mRequestList) \cup RangeOf(reqs) : r.num \in Listed
      BY DEF Listed, Nums, RangeOf
    <3> QED BY <2>1, <3>1
  <2>3. ~HoldsFrame("api") /\ ~HoldsFrame("out")
    BY <1>1, <2>1 DEF HoldsFrame, Recorded, OutLabels
  <2> QED BY <2>2, <2>3 DEF HeldRequests
<1>4. /\ StillCounted' = StillCounted /\ Uncounted' = Uncounted /\ StreamsKept'
      /\ pc'["api"] # "configure"
  BY <1>1 DEF StillCounted, Returned, Uncounted, StreamsKept, Submitting
<1>5. CASE ConfigureSucceeds(DefaultRate) \/ ConfigureFails(DefaultRate)
  <2>1. DefaultRate \in Rates
    BY ConstantsAssumption DEF ConstantsAssumption
  <2> QED BY <1>1, <1>2, <1>3, <1>4, <1>5, <2>1, ReconfigurationBooks
<1>6. CASE UNCHANGED v4l2Vars
  <2>1. mNumDequeuedV4l2Buffers' = mNumDequeuedV4l2Buffers + (StillCounted' - Uncounted')
                                      - (StillCounted - Uncounted)
    BY <1>1, <1>4 DEF StillCounted, Uncounted, Returned, KernelTypeOK
  <2> QED BY <1>1, <1>2, <1>3, <1>4, <1>6, <2>1, BooksSame
<1> QED BY <1>5, <1>6 DEF ConfigureV4l2

LEMMA ReconfigureBooks == ASSUME TypeOK, AInv, PInv, Reconfigure PROVE PInv'
<1> USE GotoMoves DEF TypeOK, PcTypeOK, Threads
<1>1. /\ pc["api"] = "reconfigure" /\ pc'["api"] = "import" /\ pc'["out"] = pc["out"]
      /\ UNCHANGED <<mRequestList, reqs, cur, leaked, mNumDequeuedV4l2Buffers, mClosed, plugged,
                     mCirculatingBuffers>>
  BY DEF Reconfigure
<1>2. HeldRequests' = HeldRequests
  BY <1>1, HeldSame DEF HoldsFrame, RangeOf
<1>3. /\ StillCounted' = StillCounted /\ Uncounted' = Uncounted /\ StreamsKept'
      /\ pc'["api"] # "configure"
  BY <1>1 DEF StillCounted, Returned, Uncounted, PInv, StreamsKept, Submitting
<1>4. requestFps \in Rates /\ (ConfigureSucceeds(requestFps) \/ ConfigureFails(requestFps))
  BY DEF Reconfigure, RequestTypeOK
<1> QED BY <1>1, <1>2, <1>3, <1>4, ReconfigurationBooks

LEMMA TeardownBooks == ASSUME TypeOK, V4l2TypeOK', AInv, PInv, Teardown PROVE PInv'
<1> USE GotoMoves DEF TypeOK, PcTypeOK, Threads
<1>1. /\ pc["api"] = "teardown" /\ pc'["api"] = "idle" /\ pc'["out"] = pc["out"]
      /\ UNCHANGED <<mRequestList, reqs, cur, leaked, mNumDequeuedV4l2Buffers, plugged>>
      /\ kQueue' = <<>> /\ lost' = {} /\ ~kStreaming' /\ ~kAllocated' /\ mClosed'
  BY DEF Teardown, Return
<1>2. HeldRequests' = HeldRequests
  BY <1>1, HeldSame DEF HoldsFrame, RangeOf
<1>3. HeldRequests = {}
  <2>1. mRequestList = <<>> /\ reqs = <<>> /\ pc["out"] = "exited"
    BY <1>1 DEF AInv, Ending, ReturnLabels
  <2>2. ~HoldsFrame("api") /\ ~HoldsFrame("out")
    BY <1>1, <2>1 DEF HoldsFrame
  <2> QED BY <2>1, <2>2, RangeOfNone DEF HeldRequests
<1>4. /\ StillCounted' = StillCounted /\ Uncounted' = Uncounted /\ StreamsKept'
      /\ pc'["api"] # "configure"
  BY <1>1 DEF StillCounted, Returned, Uncounted, StreamsKept, Submitting
<1>5. InjectiveQueue' /\ IsFiniteSet(lost') /\ RangeOf(kQueue') = {}
  BY <1>1, FS_EmptySet DEF InjectiveQueue, RangeOf
<1> QED BY <1>1, <1>2, <1>3, <1>4, <1>5, BooksReset

---------------------------------------------------------------------------
(* The steps. *)

\* A step that touches neither the lists nor the driver.
LEMMA QuietBooks ==
  ASSUME TypeOK, PInv,
         UNCHANGED <<mRequestList, reqs, kQueue, kStreaming, kAllocated, leaked, lost, epoch,
                     mV4L2BufferCount, mClosed, mCirculatingBuffers, mNumDequeuedV4l2Buffers>>,
         plugged' => plugged,
         \A t \in Threads : /\ HoldsFrame(t)' <=> HoldsFrame(t)
                            /\ HoldsFrame(t) => cur'[t] = cur[t]
                            /\ pc'[t] = "uncount" <=> pc[t] = "uncount",
         pc'["api"] = "count" <=> pc["api"] = "count",
         pc'["api"] = "configure" => mInflightFrames' = {},
         StreamsKept'
  PROVE  PInv'
<1>1. HeldRequests' = HeldRequests
  BY HeldSame DEF RangeOf
<1>2. StillCounted' = StillCounted /\ Uncounted' = Uncounted
  BY DEF StillCounted, Returned, Uncounted, Threads
<1>3. mNumDequeuedV4l2Buffers' = mNumDequeuedV4l2Buffers + (StillCounted' - Uncounted')
                                   - (StillCounted - Uncounted)
  BY <1>2 DEF StillCounted, Uncounted, Returned, TypeOK, KernelTypeOK
<1> QED BY <1>1, <1>3, BooksSame

LEMMA ApiQuietBooks ==
  ASSUME TypeOK, PInv,
         \/ ConfigureStreams \/ ProcessCaptureRequest \/ WaitIdle \/ ImportRequest \/ Dequeue
         \/ BufferWaitTimeout \/ SpuriousBufferWakeup \/ DequeueFails \/ RecordInflight
         \/ FlushGoesOnEarly \/ FlushReturns \/ RequestExit \/ Join
  PROVE  PInv'
<1> USE GotoMoves DEF TypeOK, PcTypeOK, Threads
<1>1. ASSUME UNCHANGED <<mRequestList, reqs, kQueue, kStreaming, kAllocated, leaked, lost, epoch,
                         mV4L2BufferCount, mClosed, mCirculatingBuffers, mNumDequeuedV4l2Buffers,
                         plugged>>,
             NEW from, NEW to, pc["api"] = from, Goto("api", to), cur'["out"] = cur["out"],
             from \in {"record"} <=> to \in {"submit"},
             from \in {"record"} => cur'["api"] = cur["api"],
             from \notin {"count", "submit", "convert", "qbuf", "uncount"},
             to \notin {"count", "record", "convert", "qbuf", "uncount"},
             to = "configure" => mInflightFrames' = {},
             StreamsKept'
      PROVE  PInv'
  <2>1. pc'["api"] = to /\ pc'["out"] = pc["out"]
    BY <1>1
  <2>2. \A t \in Threads : /\ HoldsFrame(t)' <=> HoldsFrame(t)
                           /\ HoldsFrame(t) => cur'[t] = cur[t]
                           /\ pc'[t] = "uncount" <=> pc[t] = "uncount"
    BY <1>1, <2>1 DEF HoldsFrame
  <2> QED BY <1>1, <2>1, <2>2, QuietBooks
<1>2. StreamsKept
  BY DEF PInv
<1> USE DEF Submitting
<1>3. CASE ConfigureStreams
  <2>1. StreamsKept'
    BY <1>3 DEF ConfigureStreams, StreamsKept
  <2> QED BY <1>1, <1>3, <2>1 DEF ConfigureStreams, MayConfigure, Enter
<1>4. CASE ProcessCaptureRequest
  <2>1. PICK s \in SUBSET mCirculatingBuffers \ {{}} :
          cur' = [cur EXCEPT !["api"] = [num |-> nextFrame, streams |-> s, idx |-> 0, epoch |-> 0]]
    BY <1>4 DEF ProcessCaptureRequest
  <2>2. cur'["api"].streams \subseteq mCirculatingBuffers /\ cur'["out"] = cur["out"]
    BY <2>1 DEF RequestTypeOK
  <2>3. PICK to \in {"import", "waitIdle"} : Goto("api", to)
    BY <1>4 DEF ProcessCaptureRequest
  <2>4. StreamsKept'
    BY <1>4, <2>2 DEF ProcessCaptureRequest, StreamsKept
  <2> QED BY <1>1, <1>4, <2>2, <2>3, <2>4 DEF ProcessCaptureRequest, Enter
<1>5. CASE WaitIdle
  <2>1. StreamsKept'
    BY <1>2, <1>5 DEF WaitIdle, StreamsKept
  <2> QED BY <1>1, <1>5, <2>1 DEF WaitIdle
<1>6. ASSUME LeaveRequest,
             UNCHANGED <<mRequestList, reqs, kQueue, kStreaming, kAllocated, leaked, lost, epoch,
                         mV4L2BufferCount, mClosed, mCirculatingBuffers, mNumDequeuedV4l2Buffers,
                         plugged>>,
             pc["api"] \in {"import", "dqbuf", "idleWaiting", "dequeueWaiting"}
      PROVE  PInv'
  <2>1. StreamsKept'
    BY <1>6 DEF LeaveRequest, Return, StreamsKept
  <2>2. cur'["out"] = cur["out"]
    BY <1>6 DEF LeaveRequest, RequestTypeOK
  <2> QED BY <1>1, <1>6, <2>1, <2>2 DEF LeaveRequest, Return
<1>7. CASE ImportRequest
  <2>1. CASE Goto("api", "dequeue") /\ UNCHANGED <<mInterfaceLock, cur, requestFps>>
    <3>1. StreamsKept'
      BY <1>2, <1>7, <2>1 DEF ImportRequest, StreamsKept
    <3> QED BY <1>1, <1>7, <2>1, <3>1 DEF ImportRequest
  <2> QED BY <1>6, <1>7, <2>1 DEF ImportRequest
<1>8. CASE Dequeue
  <2>1. StreamsKept'
    BY <1>2, <1>8 DEF Dequeue, StreamsKept
  <2> QED BY <1>1, <1>8, <2>1 DEF Dequeue
<1>9. CASE BufferWaitTimeout \/ DequeueFails
  BY <1>6, <1>9 DEF BufferWaitTimeout, DequeueFails
<1>10. CASE SpuriousBufferWakeup
  <2>1. StreamsKept'
    BY <1>2, <1>10 DEF SpuriousBufferWakeup, AfterBufferReturned, StreamsKept
  <2> QED BY <1>1, <1>10, <2>1 DEF SpuriousBufferWakeup, AfterBufferReturned
<1>11. CASE RecordInflight
  <2>1. StreamsKept'
    BY <1>2, <1>11 DEF RecordInflight, StreamsKept
  <2> QED BY <1>1, <1>11, <2>1 DEF RecordInflight
<1>12. CASE FlushGoesOnEarly
  <2>1. StreamsKept'
    BY <1>12 DEF FlushGoesOnEarly, StreamsKept
  <2> QED BY <1>1, <1>12, <2>1 DEF FlushGoesOnEarly
<1>13. CASE FlushReturns
  <2>1. StreamsKept'
    BY <1>13 DEF FlushReturns, Return, StreamsKept
  <2> QED BY <1>1, <1>13, <2>1 DEF FlushReturns, Return
<1>14. CASE RequestExit
  <2>1. StreamsKept'
    BY <1>14 DEF RequestExit, StreamsKept
  <2> QED BY <1>1, <1>14, <2>1 DEF RequestExit
<1>15. CASE Join
  <2>1. StreamsKept'
    BY <1>15 DEF Join, StreamsKept
  <2> QED BY <1>1, <1>15, <2>1 DEF Join
<1> QED BY <1>3, <1>4, <1>5, <1>7, <1>8, <1>9, <1>10, <1>11, <1>12, <1>13, <1>14, <1>15

\* The frame of a request is taken from the driver, or refused, ...
LEMMA DequeueBooks == ASSUME TypeOK, AInv, PInv, DequeueFrame \/ DequeueRefused PROVE PInv'
<1> USE GotoMoves DEF TypeOK, PcTypeOK, Threads
<1>1. CASE DequeueFrame
  <2> DEFINE r == cur'["api"]
  <2>1. cur["api"] \in Request /\ Head(kQueue) \in Nat /\ epoch \in 0..MaxConfigs
    BY <1>1, RangeOfTail DEF DequeueFrame, HasRequest, Unemployed, V4l2TypeOK
  <2>2. /\ r = [cur["api"] EXCEPT !.idx = Head(kQueue), !.epoch = epoch]
        /\ cur'["out"] = cur["out"]
    BY <1>1 DEF DequeueFrame, RequestTypeOK
  <2>3. /\ r \in Request /\ r.num = cur["api"].num /\ r.streams = cur["api"].streams
        /\ r.idx = Head(kQueue) /\ r.epoch = epoch
    BY <2>1, <2>2 DEF Request
  <2>4. /\ pc["api"] = "dqbuf" /\ pc'["api"] = "count" /\ pc'["out"] = pc["out"]
        /\ UNCHANGED <<mRequestList, reqs, kStreaming, kAllocated, leaked, lost, epoch, mClosed, plugged,
                       mV4L2BufferCount, mCirculatingBuffers, mNumDequeuedV4l2Buffers>>
        /\ kQueue # <<>> /\ kQueue' = Tail(kQueue) /\ kStreaming
    BY <1>1 DEF DequeueFrame
  <2>5. ~HoldsFrame("api") /\ HoldsFrame("api")' /\ (HoldsFrame("out")' <=> HoldsFrame("out"))
    BY <2>4 DEF HoldsFrame
  <2>6. HeldRequests' = HeldRequests \cup {r}
    <3>1. {cur'[t] : t \in {u \in Threads : HoldsFrame(u)'}}
            = {cur[t] : t \in {u \in Threads : HoldsFrame(u)}} \cup {r}
      BY <2>2, <2>5
    <3> QED BY <2>4, <3>1 DEF HeldRequests, RangeOf
  <2>7. r \notin HeldRequests
    <3>1. cur["api"].num \notin accepted
      BY <2>4 DEF AInv, Numbered, Submitting
    <3> QED BY <2>3, <2>5, <3>1, HeldAreAccepted
  <2>8. StillCounted' = StillCounted /\ Uncounted' = 1 /\ Uncounted = 0
    BY <2>4 DEF StillCounted, Returned, Uncounted
  <2>9. r.streams \subseteq mCirculatingBuffers /\ StreamsKept'
    BY <2>3, <2>4 DEF PInv, StreamsKept, Submitting
  <2> QED BY <2>3, <2>4, <2>6, <2>7, <2>8, <2>9, FrameTaken
<1>2. CASE DequeueRefused
  <2>1. /\ pc["api"] = "dqbuf" /\ pc'["api"] = "idle" /\ pc'["out"] = pc["out"]
        /\ cur'["out"] = cur["out"]
        /\ UNCHANGED <<mRequestList, reqs, kStreaming, kAllocated, leaked, epoch, mClosed, plugged,
                       mV4L2BufferCount, mCirculatingBuffers, mNumDequeuedV4l2Buffers>>
        /\ kQueue # <<>> /\ kQueue' = Tail(kQueue) /\ lost' = lost \cup {Head(kQueue)}
    BY <1>2 DEF DequeueRefused, LeaveRequest, Return, RequestTypeOK
  <2>2. HeldRequests' = HeldRequests
    BY <2>1, HeldSame DEF HoldsFrame, RangeOf
  <2>3. StillCounted' = StillCounted /\ Uncounted' = Uncounted /\ StreamsKept'
    BY <2>1 DEF StillCounted, Returned, Uncounted, StreamsKept, Submitting
  <2> QED BY <2>1, <2>2, <2>3, FrameRefused
<1> QED BY <1>1, <1>2

\* ... and counted.
LEMMA CountFrameBooks == ASSUME TypeOK, PInv, CountFrame PROVE PInv'
<1> USE GotoMoves DEF TypeOK, PcTypeOK, Threads
<1>1. /\ pc["api"] = "count" /\ pc'["api"] = "record" /\ pc'["out"] = pc["out"]
      /\ UNCHANGED <<mRequestList, reqs, cur, kQueue, kStreaming, kAllocated, leaked, lost, epoch,
                     mClosed, plugged, mV4L2BufferCount, mCirculatingBuffers>>
      /\ mNumDequeuedV4l2Buffers' = mNumDequeuedV4l2Buffers + 1
  BY DEF CountFrame, OneMoreFrame
<1>2. HeldRequests' = HeldRequests
  BY <1>1, HeldSame DEF HoldsFrame, RangeOf
<1>3. mNumDequeuedV4l2Buffers' = mNumDequeuedV4l2Buffers + (StillCounted' - Uncounted')
                                   - (StillCounted - Uncounted)
  BY <1>1 DEF StillCounted, Returned, Uncounted, KernelTypeOK
<1>4. StreamsKept'
  BY <1>1 DEF PInv, StreamsKept, Submitting
<1> QED BY <1>1, <1>2, <1>3, <1>4, BooksSame

\* Requests pass from hand to list to hand with their frames.
LEMMA HandedOverBooks ==
  ASSUME TypeOK, AInv, PInv,
         SubmitRequest \/ NextError \/ TakeRequest \/ (\E byClose \in BOOLEAN : Flush(byClose))
  PROVE  PInv'
<1> USE GotoMoves DEF TypeOK, PcTypeOK, Threads
<1> DEFINE InHand == {cur[t] : t \in {u \in Threads : HoldsFrame(u)}}
<1>1. ASSUME HeldRequests' = HeldRequests,
             UNCHANGED <<kQueue, kStreaming, kAllocated, leaked, lost, epoch, mV4L2BufferCount, mClosed,
                         mCirculatingBuffers, mNumDequeuedV4l2Buffers, plugged>>,
             \A t \in Threads : ((pc'[t] # "uncount" /\ pc[t] # "uncount") \/ pc'[t] = pc[t]),
             ((pc'["api"] # "count" /\ pc["api"] # "count") \/ pc'["api"] = pc["api"]),
             pc'["api"] = "configure" => mInflightFrames' = {},
             StreamsKept'
      PROVE  PInv'
  <2>1. StillCounted' = StillCounted /\ Uncounted' = Uncounted
    BY <1>1 DEF StillCounted, Returned, Uncounted
  <2>2. mNumDequeuedV4l2Buffers' = mNumDequeuedV4l2Buffers + (StillCounted' - Uncounted')
                                     - (StillCounted - Uncounted)
    BY <1>1, <2>1 DEF StillCounted, Uncounted, Returned, KernelTypeOK
  <2> QED BY <1>1, <2>2, BooksSame
<1>2. CASE SubmitRequest
  <2>1. /\ pc["api"] = "submit" /\ pc'["api"] = "idle" /\ pc'["out"] = pc["out"]
        /\ cur'["out"] = cur["out"] /\ UNCHANGED reqs
        /\ mRequestList' = Append(mRequestList, cur["api"])
        /\ cur["api"] \in Request
    BY <1>2 DEF SubmitRequest, PushedBack, LeaveRequest, Return, RequestTypeOK, HasRequest, Unemployed
  <2>2. RangeOf(mRequestList') = RangeOf(mRequestList) \cup {cur["api"]}
    BY <2>1, RangeOfAppend DEF RequestTypeOK
  <2>3. HoldsFrame("api") /\ ~HoldsFrame("api")' /\ (HoldsFrame("out")' <=> HoldsFrame("out"))
    BY <2>1 DEF HoldsFrame
  <2>4. InHand = InHand' \cup {cur["api"]}
    BY <2>1, <2>3
  <2>5. HeldRequests' = HeldRequests
    <3>1. HeldRequests = RangeOf(mRequestList) \cup RangeOf(reqs) \cup InHand
      BY DEF HeldRequests
    <3>2. HeldRequests' = RangeOf(mRequestList') \cup RangeOf(reqs) \cup InHand'
      BY <2>1 DEF HeldRequests, RangeOf
    <3> HIDE DEF InHand
    <3> QED BY <2>2, <2>4, <3>1, <3>2
  <2>6. StreamsKept'
    BY <2>1 DEF StreamsKept, Submitting
  <2> QED BY <1>1, <1>2, <2>1, <2>5, <2>6 DEF SubmitRequest
<1>3. CASE NextError
  <2>1. /\ pc["api"] = "nextError" /\ pc'["api"] = "qbuf" /\ pc'["out"] = pc["out"]
        /\ cur'["out"] = cur["out"] /\ cur'["api"] = Head(reqs) /\ UNCHANGED mRequestList
        /\ reqs # <<>> /\ reqs' = Tail(reqs)
    BY <1>3 DEF NextError, ErrorStartsAt, RequestTypeOK
  <2>2. RangeOf(reqs) = RangeOf(reqs') \cup {cur'["api"]}
    BY <2>1, RangeOfTail DEF RequestTypeOK
  <2>3. ~HoldsFrame("api") /\ HoldsFrame("api")' /\ (HoldsFrame("out")' <=> HoldsFrame("out"))
    BY <2>1 DEF HoldsFrame
  <2>4. InHand' = InHand \cup {cur'["api"]}
    BY <2>1, <2>3
  <2>5. HeldRequests' = HeldRequests
    <3>1. HeldRequests = RangeOf(mRequestList) \cup RangeOf(reqs) \cup InHand
      BY DEF HeldRequests
    <3>2. HeldRequests' = RangeOf(mRequestList) \cup RangeOf(reqs') \cup InHand'
      BY <2>1 DEF HeldRequests, RangeOf
    <3> HIDE DEF InHand
    <3> QED BY <2>2, <2>4, <3>1, <3>2
  <2>6. StreamsKept'
    BY <2>1 DEF StreamsKept, Submitting
  <2> QED BY <1>1, <1>3, <2>1, <2>5, <2>6 DEF NextError
<1>4. CASE TakeRequest
  <2>1. /\ pc["out"] = "wait" /\ pc'["out"] = "convert" /\ pc'["api"] = pc["api"]
        /\ cur'["api"] = cur["api"] /\ cur'["out"] = Head(mRequestList) /\ UNCHANGED reqs
        /\ mRequestList # <<>> /\ mRequestList' = Tail(mRequestList)
    BY <1>4 DEF TakeRequest, RequestTypeOK
  <2>2. RangeOf(mRequestList) = RangeOf(mRequestList') \cup {cur'["out"]}
    BY <2>1, RangeOfTail DEF RequestTypeOK
  <2>3. ~HoldsFrame("out") /\ HoldsFrame("out")' /\ (HoldsFrame("api")' <=> HoldsFrame("api"))
    BY <2>1 DEF HoldsFrame
  <2>4. InHand' = InHand \cup {cur'["out"]}
    BY <2>1, <2>3
  <2>5. HeldRequests' = HeldRequests
    <3>1. HeldRequests = RangeOf(mRequestList) \cup RangeOf(reqs) \cup InHand
      BY DEF HeldRequests
    <3>2. HeldRequests' = RangeOf(mRequestList') \cup RangeOf(reqs) \cup InHand'
      BY <2>1 DEF HeldRequests, RangeOf
    <3> HIDE DEF InHand
    <3> QED BY <2>2, <2>4, <3>1, <3>2
  <2>6. StreamsKept' /\ (pc'["api"] = "configure" => mInflightFrames' = {})
    BY <1>4, <2>1 DEF TakeRequest, PInv, StreamsKept, Allocation
  <2> QED BY <1>1, <1>4, <2>1, <2>5, <2>6 DEF TakeRequest
<1>5. ASSUME NEW byClose \in BOOLEAN, Flush(byClose) PROVE PInv'
  <2>1. /\ pc["api"] = "idle" /\ pc'["api"] \in {"flushWaiting", "nextError"} /\ pc'["out"] = pc["out"]
        /\ UNCHANGED cur /\ mRequestList' = <<>> /\ reqs' = mRequestList
    BY <1>5 DEF Flush, Enter, LeftByFlush, TakenByFlush, AfterTakingList
  <2>2. reqs = <<>>
    BY <2>1 DEF AInv, Ending, ReturnLabels
  <2>3. RangeOf(mRequestList') \cup RangeOf(reqs') = RangeOf(mRequestList) \cup RangeOf(reqs)
    BY <2>1, <2>2, RangeOfNone
  <2>4. HeldRequests' = HeldRequests
    BY <2>1, <2>3, HeldSame DEF HoldsFrame, RangeOf
  <2>5. StreamsKept'
    BY <2>1 DEF StreamsKept, Submitting
  <2> QED BY <1>1, <1>5, <2>1, <2>4, <2>5 DEF Flush
<1> QED BY <1>2, <1>3, <1>4, <1>5

\* The frame goes back to the driver, or stays out for ever.
LEMMA EnqueueBooks ==
  ASSUME TypeOK, AInv, PInv, NEW t \in Threads, EnqueueFrame(t) \/ EnqueueFails(t)
  PROVE  PInv'
<1> USE GotoMoves DEF TypeOK, PcTypeOK, Threads
<1>1. /\ pc[t] = "qbuf" /\ pc'[t] \in {"uncount", "shutter"}
      /\ \A u \in Threads \ {t} : pc'[u] = pc[u]
      /\ UNCHANGED <<mRequestList, reqs, cur, kStreaming, kAllocated, lost, epoch, mClosed, plugged,
                     mV4L2BufferCount, mCirculatingBuffers, mNumDequeuedV4l2Buffers, mInflightFrames>>
  BY DEF EnqueueFrame, EnqueueFails, AfterFailedEnqueue
<1>2. cur[t] \in HeldRequests /\ cur[t] \in Request
  BY <1>1, HeldByOne
<1>3. HeldRequests' = HeldRequests \ {cur[t]}
  <2>1. ~HoldsFrame(t)' /\ \A u \in Threads \ {t} : HoldsFrame(u)' <=> HoldsFrame(u)
    BY <1>1 DEF HoldsFrame
  <2> QED BY <1>1, <2>1, HeldLess
<1>4. /\ pc'["api"] = "configure" => mInflightFrames' = {}
      /\ StreamsKept' /\ Uncounted' = Uncounted
  BY <1>1 DEF PInv, Allocation, StreamsKept, Submitting, Uncounted
<1>5. CASE EnqueueFrame(t)
  <2>1. /\ kQueue' = Append(kQueue, cur[t].idx) /\ UNCHANGED leaked /\ pc'[t] = "uncount"
    BY <1>5 DEF EnqueueFrame
  <2>2. StillCounted' = StillCounted + 1
    BY <1>1, <2>1 DEF StillCounted, Returned
  <2> QED BY <1>1, <1>2, <1>3, <1>4, <2>1, <2>2, FrameReturned
<1>6. CASE EnqueueFails(t)
  <2>1. /\ leaked' = leaked \cup {cur[t].idx} /\ UNCHANGED kQueue /\ pc'[t] = "shutter"
    BY <1>6 DEF EnqueueFails, AfterFailedEnqueue
  <2>2. StillCounted' = StillCounted
    BY <1>1, <2>1 DEF StillCounted, Returned
  <2> QED BY <1>1, <1>2, <1>3, <1>4, <2>1, <2>2, FrameGivenUp
<1> QED BY <1>5, <1>6

LEMMA DeviceErrorBooks == ASSUME TypeOK, AInv, PInv, DeviceError PROVE PInv'
<1> USE GotoMoves DEF TypeOK, PcTypeOK, Threads
<1>1. /\ pc["out"] = "convert" /\ pc'["out"] = "failed" /\ pc'["api"] = pc["api"]
      /\ cur'["api"] = cur["api"] /\ leaked' = leaked \cup {cur["out"].idx}
      /\ UNCHANGED <<mRequestList, reqs, kQueue, kStreaming, kAllocated, lost, epoch, mClosed, plugged,
                     mV4L2BufferCount, mCirculatingBuffers, mNumDequeuedV4l2Buffers, mInflightFrames>>
  BY DEF DeviceError, RequestTypeOK
<1>2. cur["out"] \in HeldRequests /\ cur["out"] \in Request
  BY <1>1, HeldByOne
<1>3. HeldRequests' = HeldRequests \ {cur["out"]}
  <2>1. ~HoldsFrame("out")' /\ \A u \in Threads \ {"out"} : HoldsFrame(u)' <=> HoldsFrame(u)
    BY <1>1 DEF HoldsFrame
  <2> QED BY <1>1, <2>1, HeldLess
<1>4. /\ pc'["api"] = "configure" => mInflightFrames' = {}
      /\ StreamsKept' /\ Uncounted' = Uncounted /\ StillCounted' = StillCounted
  BY <1>1 DEF PInv, Allocation, StreamsKept, Uncounted, StillCounted, Returned
<1> QED BY <1>1, <1>2, <1>3, <1>4, FrameGivenUp

LEMMA UncountBooks == ASSUME TypeOK, PInv, NEW t \in Threads, UncountFrame(t) PROVE PInv'
<1> USE DEF TypeOK, PcTypeOK, Threads
<1>1. /\ pc[t] = "uncount" /\ pc'[t] = "shutter"
      /\ \A u \in Threads \ {t} :
           \/ pc'[u] = pc[u]
           \/ u = "api" /\ <<pc[u], pc'[u]>> \in {<<"idleWaiting", "waitIdle">>, <<"dequeueWaiting", "dqbuf">>}
      /\ UNCHANGED <<mRequestList, reqs, cur, kQueue, kStreaming, kAllocated, leaked, lost, epoch,
                     mClosed, plugged, mV4L2BufferCount, mCirculatingBuffers, mInflightFrames>>
      /\ mNumDequeuedV4l2Buffers' = mNumDequeuedV4l2Buffers - 1
  BY DEF UncountFrame, AfterBufferReturned
<1>2. HeldRequests' = HeldRequests
  <2>1. \A u \in Threads : HoldsFrame(u)' <=> HoldsFrame(u)
    BY <1>1 DEF HoldsFrame
  <2> QED BY <1>1, <2>1, HeldSame DEF RangeOf
<1>3. StillCounted' = StillCounted - 1 /\ Uncounted' = Uncounted
  BY <1>1 DEF StillCounted, Returned, Uncounted
<1>4. mNumDequeuedV4l2Buffers' = mNumDequeuedV4l2Buffers + (StillCounted' - Uncounted')
                                   - (StillCounted - Uncounted)
  <2>1. StillCounted \in Int /\ Uncounted \in Int /\ mNumDequeuedV4l2Buffers \in Int
    BY DEF StillCounted, Returned, Uncounted, KernelTypeOK
  <2> QED BY <1>1, <1>3, <2>1
<1>5. (pc'["api"] = "configure" => mInflightFrames' = {}) /\ StreamsKept'
  BY <1>1 DEF PInv, Allocation, StreamsKept, Submitting
<1> QED BY <1>1, <1>2, <1>4, <1>5, BooksSame

\* The rest of the way of a request, with its frame gone, and the OutputThread between two.
LEMMA ReturnQuietBooks ==
  ASSUME TypeOK, PInv,
         \/ \E t \in Threads : \/ NotifyShutter(t) \/ EraseInflight(t) \/ LockResult(t)
                               \/ LockResultTimeout(t) \/ DeliverResult(t)
         \/ ExitIdle \/ Convert \/ SignalRequestDone
  PROVE  PInv'
<1> USE GotoMoves DEF TypeOK, PcTypeOK, Threads
<1>1. ASSUME NEW t \in Threads,
             \/ NotifyShutter(t) \/ EraseInflight(t) \/ LockResult(t)
             \/ LockResultTimeout(t) \/ DeliverResult(t)
      PROVE  PInv'
  <2>1. /\ pc[t] \in {"shutter", "erase", "result", "callback"}
        /\ pc'[t] \in {"erase", "result", "callback", "done", "nextError"}
        /\ \A u \in Threads \ {t} : pc'[u] = pc[u] /\ cur'[u] = cur[u]
        /\ UNCHANGED <<mRequestList, reqs, kQueue, kStreaming, kAllocated, leaked, lost, epoch, plugged,
                       mV4L2BufferCount, mClosed, mCirculatingBuffers, mNumDequeuedV4l2Buffers>>
        /\ mInflightFrames' \subseteq mInflightFrames
    BY <1>1 DEF NotifyShutter, EraseInflight, Erased, LockResult, LockResultTimeout, DeliverResult,
                AfterResult, RequestTypeOK
  <2>2. \A u \in Threads : /\ HoldsFrame(u)' <=> HoldsFrame(u)
                           /\ HoldsFrame(u) => cur'[u] = cur[u]
                           /\ pc'[u] = "uncount" <=> pc[u] = "uncount"
    BY <2>1 DEF HoldsFrame
  <2>3. /\ pc'["api"] = "count" <=> pc["api"] = "count"
        /\ pc'["api"] = "configure" => mInflightFrames' = {}
        /\ StreamsKept'
    BY <2>1 DEF PInv, Allocation, StreamsKept, Submitting
  <2> QED BY <2>1, <2>2, <2>3, QuietBooks
<1>2. CASE ExitIdle \/ Convert \/ SignalRequestDone
  <2>1. /\ <<pc["out"], pc'["out"]>> \in {<<"wait", "exited">>, <<"convert", "qbuf">>, <<"done", "exited">>,
                                          <<"done", "wait">>, <<"failed", "exited">>, <<"failed", "wait">>}
        /\ pc'["api"] = pc["api"] \/ <<pc["api"], pc'["api"]>> = <<"flushWaiting", "nextError">>
        /\ UNCHANGED <<mRequestList, reqs, cur, kQueue, kStreaming, kAllocated, leaked, lost, epoch,
                       plugged, mV4L2BufferCount, mClosed, mCirculatingBuffers,
                       mNumDequeuedV4l2Buffers, mInflightFrames>>
    BY <1>2 DEF ExitIdle, Convert, SignalRequestDone
  <2>2. \A u \in Threads : /\ HoldsFrame(u)' <=> HoldsFrame(u)
                           /\ pc'[u] = "uncount" <=> pc[u] = "uncount"
    BY <2>1 DEF HoldsFrame
  <2>3. /\ pc'["api"] = "count" <=> pc["api"] = "count"
        /\ pc'["api"] = "configure" => mInflightFrames' = {}
        /\ StreamsKept'
    BY <2>1 DEF PInv, Allocation, StreamsKept, Submitting
  <2> QED BY <2>1, <2>2, <2>3, QuietBooks
<1> QED BY <1>1, <1>2

LEMMA OtherBooks == ASSUME TypeOK, PInv, DumpStep \/ Unplug \/ UNCHANGED vars PROVE PInv'
<1> USE GotoMoves DEF TypeOK, PcTypeOK, Threads
<1>1. /\ UNCHANGED <<mRequestList, reqs, cur, kQueue, kStreaming, kAllocated, leaked, lost, epoch,
                     mV4L2BufferCount, mClosed, mCirculatingBuffers, mNumDequeuedV4l2Buffers,
                     mInflightFrames>>
      /\ pc'["api"] = pc["api"] /\ pc'["out"] = pc["out"]
      /\ plugged' => plugged
  <2>1. CASE DumpState
    BY <2>1 DEF DumpState
  <2>2. CASE DumpClosed \/ DumpOpen
    BY <2>2 DEF DumpClosed, DumpOpen
  <2>3. CASE DumpThread
    BY <2>3 DEF DumpThread
  <2>4. CASE Unplug \/ UNCHANGED vars
    BY <2>4 DEF Unplug, vars
  <2> QED BY <2>1, <2>2, <2>3, <2>4 DEF DumpStep
<1>2. (pc'["api"] = "configure" => mInflightFrames' = {}) /\ StreamsKept'
  BY <1>1 DEF PInv, Allocation, StreamsKept
<1>3. \A t \in Threads : HoldsFrame(t)' <=> HoldsFrame(t)
  BY <1>1 DEF HoldsFrame
<1> QED BY <1>1, <1>2, <1>3, QuietBooks

---------------------------------------------------------------------------
LEMMA InitPInv == Init => PInv
<1> SUFFICES ASSUME Init PROVE PInv
  OBVIOUS
<1> USE DEF Init, Threads
<1>1. HeldRequests = {}
  BY RangeOfNone DEF HeldRequests, HoldsFrame
<1>2. Finite /\ Counted
  BY <1>1, FS_EmptySet DEF Finite, Counted, StillCounted, Returned, Uncounted
<1>3. BufferPartition /\ Allocation /\ NothingStale /\ StreamsKept
  BY <1>1 DEF BufferPartition, Allocation, NothingStale, NoStaleFrame, InflightBuffersAlive,
              StreamsKept, Submitting
<1>4. Apart
  BY <1>1, RangeOfNone DEF Apart, InjectiveQueue
<1> QED BY <1>2, <1>3, <1>4 DEF PInv

LEMMA NextPInv == ASSUME TypeOK, TypeOK', AInv, PInv, [Next]_vars PROVE PInv'
<1>1. ASSUME NEW t \in Threads, ReturnRequest(t) PROVE PInv'
  BY <1>1, EnqueueBooks, UncountBooks, ReturnQuietBooks DEF ReturnRequest
<1>2. CASE ApiCall
  BY <1>2, ApiQuietBooks, HandedOverBooks DEF ApiCall
<1>3. CASE ApiStep
  BY <1>1, <1>3, ApiQuietBooks, ConfigureV4l2Books, ReconfigureBooks, DequeueBooks, CountFrameBooks,
     HandedOverBooks, TeardownBooks DEF ApiStep, Threads, TypeOK
<1>4. CASE OutputThreadStep
  BY <1>1, <1>4, HandedOverBooks, DeviceErrorBooks, ReturnQuietBooks DEF OutputThreadStep, Threads
<1>5. CASE DumpStep \/ Unplug \/ UNCHANGED vars
  BY <1>5, OtherBooks
<1> QED BY <1>2, <1>3, <1>4, <1>5 DEF Next, Crashed, Quiet

LEMMA BooksAreExact == ASSUME PInv PROVE PoolExact /\ NothingStale
BY StillCountedThreads DEF PInv, Counted, Uncounted, PoolExact, CountMatches

LEMMA BooksKept == Spec => []PInv
<1>1. Init => PInv
  BY InitPInv
<1>2. TypeOK /\ TypeOK' /\ AInv /\ PInv /\ [Next]_vars => PInv'
  BY NextPInv
<1>3. Init => AInv
  BY InitAInv
<1>4. TypeOK /\ FlushWorksAlone /\ AInv /\ [Next]_vars => AInv'
  BY NextAInv
<1> QED BY <1>1, <1>2, <1>3, <1>4, TypeCorrect, FlushAlone, PTL DEF Spec

\* Each V4L2 buffer is in the driver's queue, with one request, or known to be given up, and
\* mNumDequeuedV4l2Buffers counts those that are out, through failed ioctls, flushes, changes
\* of the frame rate and close.
THEOREM PoolKept == Spec => []PoolExact
<1>1. PInv => PoolExact
  BY BooksAreExact
<1> QED BY <1>1, BooksKept, PTL

\* No request in flight holds a frame of buffers that were allocated anew since, nor asks for
\* output buffers that have been freed.
THEOREM NeverStale == Spec => []NothingStale
<1>1. PInv => NothingStale
  BY BooksAreExact
<1> QED BY <1>1, BooksKept, PTL

---------------------------------------------------------------------------
(* The order of the shutters. *)

Ascending(s) == \A i, j \in 1..Len(s) : i < j => s[i].num < s[j].num

\* Unless a flush went on early, the requests come in the order of their numbers: the last
\* shutter, the request a thread returns, those that are listed.
InOrder ==
  /\ lastShutter < nextFrame
  /\ ~flushEarly =>
       /\ Ascending(mRequestList) /\ Ascending(reqs)
       /\ \A n \in Listed : lastShutter <= n
       /\ \A t \in Threads : Returning(t) =>
            lastShutter <= cur[t].num /\ \A n \in Listed : cur[t].num < n

LEMMA NumbersAreFrames ==
  ASSUME TypeOK
  PROVE  /\ Nums(mRequestList) \subseteq Frames /\ Nums(reqs) \subseteq Frames
         /\ Listed \subseteq Frames /\ Frames \subseteq Nat
         /\ \A t \in Threads : Returning(t) => cur[t].num \in Frames
         /\ lastShutter \in Nat /\ nextFrame \in Nat
<1>1. Frames \subseteq Nat /\ lastShutter \in Nat /\ nextFrame \in Nat
  BY ConstantsAssumption DEF TypeOK, ClientTypeOK, Frames, ConstantsAssumption
<1>2. \A r \in Request : r.num \in Frames
  BY DEF Request
<1>3. Nums(mRequestList) \subseteq Frames /\ Nums(reqs) \subseteq Frames
  <2>1. \A s \in Seq(Request) : \A i \in 1..Len(s) : s[i] \in Request
    OBVIOUS
  <2> QED BY <1>2, <2>1 DEF TypeOK, RequestTypeOK, Nums
<1>4. ASSUME NEW t \in Threads, Returning(t) PROVE cur[t].num \in Frames
  <2>1. pc[t] \notin Unemployed
    BY <1>4 DEF Returning, ReturnLabels, Unemployed
  <2> QED BY <1>2, <2>1 DEF TypeOK, HasRequest
<1> QED BY <1>1, <1>3, <1>4 DEF Listed

LEMMA AscendingTail ==
  ASSUME NEW s \in Seq(Request), s # <<>>, Ascending(s), \A r \in Request : r.num \in Nat
  PROVE  Ascending(Tail(s)) /\ \A n \in Nums(Tail(s)) : Head(s).num < n
<1>1. /\ Len(s) \in Nat \ {0} /\ Len(Tail(s)) = Len(s) - 1
      /\ \A i \in 1..Len(Tail(s)) : Tail(s)[i] = s[i+1]
      /\ Head(s) = s[1]
  BY HeadTailProperties, EmptySeq
<1>2. \A i \in 1..Len(Tail(s)) : i + 1 \in 1..Len(s) /\ 1 < i + 1
  BY <1>1
<1>3. Ascending(Tail(s))
  <2> SUFFICES ASSUME NEW i \in 1..Len(Tail(s)), NEW j \in 1..Len(Tail(s)), i < j
               PROVE  Tail(s)[i].num < Tail(s)[j].num
    BY DEF Ascending
  <2>1. i + 1 < j + 1
    BY <1>1
  <2>2. s[i + 1].num < s[j + 1].num
    BY <1>2, <2>1 DEF Ascending
  <2> QED BY <1>1, <2>2
<1>4. \A n \in Nums(Tail(s)) : Head(s).num < n
  <2> SUFFICES ASSUME NEW i \in 1..Len(Tail(s)) PROVE Head(s).num < Tail(s)[i].num
    BY DEF Nums
  <2>1. 1 \in 1..Len(s)
    BY <1>1
  <2>2. s[1].num < s[i + 1].num
    BY <1>2, <2>1 DEF Ascending
  <2> QED BY <1>1, <2>2
<1> QED BY <1>3, <1>4

LEMMA AscendingAppend ==
  ASSUME NEW s \in Seq(Request), NEW r \in Request, Ascending(s), \A n \in Nums(s) : n < r.num
  PROVE  Ascending(Append(s, r))
<1>1. /\ Len(s) \in Nat /\ Len(Append(s, r)) = Len(s) + 1
      /\ \A i \in 1..Len(s) : Append(s, r)[i] = s[i]
      /\ Append(s, r)[Len(s) + 1] = r
  BY AppendProperties
<1> SUFFICES ASSUME NEW i \in 1..Len(Append(s, r)), NEW j \in 1..Len(Append(s, r)), i < j
             PROVE  Append(s, r)[i].num < Append(s, r)[j].num
  BY DEF Ascending
<1>2. i \in 1..Len(s) /\ (j \in 1..Len(s) \/ j = Len(s) + 1)
  BY <1>1
<1>3. s[i].num \in Nums(s)
  BY <1>2 DEF Nums
<1>4. CASE j \in 1..Len(s)
  BY <1>1, <1>2, <1>4 DEF Ascending
<1>5. CASE j = Len(s) + 1
  BY <1>1, <1>2, <1>3, <1>5
<1> QED BY <1>2, <1>4, <1>5

\* Only one thread returns a request while no flush has gone on early.
LEMMA OneReturns ==
  ASSUME FlushWorksAlone, ~flushEarly
  PROVE  ~(Returning("api") /\ pc["api"] # "convert" /\ Returning("out"))
BY DEF FlushWorksAlone, Returning

\* A step that lists no request and takes none.
LEMMA OrderStays ==
  ASSUME TypeOK, InOrder, UNCHANGED <<mRequestList, reqs, lastShutter>>,
         flushEarly => flushEarly', nextFrame' \in {nextFrame, nextFrame + 1},
         \A t \in Threads : Returning(t)' => Returning(t) /\ cur'[t].num = cur[t].num
  PROVE  InOrder' /\ lastShutter' >= lastShutter
<1>1. lastShutter \in Nat /\ nextFrame \in Nat
  BY NumbersAreFrames
<1>2. lastShutter' < nextFrame' /\ lastShutter' >= lastShutter
  BY <1>1 DEF InOrder
<1>3. Listed' = Listed
  BY DEF Listed
<1>4. ~flushEarly' => /\ Ascending(mRequestList') /\ Ascending(reqs')
                      /\ \A n \in Listed' : lastShutter' <= n
                      /\ \A t \in Threads : Returning(t)' =>
                           lastShutter' <= cur'[t].num /\ \A n \in Listed' : cur'[t].num < n
  BY <1>3 DEF InOrder
<1> QED BY <1>2, <1>4 DEF InOrder

\* The steps of which this is so.
LEMMA ApiKeepsOrder ==
  ASSUME TypeOK, InOrder,
         \/ ConfigureStreams \/ ProcessCaptureRequest \/ ConfigureV4l2 \/ WaitIdle \/ Reconfigure
         \/ ImportRequest \/ Dequeue \/ BufferWaitTimeout \/ SpuriousBufferWakeup \/ DequeueFrame
         \/ DequeueFails \/ DequeueRefused \/ CountFrame \/ RecordInflight \/ FlushGoesOnEarly
         \/ FlushReturns \/ RequestExit \/ Join \/ Teardown
  PROVE  InOrder' /\ lastShutter' >= lastShutter
<1>1. /\ UNCHANGED <<mRequestList, reqs, lastShutter>>
      /\ flushEarly => flushEarly'
      /\ nextFrame' \in {nextFrame, nextFrame + 1}
  BY DEF ConfigureStreams, ProcessCaptureRequest, ConfigureV4l2, WaitIdle, Reconfigure, ImportRequest,
         Dequeue, BufferWaitTimeout, SpuriousBufferWakeup, DequeueFrame, DequeueFails, DequeueRefused,
         CountFrame, RecordInflight, FlushGoesOnEarly, FlushReturns, RequestExit, Join, Teardown
<1> USE GotoMoves DEF TypeOK, PcTypeOK, Threads
<1>2. ASSUME NEW to \in ApiLabels \ ReturnLabels, Goto("api", to), cur'["out"] = cur["out"]
      PROVE  InOrder' /\ lastShutter' >= lastShutter
  <2>1. pc'["api"] = to /\ pc'["out"] = pc["out"] /\ to # "convert"
    BY <1>2 DEF ApiLabels
  <2>2. ~Returning("api")' /\ (Returning("out")' <=> Returning("out"))
    BY <1>2, <2>1 DEF Returning
  <2> QED BY <1>1, <1>2, <2>2, OrderStays
<1> USE DEF ApiLabels, ReturnLabels
<1>3. ASSUME LeaveRequest PROVE InOrder' /\ lastShutter' >= lastShutter
  <2>1. Goto("api", "idle") /\ cur'["out"] = cur["out"]
    BY <1>3 DEF LeaveRequest, Return, RequestTypeOK
  <2> QED BY <1>2, <2>1
<1>4. CASE \/ ConfigureStreams \/ ConfigureV4l2 \/ WaitIdle \/ Reconfigure \/ Dequeue \/ CountFrame
           \/ RecordInflight \/ FlushGoesOnEarly \/ FlushReturns \/ RequestExit \/ Join \/ Teardown
  <2>1. UNCHANGED cur
    BY <1>4 DEF ConfigureStreams, ConfigureV4l2, WaitIdle, Reconfigure, Dequeue, CountFrame,
                RecordInflight, FlushGoesOnEarly, FlushReturns, RequestExit, Join, Teardown
  <2>2. \E to \in {"idle", "configure", "reconfigure", "idleWaiting", "import", "dequeueWaiting",
                   "dqbuf", "record", "submit", "nextError", "join", "teardown"} : Goto("api", to)
    BY <1>4 DEF ConfigureStreams, ConfigureV4l2, WaitIdle, Reconfigure, Dequeue, CountFrame,
                RecordInflight, FlushGoesOnEarly, FlushReturns, RequestExit, Join, Teardown, Return
  <2> QED BY <1>2, <2>1, <2>2
<1>5. CASE BufferWaitTimeout \/ DequeueFails \/ DequeueRefused
  BY <1>3, <1>5 DEF BufferWaitTimeout, DequeueFails, DequeueRefused
<1>6. CASE ImportRequest
  BY <1>2, <1>3, <1>6 DEF ImportRequest
<1>7. CASE ProcessCaptureRequest
  <2>1. \E to \in {"import", "waitIdle"} : Goto("api", to)
    BY <1>7 DEF ProcessCaptureRequest
  <2>2. cur'["out"] = cur["out"]
    BY <1>7 DEF ProcessCaptureRequest, RequestTypeOK
  <2> QED BY <1>2, <2>1, <2>2
<1>8. CASE SpuriousBufferWakeup
  <2>0. UNCHANGED cur
    BY <1>8 DEF SpuriousBufferWakeup
  <2>1. \E to \in {"waitIdle", "dqbuf"} : Goto("api", to)
    BY <1>8 DEF SpuriousBufferWakeup, AfterBufferReturned
  <2> QED BY <1>2, <2>0, <2>1
<1>9. CASE DequeueFrame
  BY <1>2, <1>9 DEF DequeueFrame, RequestTypeOK
<1> QED BY <1>4, <1>5, <1>6, <1>7, <1>8, <1>9

LEMMA OthersKeepOrder ==
  ASSUME TypeOK, InOrder, ExitIdle \/ Convert \/ DeviceError \/ SignalRequestDone \/ DumpStep \/ Unplug
  PROVE  InOrder' /\ lastShutter' >= lastShutter
<1>1. UNCHANGED <<mRequestList, reqs, lastShutter, flushEarly, nextFrame>>
  BY DEF ExitIdle, Convert, DeviceError, SignalRequestDone, DumpStep, DumpState, DumpClosed, DumpOpen,
         DumpThread, Unplug
<1> USE GotoMoves DEF TypeOK, PcTypeOK, Threads
<1>2. CASE ExitIdle \/ Convert \/ SignalRequestDone
  <2>1. UNCHANGED cur
    BY <1>2 DEF ExitIdle, Convert, SignalRequestDone
  <2>2. <<pc["out"], pc'["out"]>> \in {<<"wait", "exited">>, <<"convert", "qbuf">>, <<"done", "exited">>,
                                       <<"done", "wait">>, <<"failed", "exited">>, <<"failed", "wait">>}
    BY <1>2 DEF ExitIdle, Convert, SignalRequestDone
  <2>3. pc'["api"] = pc["api"] \/ pc'["api"] = "nextError"
    BY <1>2 DEF ExitIdle, Convert, SignalRequestDone
  <2>4. \A t \in Threads : Returning(t)' => Returning(t)
    BY <2>2, <2>3 DEF Returning, ReturnLabels
  <2> QED BY <1>1, <2>1, <2>4, OrderStays
<1>3. CASE DeviceError
  <2>1. pc'["out"] = "failed" /\ pc'["api"] = pc["api"] /\ cur'["api"] = cur["api"]
    BY <1>3 DEF DeviceError, RequestTypeOK
  <2>2. ~Returning("out")' /\ (Returning("api")' <=> Returning("api"))
    BY <2>1 DEF Returning, ReturnLabels
  <2> QED BY <1>1, <2>1, <2>2, OrderStays
<1>4. CASE DumpStep \/ Unplug
  <2>1. UNCHANGED cur /\ pc'["api"] = pc["api"] /\ pc'["out"] = pc["out"]
    <3>1. CASE DumpState
      BY <3>1 DEF DumpState
    <3>2. CASE DumpClosed \/ DumpOpen
      BY <3>2 DEF DumpClosed, DumpOpen
    <3>3. CASE DumpThread
      BY <3>3 DEF DumpThread
    <3>4. CASE Unplug
      BY <3>4 DEF Unplug
    <3> QED BY <1>4, <3>1, <3>2, <3>3, <3>4 DEF DumpStep
  <2>2. \A t \in Threads : Returning(t)' => Returning(t)
    BY <2>1 DEF Returning
  <2> QED BY <1>1, <2>1, <2>2, OrderStays
<1> QED BY <1>2, <1>3, <1>4

\* A thread returns a request: its shutter is not before the last one, and what is listed
\* comes after it.
LEMMA ReturnKeepsOrder ==
  ASSUME TypeOK, FlushWorksAlone, AInv, InOrder, NEW t \in Threads, ReturnRequest(t)
  PROVE  InOrder' /\ (lastShutter' >= lastShutter \/ flushEarly)
<1>1. UNCHANGED <<mRequestList, reqs, flushEarly, nextFrame>>
  BY DEF ReturnRequest, EnqueueFrame, EnqueueFails, UncountFrame, NotifyShutter, EraseInflight,
         LockResult, LockResultTimeout, DeliverResult
<1>2. pc[t] \in ReturnLabels
  BY DEF ReturnRequest, EnqueueFrame, EnqueueFails, UncountFrame, NotifyShutter, EraseInflight,
         LockResult, LockResultTimeout, DeliverResult, ReturnLabels
<1> USE GotoMoves DEF TypeOK, PcTypeOK, Threads
<1>3. \A u \in Threads \ {t} : (Returning(u)' => Returning(u)) /\ cur'[u] = cur[u]
  <2>1. \A u \in Threads \ {t} : cur'[u] = cur[u]
    BY DEF ReturnRequest, EnqueueFrame, EnqueueFails, UncountFrame, NotifyShutter, EraseInflight,
           LockResult, LockResultTimeout, DeliverResult, RequestTypeOK
  <2>2. CASE UncountFrame(t)
    BY <2>1, <2>2 DEF UncountFrame, AfterBufferReturned, Returning, ReturnLabels
  <2>3. CASE ~UncountFrame(t)
    <3>1. PICK label : Goto(t, label)
      BY <2>3 DEF ReturnRequest, EnqueueFrame, EnqueueFails, NotifyShutter, EraseInflight,
                  LockResult, LockResultTimeout, DeliverResult
    <3> QED BY <2>1, <3>1 DEF Returning
  <2> QED BY <2>2, <2>3
<1>4. Returning(t)' => Returning(t) /\ cur'[t].num = cur[t].num
  <2>1. CASE LockResultTimeout(t) \/ DeliverResult(t)
    BY <2>1 DEF LockResultTimeout, DeliverResult, AfterResult, Returning, ReturnLabels
  <2>2. CASE ~(LockResultTimeout(t) \/ DeliverResult(t))
    BY <1>2, <2>2 DEF ReturnRequest, EnqueueFrame, EnqueueFails, UncountFrame, NotifyShutter,
                      EraseInflight, LockResult, Returning
  <2> QED BY <2>1, <2>2
<1>5. CASE ~NotifyShutter(t)
  <2>1. UNCHANGED lastShutter
    BY <1>5 DEF ReturnRequest, EnqueueFrame, EnqueueFails, UncountFrame, EraseInflight,
                LockResult, LockResultTimeout, DeliverResult
  <2>2. \A u \in Threads : Returning(u)' => Returning(u) /\ cur'[u].num = cur[u].num
    BY <1>3, <1>4
  <2> QED BY <1>1, <2>1, <2>2, OrderStays
<1>6. CASE NotifyShutter(t)
  <2>1. lastShutter' = cur[t].num /\ UNCHANGED cur
    BY <1>6 DEF NotifyShutter
  <2>2. /\ cur[t].num \in Nat /\ lastShutter \in Nat /\ nextFrame \in Nat
        /\ Listed \subseteq Nat /\ Listed' = Listed
    BY <1>1, <1>2, NumbersAreFrames DEF Returning, Listed
  <2>3. lastShutter' < nextFrame'
    <3>1. cur[t].num \in accepted
      BY <1>2 DEF AInv, Answers, Pending, Returning
    <3> QED BY <1>1, <2>1, <3>1 DEF AInv, Numbered
  <2>4. CASE flushEarly
    BY <1>1, <2>3, <2>4 DEF InOrder
  <2>5. CASE ~flushEarly
    <3>1. \A u \in Threads : Returning(u)' => u = t
      <4>1. pc["api"] # "convert"
        BY DEF ApiLabels
      <4> QED BY <1>2, <1>3, <2>5, <4>1, OneReturns DEF Returning
    <3>2. lastShutter <= cur[t].num /\ \A n \in Listed : cur[t].num < n
      BY <1>2, <2>5 DEF InOrder, Returning
    <3>3. \A n \in Listed : lastShutter' <= n
      <4> SUFFICES ASSUME NEW n \in Listed PROVE lastShutter' <= n
        OBVIOUS
      <4>1. n \in Nat /\ cur[t].num < n
        BY <2>2, <3>2
      <4> QED BY <2>1, <2>2, <4>1
    <3>4. \A u \in Threads : Returning(u)' =>
            lastShutter' <= cur'[u].num /\ \A n \in Listed' : cur'[u].num < n
      BY <2>1, <2>2, <3>1, <3>2
    <3>5. lastShutter' >= lastShutter
      BY <2>1, <2>2, <3>2
    <3> QED BY <1>1, <2>2, <2>3, <2>5, <3>3, <3>4, <3>5 DEF InOrder
  <2> QED BY <2>4, <2>5
<1> QED BY <1>5, <1>6

\* A request is listed after all others.
LEMMA SubmitKeepsOrder ==
  ASSUME TypeOK, AInv, InOrder, SubmitRequest
  PROVE  InOrder' /\ lastShutter' >= lastShutter
<1> DEFINE r == cur["api"]
<1>1. /\ UNCHANGED <<reqs, nextFrame, lastShutter, flushEarly>>
      /\ mRequestList' = Append(mRequestList, r) /\ pc["api"] = "submit"
      /\ Goto("api", "idle")
  BY DEF SubmitRequest, PushedBack, LeaveRequest, Return
<1>2. r \in Request /\ mRequestList \in Seq(Request) /\ cur'["out"] = cur["out"]
  BY <1>1 DEF SubmitRequest, LeaveRequest, TypeOK, HasRequest, Unemployed, RequestTypeOK, Threads
<1>3. r.num = nextFrame - 1 /\ r.num \notin accepted /\ \A f \in accepted : f < nextFrame
  BY <1>1 DEF AInv, Numbered, Submitting
<1>4. lastShutter \in Nat /\ nextFrame \in Nat /\ Listed \subseteq Nat /\ r.num \in Nat
  BY <1>2, NumbersAreFrames DEF Request
<1>5. Listed \subseteq accepted /\ (Returning("out") => cur["out"].num \in accepted)
  BY DEF AInv, Answers, Pending, Threads
<1>6. accepted \subseteq Nat
  BY NumbersAreFrames DEF TypeOK, ClientTypeOK
<1>7. \A f \in accepted : f < r.num
  <2> SUFFICES ASSUME NEW f \in accepted PROVE f < r.num
    OBVIOUS
  <2>1. f \in Nat /\ f < nextFrame /\ f # r.num
    BY <1>3, <1>6
  <2> HIDE DEF r
  <2> QED BY <1>3, <1>4, <2>1
<1>8. lastShutter <= r.num /\ lastShutter' < nextFrame'
  BY <1>1, <1>3, <1>4 DEF InOrder
<1>9. Distinct(mRequestList) /\ r.num \notin Nums(mRequestList)
  BY <1>3, <1>5 DEF AInv, OnePlace, Listed
<1>10. Listed' = Listed \cup {r.num}
  <2>1. Nums(mRequestList') = Nums(mRequestList) \cup {r.num}
    BY <1>1, <1>2, <1>9, NumsOfAppend
  <2> QED BY <1>1, <2>1 DEF Listed
<1>11. ~Returning("api")' /\ (Returning("out")' <=> Returning("out"))
  BY <1>1, GotoMoves DEF TypeOK, PcTypeOK, Returning, ReturnLabels
<1>12. CASE flushEarly
  BY <1>1, <1>4, <1>8, <1>12 DEF InOrder
<1>13. CASE ~flushEarly
  <2>1. Ascending(mRequestList')
    <3>1. \A n \in Nums(mRequestList) : n < r.num
      BY <1>5, <1>7 DEF Listed
    <3>2. Ascending(mRequestList)
      BY <1>13 DEF InOrder
    <3> HIDE DEF r
    <3> QED BY <1>1, <1>2, <3>1, <3>2, AscendingAppend
  <2>2. \A n \in Listed' : lastShutter' <= n
    BY <1>1, <1>8, <1>10, <1>13 DEF InOrder
  <2>3. \A t \in Threads : Returning(t)' =>
          lastShutter' <= cur'[t].num /\ \A n \in Listed' : cur'[t].num < n
    BY <1>1, <1>2, <1>5, <1>7, <1>10, <1>11, <1>13 DEF InOrder, Threads
  <2> QED BY <1>1, <1>4, <1>8, <1>13, <2>1, <2>2, <2>3 DEF InOrder
<1> QED BY <1>12, <1>13

\* A flush takes the whole list.
LEMMA FlushKeepsOrder ==
  ASSUME TypeOK, AInv, InOrder, NEW byClose \in BOOLEAN, Flush(byClose)
  PROVE  InOrder' /\ lastShutter' >= lastShutter
<1>1. /\ UNCHANGED <<lastShutter, nextFrame, flushEarly, cur>>
      /\ reqs' = mRequestList /\ mRequestList' = <<>> /\ pc["api"] = "idle"
      /\ \E to \in {"flushWaiting", "nextError"} : Goto("api", to)
  BY DEF Flush, Enter, TakenByFlush, LeftByFlush, AfterTakingList
<1>2. reqs = <<>>
  BY <1>1 DEF AInv, Ending, ReturnLabels
<1>3. Listed' = Listed /\ Ascending(<<>>)
  BY <1>1, <1>2, NumsOfNone DEF Listed, Ascending
<1>4. ~Returning("api")' /\ (Returning("out")' <=> Returning("out"))
  BY <1>1, GotoMoves DEF TypeOK, PcTypeOK, Returning, ReturnLabels
<1>5. lastShutter' < nextFrame' /\ lastShutter' >= lastShutter
  BY <1>1, NumbersAreFrames DEF InOrder
<1>6. ~flushEarly' => Ascending(mRequestList') /\ Ascending(reqs')
  BY <1>1, <1>3 DEF InOrder
<1>7. ~flushEarly' => /\ \A n \in Listed' : lastShutter' <= n
                      /\ \A t \in Threads : Returning(t)' =>
                           lastShutter' <= cur'[t].num /\ \A n \in Listed' : cur'[t].num < n
  BY <1>1, <1>3, <1>4 DEF InOrder, Threads
<1> QED BY <1>5, <1>6, <1>7 DEF InOrder

\* A thread takes the first of a list, which the other list is too short to disturb.
LEMMA TakeKeepsOrder ==
  ASSUME TypeOK, FlushWorksAlone, AInv, InOrder, TakeRequest \/ NextError
  PROVE  InOrder' /\ lastShutter' >= lastShutter
<1>1. PICK t \in Threads, s \in Seq(Request) :
        /\ s # <<>> /\ s \in {mRequestList, reqs}
        /\ cur' = [cur EXCEPT ![t] = Head(s)]
        /\ t = "out" => pc[t] = "wait" /\ s = mRequestList /\ mRequestList' = Tail(s) /\ reqs' = reqs
        /\ t = "api" => pc[t] = "nextError" /\ s = reqs /\ reqs' = Tail(s) /\ mRequestList' = mRequestList
        /\ Goto(t, IF t = "out" THEN "convert" ELSE "qbuf")
  <2>1. CASE TakeRequest
    <3>1. mRequestList \in Seq(Request) /\ "out" \in Threads
      BY DEF TypeOK, RequestTypeOK, Threads
    <3> QED BY <2>1, <3>1 DEF TakeRequest
  <2>2. CASE NextError
    <3>1. reqs \in Seq(Request) /\ "api" \in Threads
      BY DEF TypeOK, RequestTypeOK, Threads
    <3> QED BY <2>2, <3>1 DEF NextError, ErrorStartsAt
  <2> QED BY <2>1, <2>2
<1>2. UNCHANGED <<lastShutter, nextFrame, flushEarly>>
  BY DEF TakeRequest, NextError
<1>3. /\ t = "out" => reqs = <<>>
      /\ t = "api" => mRequestList = <<>>
  BY <1>1 DEF AInv, Ending, FlushWorksAlone
<1>4. /\ Listed = Nums(s) /\ Listed' = Nums(Tail(s)) /\ Distinct(s)
  <2>1. CASE t = "out"
    BY <1>1, <1>3, <2>1, NumsOfNone DEF Listed, AInv, OnePlace
  <2>2. CASE t = "api"
    BY <1>1, <1>3, <2>2, NumsOfNone DEF Listed, AInv, OnePlace
  <2> QED BY <2>1, <2>2 DEF Threads
<1>5. Listed = Listed' \cup {Head(s).num}
  BY <1>1, <1>4, NumsOfTail
<1>6. /\ \A u \in Threads \ {t} : (Returning(u)' <=> Returning(u)) /\ cur'[u] = cur[u]
      /\ cur'[t] = Head(s)
  BY <1>1, GotoMoves DEF TypeOK, PcTypeOK, RequestTypeOK, Returning, Threads
<1>7. lastShutter' < nextFrame' /\ lastShutter' >= lastShutter
  BY <1>2, NumbersAreFrames DEF InOrder
<1>8. ASSUME ~flushEarly
      PROVE  /\ Ascending(mRequestList') /\ Ascending(reqs')
             /\ \A n \in Listed' : lastShutter' <= n
             /\ \A u \in Threads : Returning(u)' =>
                  lastShutter' <= cur'[u].num /\ \A n \in Listed' : cur'[u].num < n
  <2>1. Ascending(s) /\ Ascending(mRequestList) /\ Ascending(reqs)
    BY <1>1, <1>8 DEF InOrder
  <2>2. Ascending(Tail(s)) /\ \A n \in Nums(Tail(s)) : Head(s).num < n
    <3>1. \A r \in Request : r.num \in Nat
      BY NumbersAreFrames DEF Request
    <3> QED BY <1>1, <2>1, <3>1, AscendingTail
  <2>3. Ascending(mRequestList') /\ Ascending(reqs')
    BY <1>1, <2>1, <2>2 DEF Threads
  <2>4. \A n \in Listed : lastShutter <= n
    BY <1>8 DEF InOrder
  <2>5. \A u \in Threads \ {t} : Returning(u)' =>
          lastShutter' <= cur'[u].num /\ \A n \in Listed' : cur'[u].num < n
    BY <1>2, <1>5, <1>6, <1>8 DEF InOrder
  <2>6. lastShutter' <= cur'[t].num /\ \A n \in Listed' : cur'[t].num < n
    BY <1>2, <1>4, <1>5, <1>6, <2>2, <2>4
  <2> QED BY <1>2, <1>5, <2>3, <2>4, <2>5, <2>6
<1> QED BY <1>2, <1>7, <1>8 DEF InOrder

LEMMA NextKeepsOrder ==
  ASSUME TypeOK, FlushWorksAlone, AInv, InOrder, [Next]_vars
  PROVE  InOrder' /\ (lastShutter' >= lastShutter \/ flushEarly)
<1>1. ASSUME NEW t \in Threads, ReturnRequest(t)
      PROVE  InOrder' /\ (lastShutter' >= lastShutter \/ flushEarly)
  BY <1>1, ReturnKeepsOrder
<1>2. CASE ApiCall
  BY <1>2, ApiKeepsOrder, FlushKeepsOrder DEF ApiCall
<1>3. CASE ApiStep
  BY <1>1, <1>3, ApiKeepsOrder, SubmitKeepsOrder, TakeKeepsOrder DEF ApiStep, Threads
<1>4. CASE OutputThreadStep
  BY <1>1, <1>4, OthersKeepOrder, TakeKeepsOrder DEF OutputThreadStep, Threads
<1>5. CASE DumpStep \/ Unplug
  BY <1>5, OthersKeepOrder
<1>6. CASE UNCHANGED vars
  <2>1. UNCHANGED <<mRequestList, reqs, lastShutter, flushEarly, nextFrame, cur, pc>>
    BY <1>6 DEF vars
  <2>2. \A t \in Threads : Returning(t)' => Returning(t)
    BY <2>1 DEF Returning
  <2> QED BY <2>1, <2>2, OrderStays
<1> QED BY <1>2, <1>3, <1>4, <1>5, <1>6 DEF Next, Crashed, Quiet

\* The OutputThread and a flush each notify shutters, from lists that are filled and emptied
\* while the other works: as long as no flush went on early, a shutter never comes after that
\* of a later request.
THEOREM ShuttersInOrder == Spec => ShutterOrder
<1>1. Init => InOrder
  <2> SUFFICES ASSUME Init PROVE InOrder
    OBVIOUS
  <2>1. ~Returning("api") /\ ~Returning("out") /\ Listed = {}
    BY NumsOfNone DEF Init, Returning, ReturnLabels, Listed
  <2> QED BY <2>1 DEF Init, InOrder, Ascending, Threads
<1>2. TypeOK /\ FlushWorksAlone /\ AInv /\ InOrder /\ [Next]_vars
        => InOrder' /\ [lastShutter' >= lastShutter \/ flushEarly]_vars
  BY NextKeepsOrder
<1>3. Init => AInv
  BY InitAInv
<1>4. TypeOK /\ FlushWorksAlone /\ AInv /\ [Next]_vars => AInv'
  BY NextAInv
<1> QED BY <1>1, <1>2, <1>3, <1>4, TypeCorrect, FlushAlone, PTL DEF Spec, ShutterOrder
=============================================================================
