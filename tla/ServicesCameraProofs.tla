------------------------ MODULE ServicesCameraProofs ------------------------
(***************************************************************************)
(* What holds of the parts of Services that belong to the cameras: the     *)
(* exchange of buffers, the two providers and the captures; and the types  *)
(* of all parts.                                                           *)
(***************************************************************************)
EXTENDS ServicesModemProofs
---------------------------------------------------------------------------
(* The buffer request thread: until a notify misleads a wait, a result     *)
(* carries what was asked for by its own request.                          *)

Working == {"decode", "wait", "blocked", "woken"}
Asking  == {"ask", "lent", "refused"}

BufThreads ==
  /\ output \in [pc : Working \cup {"idle", "ended"}, frame : BufReq!Frames \cup {BufReq!None}]
  /\ asker \in Asking \cup {"wait", "notify", "ended"}
  /\ nextRequest \in Nat \ {0}
  /\ \A a \in answered : a[1] \in BufReq!Frames /\ a[1] < nextRequest
  /\ output.frame < nextRequest /\ mBufferReqs < nextRequest /\ mHalBufferReqs < nextRequest
  /\ output.pc \in Working => output.frame # BufReq!None
  /\ asker \in Asking => mHalBufferReqs # BufReq!None

\* The exchange holds one request at a time, first to be asked for, then answered, and
\* it is the one the output thread works on.
OneInHand ==
  /\ mBufferReqs = BufReq!None \/ mPendingReturnBufferReqs = BufReq!Nothing
  /\ ~mRequestingBuffer => mBufferReqs = BufReq!None /\ mPendingReturnBufferReqs = BufReq!Nothing
  /\ asker \in Asking => mBufferReqs # BufReq!None /\ mHalBufferReqs = mBufferReqs
  /\ output.pc \in Working =>
       /\ mRequestingBuffer /\ output.frame # BufReq!None
       /\ mBufferReqs \in {BufReq!None, output.frame}
       /\ mPendingReturnBufferReqs \in {BufReq!Nothing, <<output.frame, output.frame>>}

\* Buffers that are lent are those of the request that was asked for last, and they are
\* on their way to the result.
LentInHand ==
  \A f \in lent : /\ f = mHalBufferReqs /\ f # BufReq!None /\ asker # "ask" /\ mRequestingBuffer
                  /\ asker \in {"wait", "notify"} => mBufferReqs = BufReq!None
                  /\ mBufferReqs = BufReq!None => mPendingReturnBufferReqs = <<f, f>>

OwnBuffers == \A a \in answered : a[2] = <<a[1], a[1]>> /\ a[1] \notin lent /\ a[1] # mBufferReqs

BufReqInv ==
  BufReq!TypeOK /\ BufThreads /\ (~misled => OneInHand /\ LentInHand /\ OwnBuffers)

LEMMA BufReqInit == BufReq!Init => BufReqInv
<1> SUFFICES ASSUME BufReq!Init PROVE BufReqInv
  OBVIOUS
<1> USE DEF BufReq!Init, BufReq!None, BufReq!Nothing
<1>1. BufReq!TypeOK
  BY DEF BufReq!TypeOK
<1>2. BufThreads
  BY DEF BufThreads, Working, Asking
<1>3. OneInHand
  BY DEF OneInHand, Working, Asking
<1>4. LentInHand /\ OwnBuffers
  BY DEF LentInHand, OwnBuffers
<1> QED
  BY <1>1, <1>2, <1>3, <1>4 DEF BufReqInv

\* Each step of the two threads, and of the session's close, keeps the types.
LEMMA BufReqTypes ==
  BufReq!TypeOK /\ BufThreads /\ [BufReq!Next]_BufReq!bufReqVars => BufReq!TypeOK' /\ BufThreads'
<1> SUFFICES ASSUME BufReq!TypeOK, BufThreads, [BufReq!Next]_BufReq!bufReqVars
             PROVE  BufReq!TypeOK' /\ BufThreads'
  OBVIOUS
<1> USE DEF BufReq!TypeOK, BufThreads, Working, Asking, BufReq!None, BufReq!Nothing, BufReq!Frames,
            BufReq!sharedVars, BufReq!resultVars, BufReq!DeviceError
<1>1. CASE BufReq!RequestBufferStart
  <2>1. nextRequest \in BufReq!Frames /\ nextRequest # BufReq!None /\ nextRequest' = nextRequest + 1
    BY <1>1 DEF BufReq!RequestBufferStart
  <2>2. BufReq!TypeOK'
    BY <1>1, <2>1 DEF BufReq!RequestBufferStart
  <2>3. \A a \in answered' : a[1] \in BufReq!Frames /\ a[1] < nextRequest'
    <3>1. answered' = answered
      BY <1>1 DEF BufReq!RequestBufferStart
    <3>2. SUFFICES ASSUME NEW a \in answered PROVE a[1] \in BufReq!Frames /\ a[1] < nextRequest + 1
      BY <2>1, <3>1
    <3>3. a[1] \in BufReq!Frames /\ a[1] < nextRequest
      OBVIOUS
    <3> QED BY <2>1, <3>3
  <2>4. BufThreads'
    <3>1. CASE BufReq!NoneInProgress
      BY <1>1, <2>1, <2>3, <3>1 DEF BufReq!RequestBufferStart
    <3>2. CASE ~BufReq!NoneInProgress
      <4>1. mBufferReqs' = mBufferReqs /\ output' = [pc |-> "ended", frame |-> BufReq!None]
        BY <1>1, <3>2 DEF BufReq!RequestBufferStart
      <4> QED BY <1>1, <2>1, <2>3, <4>1 DEF BufReq!RequestBufferStart
    <3> QED BY <3>1, <3>2
  <2> QED BY <2>2, <2>4
<1>2. CASE BufReq!Decode
  BY <1>2 DEF BufReq!Decode
<1>3. CASE BufReq!Block
  BY <1>3 DEF BufReq!Block
<1>4. CASE BufReq!WaitForBufferRequestDone
  <2>1. output.frame \in BufReq!Frames \cup {BufReq!None}
    OBVIOUS
  <2>2. BufReq!TypeOK'
    BY <1>4 DEF BufReq!WaitForBufferRequestDone
  <2>3. \A a \in answered' : a[1] \in BufReq!Frames /\ a[1] < nextRequest'
    <3>1. output.frame # BufReq!None /\ output.frame < nextRequest
      BY <1>4 DEF BufReq!WaitForBufferRequestDone
    <3> QED BY <1>4, <3>1 DEF BufReq!WaitForBufferRequestDone
  <2>4. BufThreads'
    BY <1>4, <2>3 DEF BufReq!WaitForBufferRequestDone
  <2> QED BY <2>2, <2>4
<1>5. CASE BufReq!WaitTimesOut
  BY <1>5 DEF BufReq!WaitTimesOut
<1>6. CASE BufReq!WaitForNextRequest
  BY <1>6 DEF BufReq!WaitForNextRequest
<1>7. CASE BufReq!RequestStreamBuffers
  BY <1>7 DEF BufReq!RequestStreamBuffers
<1>8. CASE BufReq!HandOver
  BY <1>8 DEF BufReq!HandOver
<1>9. CASE BufReq!NotifyDone
  BY <1>9 DEF BufReq!NotifyDone
<1>10. CASE BufReq!RequestExit
  BY <1>10 DEF BufReq!RequestExit
<1>11. CASE UNCHANGED BufReq!bufReqVars
  BY <1>11 DEF BufReq!bufReqVars
<1> QED
  BY <1>1, <1>2, <1>3, <1>4, <1>5, <1>6, <1>7, <1>8, <1>9, <1>10, <1>11 DEF BufReq!Next

\* And, as long as no wait was misled, the exchange.
LEMMA BufReqStep == BufReqInv /\ [BufReq!Next]_BufReq!bufReqVars => BufReqInv'
<1> SUFFICES ASSUME BufReqInv, [BufReq!Next]_BufReq!bufReqVars PROVE BufReqInv'
  OBVIOUS
<1>1. BufReq!TypeOK /\ BufThreads /\ BufReq!TypeOK' /\ BufThreads'
  BY BufReqTypes DEF BufReqInv
<1>2. SUFFICES ASSUME ~misled' PROVE OneInHand' /\ LentInHand' /\ OwnBuffers'
  BY <1>1 DEF BufReqInv
<1>3. ~misled
  BY <1>2 DEF BufReq!Next, BufReq!RequestBufferStart, BufReq!Decode, BufReq!Block,
     BufReq!WaitForBufferRequestDone, BufReq!WaitTimesOut, BufReq!WaitForNextRequest,
     BufReq!RequestStreamBuffers, BufReq!HandOver, BufReq!NotifyDone, BufReq!RequestExit,
     BufReq!bufReqVars, BufReq!resultVars, BufReqInv, BufReq!TypeOK
<1>4. OneInHand /\ LentInHand /\ OwnBuffers
  BY <1>3 DEF BufReqInv
<1> USE DEF Working, Asking, BufReq!None, BufReq!Nothing, BufReq!sharedVars, BufReq!resultVars,
            BufReq!DeviceError
<1>5. CASE BufReq!RequestBufferStart
  <2>1. nextRequest # BufReq!None
    BY <1>1 DEF BufThreads
  <2>2. CASE BufReq!NoneInProgress
    <3>1. OneInHand'
      BY <1>1, <1>4, <1>5, <2>1, <2>2 DEF BufReq!RequestBufferStart, BufReq!NoneInProgress,
         OneInHand, BufThreads
    <3>2. LentInHand'
      BY <1>4, <1>5, <2>2 DEF BufReq!RequestBufferStart, BufReq!NoneInProgress, LentInHand
    <3>3. OwnBuffers'
      BY <1>1, <1>4, <1>5, <2>2 DEF BufReq!RequestBufferStart, OwnBuffers, BufThreads
    <3> QED BY <3>1, <3>2, <3>3
  <2>3. CASE ~BufReq!NoneInProgress
    <3>1. /\ output' = [pc |-> "ended", frame |-> BufReq!None]
          /\ UNCHANGED <<BufReq!sharedVars, mHalBufferReqs, asker, BufReq!resultVars>>
      BY <1>5, <2>3 DEF BufReq!RequestBufferStart
    <3> QED BY <1>4, <3>1 DEF OneInHand, LentInHand, OwnBuffers
  <2> QED BY <2>2, <2>3
<1>6. CASE BufReq!Decode
  BY <1>1, <1>4, <1>6 DEF BufReq!Decode, OneInHand, LentInHand, OwnBuffers, BufThreads
<1>7. CASE BufReq!Block
  BY <1>1, <1>4, <1>7 DEF BufReq!Block, OneInHand, LentInHand, OwnBuffers, BufThreads
<1>8. CASE BufReq!WaitForBufferRequestDone
  <2>1. /\ mPendingReturnBufferReqs = <<output.frame, output.frame>>
        /\ mBufferReqs = BufReq!None /\ output.frame # BufReq!None
    BY <1>2, <1>4, <1>8 DEF BufReq!WaitForBufferRequestDone, OneInHand
  <2>2. lent' = {}
    BY <1>4, <1>8, <2>1 DEF BufReq!WaitForBufferRequestDone, LentInHand
  <2>3. OneInHand'
    BY <1>4, <1>8, <2>1 DEF BufReq!WaitForBufferRequestDone, OneInHand
  <2>4. LentInHand'
    BY <2>2 DEF LentInHand
  <2>5. OwnBuffers'
    BY <1>4, <1>8, <2>1, <2>2 DEF BufReq!WaitForBufferRequestDone, OwnBuffers
  <2> QED BY <2>3, <2>4, <2>5
<1>9. CASE BufReq!WaitTimesOut
  BY <1>4, <1>9 DEF BufReq!WaitTimesOut, OneInHand, LentInHand, OwnBuffers
<1>10. CASE BufReq!WaitForNextRequest
  BY <1>4, <1>10 DEF BufReq!WaitForNextRequest, OneInHand, LentInHand, OwnBuffers
<1>11. CASE BufReq!RequestStreamBuffers
  BY <1>4, <1>11 DEF BufReq!RequestStreamBuffers, OneInHand, LentInHand, OwnBuffers
<1>12. CASE BufReq!HandOver
  <2>1. mBufferReqs # BufReq!None /\ mHalBufferReqs = mBufferReqs /\ mRequestingBuffer
    BY <1>4, <1>12 DEF BufReq!HandOver, OneInHand
  <2>2. OneInHand'
    BY <1>4, <1>12, <2>1 DEF BufReq!HandOver, OneInHand
  <2>3. LentInHand'
    BY <1>4, <1>12, <2>1 DEF BufReq!HandOver, LentInHand
  <2>4. OwnBuffers'
    <3>1. UNCHANGED <<answered, lent>> /\ mBufferReqs' \in {mBufferReqs, BufReq!None}
      BY <1>12 DEF BufReq!HandOver
    <3>2. \A a \in answered : a[1] # BufReq!None
      BY <1>1 DEF BufThreads, BufReq!Frames
    <3> QED BY <1>4, <3>1, <3>2 DEF OwnBuffers
  <2> QED BY <2>2, <2>3, <2>4
<1>13. CASE BufReq!NotifyDone
  BY <1>1, <1>4, <1>13 DEF BufReq!NotifyDone, OneInHand, LentInHand, OwnBuffers, BufThreads
<1>14. CASE BufReq!RequestExit
  BY <1>4, <1>14 DEF BufReq!RequestExit, OneInHand, LentInHand, OwnBuffers
<1>15. CASE UNCHANGED BufReq!bufReqVars
  BY <1>4, <1>15 DEF BufReq!bufReqVars, OneInHand, LentInHand, OwnBuffers
<1> QED
  BY <1>5, <1>6, <1>7, <1>8, <1>9, <1>10, <1>11, <1>12, <1>13, <1>14, <1>15 DEF BufReq!Next

\* As long as no notify of the request thread has ended a wait it was not meant for, each
\* result carries what its own request asked for, whatever times out or fails in
\* requestBufferStart, waitForBufferRequestDone and the request thread, for any number of
\* requests.
THEOREM BufferRequests == BufReq!Spec => []BufReq!AnswersMatch
<1>1. BufReqInv => BufReq!AnswersMatch
  BY DEF BufReqInv, OneInHand, LentInHand, OwnBuffers, BufReq!AnswersMatch
<1> QED
  BY <1>1, BufReqInit, BufReqStep, PTL DEF BufReq!Spec

LEMMA SuiteBufReq == SuiteSpec => BufReq!Spec
<1>1. SuiteInit => BufReq!Init
  BY DEF SuiteInit
<1>2. [SuiteNext]_suiteVars => [BufReq!Next]_BufReq!bufReqVars
  BY DEF SuiteNext, Still, suiteVars, bufReqVars, BufReq!bufReqVars, BufReq!sharedVars, BufReq!resultVars
<1> QED
  BY <1>1, <1>2, PTL DEF SuiteSpec, BufReq!Spec

\* The same in the suite: until a late notify misleads a wait, what a result carries, its own
\* request asked for.
THEOREM BuffersMatch == SuiteSpec => []AnswersMatch
<1>1. BufReq!AnswersMatch => AnswersMatch
  BY DEF AnswersMatch
<1> QED
  BY <1>1, SuiteBufReq, BufferRequests, PTL

---------------------------------------------------------------------------
(* The provider of USB cameras. *)

Idling(t) == t = Usb!Waiting \/ t = [pc |-> "open"] \/ t = [pc |-> "watch"]

UsbTypes ==
  /\ dev \subseteq Nodes /\ usbStatusMap \subseteq Usb!External
  /\ events \in Seq({"create", "delete"} \X Nodes)
  /\ usbCallbacks \in BOOLEAN
  /\ setter \in [todo : SUBSET Usb!External, held : SUBSET Usb!External]
  /\ \/ Idling(thread)
     \/ thread \in [pc : {"scan"}, left : SUBSET Usb!External]
     \/ thread \in [pc : {"probe", "add", "remove"}, node : Usb!External]
     \/ thread \in [pc : {"probe", "add"}, node : Usb!External, scanning : SUBSET Usb!External]

\* What the thread has still to look at of the directory, and the node it works on.
Left(t) == IF t.pc = "scan" THEN t.left ELSE IF "scanning" \in DOMAIN t THEN t.scanning ELSE {}
On(t, n) == t.pc \in {"probe", "add", "remove"} /\ t.node = n
Announced(n) == \E i \in DOMAIN events : events[i][2] = n

\* The last event of a node says whether it is there.
LastIsTrue ==
  \A i \in DOMAIN events :
    (\A j \in DOMAIN events : j > i => events[j][2] # events[i][2])
      => (events[i][1] = "create" <=> events[i][2] \in dev)

\* Until the watch is set, a node that has not changed is still to be scanned, or has been.
Scanned ==
  ~Usb!Watched =>
    /\ events = <<>>
    /\ \A n \in Usb!External \ gap :
         /\ n \in usbStatusMap \cup Left(thread) \/ On(thread, n) => n \in dev
         /\ n \in dev /\ thread.pc # "open" =>
              n \in usbStatusMap \cup unopened \cup Left(thread) \/ On(thread, n)

\* Then, of a node with no event to come, the map or the thread knows.
KnownOrWorkedOn ==
  Usb!Watched =>
    \A n \in Usb!External \ gap :
      ~Announced(n) =>
        /\ On(thread, n) => (n \in dev <=> thread.pc # "remove")
        /\ ~On(thread, n) /\ n \notin unopened => (n \in usbStatusMap <=> n \in dev)

\* What the service believes.
ViewFollows ==
  /\ usbCallbacks =>
       /\ usbStatusMap \subseteq usbView \cup setter.todo \cup setter.held \cup raced
       /\ usbView \cup setter.held \subseteq usbStatusMap \cup raced
  /\ ~usbCallbacks => usbView = {} /\ setter = Usb!NoSetter /\ raced = {}

UsbInv == UsbTypes /\ LastIsTrue /\ Scanned /\ KnownOrWorkedOn /\ ViewFollows

Watching(t) == t.pc \notin {"open", "scan", "watch"} /\ ~("scanning" \in DOMAIN t)
Works == {"probe", "add", "remove"}

\* The shapes of the thread, and what they say.
LEMMA Shapes ==
  ASSUME NEW t
  PROVE  /\ t = Usb!Waiting => Watching(t) /\ t.pc = "read" /\ Left(t) = {} /\ \A n : ~On(t, n)
         /\ \A p \in {"open", "watch"} :
              t = [pc |-> p] => ~Watching(t) /\ t.pc = p /\ Left(t) = {} /\ \A n : ~On(t, n)
         /\ \A L : t = [pc |-> "scan", left |-> L]
                   => ~Watching(t) /\ t.pc = "scan" /\ Left(t) = L /\ \A n : ~On(t, n)
         /\ \A p \in Works : \A m : t = [pc |-> p, node |-> m]
              => /\ Watching(t) /\ t.pc = p /\ t.node = m /\ Left(t) = {}
                 /\ \A n : On(t, n) <=> n = m
         /\ \A p \in Works : \A m, S : t = [pc |-> p, node |-> m, scanning |-> S]
              => /\ ~Watching(t) /\ t.pc = p /\ t.node = m /\ Left(t) = S
                 /\ \A n : On(t, n) <=> n = m
<1>1. t = Usb!Waiting => Watching(t) /\ t.pc = "read" /\ Left(t) = {} /\ \A n : ~On(t, n)
  BY DEF Usb!Waiting, Watching, Left, On
<1>2. \A p \in {"open", "watch"} :
        t = [pc |-> p] => ~Watching(t) /\ t.pc = p /\ Left(t) = {} /\ \A n : ~On(t, n)
  BY DEF Watching, Left, On
<1>3. \A L : t = [pc |-> "scan", left |-> L]
             => ~Watching(t) /\ t.pc = "scan" /\ Left(t) = L /\ \A n : ~On(t, n)
  BY DEF Watching, Left, On
<1>4. ASSUME NEW p \in Works, NEW m, t = [pc |-> p, node |-> m]
      PROVE  /\ Watching(t) /\ t.pc = p /\ t.node = m /\ Left(t) = {}
             /\ \A n : On(t, n) <=> n = m
  BY <1>4 DEF Works, Watching, Left, On
<1>5. ASSUME NEW p \in Works, NEW m, NEW S, t = [pc |-> p, node |-> m, scanning |-> S]
      PROVE  /\ ~Watching(t) /\ t.pc = p /\ t.node = m /\ Left(t) = S
             /\ \A n : On(t, n) <=> n = m
  BY <1>5 DEF Works, Watching, Left, On
<1> QED
  BY <1>1, <1>2, <1>3, <1>4, <1>5

LEMMA ThreadIs ==
  ASSUME UsbTypes
  PROVE  \/ thread = Usb!Waiting
         \/ thread = [pc |-> "open"]
         \/ thread = [pc |-> "watch"]
         \/ \E L \in SUBSET Usb!External : thread = [pc |-> "scan", left |-> L]
         \/ \E p \in Works, m \in Usb!External : thread = [pc |-> p, node |-> m]
         \/ \E p \in Works \ {"remove"}, m \in Usb!External, S \in SUBSET Usb!External :
              thread = [pc |-> p, node |-> m, scanning |-> S]
<1>1. CASE Idling(thread)
  BY <1>1 DEF Idling
<1>2. CASE thread \in [pc : {"scan"}, left : SUBSET Usb!External]
  BY <1>2
<1>3. CASE thread \in [pc : {"probe", "add", "remove"}, node : Usb!External]
  <2>1. thread = [pc |-> thread.pc, node |-> thread.node] /\ thread.pc \in Works
        /\ thread.node \in Usb!External
    BY <1>3 DEF Works
  <2> QED
    BY <2>1
<1>4. CASE thread \in [pc : {"probe", "add"}, node : Usb!External, scanning : SUBSET Usb!External]
  <2>1. thread = [pc |-> thread.pc, node |-> thread.node, scanning |-> thread.scanning]
        /\ thread.pc \in Works \ {"remove"} /\ thread.node \in Usb!External
        /\ thread.scanning \in SUBSET Usb!External
    BY <1>4 DEF Works
  <2> QED
    BY <2>1
<1> QED
  BY <1>1, <1>2, <1>3, <1>4 DEF UsbTypes

LEMMA UsbInit == ASSUME Usb!Init PROVE UsbInv
<1>1. /\ dev \in SUBSET Nodes /\ events = <<>> /\ thread = [pc |-> "open"] /\ usbStatusMap = {}
      /\ usbCallbacks = FALSE /\ setter = Usb!NoSetter /\ usbView = {} /\ raced = {}
  BY DEF Usb!Init
<1>2. UsbTypes
  <2>1. usbCallbacks \in BOOLEAN
    BY <1>1, Zenon
  <2>2. /\ dev \subseteq Nodes /\ usbStatusMap \subseteq Usb!External
        /\ events \in Seq({"create", "delete"} \X Nodes)
        /\ setter \in [todo : SUBSET Usb!External, held : SUBSET Usb!External]
        /\ Idling(thread)
    BY <1>1 DEF Idling, Usb!NoSetter
  <2> QED
    BY <2>1, <2>2 DEF UsbTypes
<1>3. LastIsTrue
  BY <1>1 DEF LastIsTrue
<1>4. ~Watching(thread) /\ Left(thread) = {} /\ thread.pc = "open" /\ \A n : ~On(thread, n)
  BY <1>1, Shapes
<1>5. Scanned
  BY <1>1, <1>4 DEF Scanned
<1>6. KnownOrWorkedOn
  BY <1>4 DEF KnownOrWorkedOn, Usb!Watched, Watching
<1>7. ViewFollows
  BY <1>1 DEF ViewFollows
<1> QED
  BY <1>2, <1>3, <1>5, <1>6, <1>7 DEF UsbInv

\* A step of the camera service: what the thread knows and looks at stays.
LEMMA ServiceStep ==
  ASSUME UsbInv,
         Usb!SetCallback \/ Usb!SetterReads \/ Usb!SetterReports \/ Usb!ServiceDies
  PROVE  UsbInv'
<1>1. UNCHANGED <<dev, events, thread, usbStatusMap, gap, unopened>>
  BY DEF Usb!SetCallback, Usb!SetterReads, Usb!SetterReports, Usb!ServiceDies, Usb!historyVars
<1>2. usbCallbacks' \in BOOLEAN
  BY Zenon DEF Usb!SetCallback, Usb!SetterReads, Usb!SetterReports, Usb!ServiceDies, UsbInv, UsbTypes
<1>3. /\ setter \in [todo : SUBSET Usb!External, held : SUBSET Usb!External]
      /\ usbStatusMap \subseteq Usb!External
  BY DEF UsbInv, UsbTypes
<1>4. setter' \in [todo : SUBSET Usb!External, held : SUBSET Usb!External]
  BY <1>3 DEF Usb!SetCallback, Usb!SetterReads, Usb!SetterReports, Usb!ServiceDies
<1>5. UsbTypes'
  BY <1>1, <1>2, <1>4 DEF UsbInv, UsbTypes, Idling
<1>6. LastIsTrue' /\ Scanned' /\ KnownOrWorkedOn'
  BY <1>1 DEF UsbInv, LastIsTrue, Scanned, KnownOrWorkedOn, Usb!Watched, Announced
<1>7. ViewFollows'
  <2> USE DEF UsbInv, ViewFollows, Usb!historyVars
  <2>1. CASE Usb!SetCallback
    BY <1>1, <1>3, <2>1 DEF Usb!SetCallback, Usb!NoSetter
  <2>2. CASE Usb!SetterReads
    <3>1. usbCallbacks
      BY <2>2 DEF Usb!SetterReads, Usb!NoSetter
    <3>2. PICK n \in setter.todo : setter' = [todo |-> setter.todo \ {n}, held |-> {n} \cap usbStatusMap]
      BY <2>2 DEF Usb!SetterReads
    <3>3. setter'.todo = setter.todo \ {n} /\ setter'.held = {n} \cap usbStatusMap
      BY <3>2
    <3> QED
      BY <1>1, <1>3, <2>2, <3>1, <3>3 DEF Usb!SetterReads
  <2>3. CASE Usb!SetterReports
    <3>1. usbCallbacks
      BY <2>3 DEF Usb!SetterReports, Usb!NoSetter
    <3>2. setter'.todo = setter.todo /\ setter'.held = {}
      BY <1>3, <2>3 DEF Usb!SetterReports
    <3> QED
      BY <1>1, <1>3, <2>3, <3>1, <3>2 DEF Usb!SetterReports
  <2>4. CASE Usb!ServiceDies
    BY <1>1, <2>4 DEF Usb!ServiceDies
  <2> QED
    BY <2>1, <2>2, <2>3, <2>4
<1> QED
  BY <1>5, <1>6, <1>7 DEF UsbInv

\* A step of the thread that changes neither the map nor the events.
LEMMA ThreadStep ==
  ASSUME UsbInv, UNCHANGED <<dev, events, usbStatusMap, usbCallbacks, setter, usbView, gap, raced>>,
         UsbTypes', Scanned', KnownOrWorkedOn'
  PROVE  UsbInv'
BY DEF UsbInv, LastIsTrue, ViewFollows

LEMMA OpenDirStep == ASSUME UsbInv, Usb!OpenDir PROVE UsbInv'
<1>1. /\ UNCHANGED <<dev, events, usbStatusMap, usbCallbacks, setter, usbView, gap, raced, unopened>>
      /\ thread.pc = "open"
      /\ thread' = [pc |-> "scan", left |-> dev \ Internal]
  BY DEF Usb!OpenDir, Usb!historyVars
<1>2. thread = [pc |-> "open"]
  BY <1>1, ThreadIs, Shapes DEF UsbInv, Works
<1>3. UsbTypes'
  BY <1>1 DEF UsbInv, UsbTypes, Usb!External
<1>4. ~Watching(thread) /\ Left(thread) = {} /\ \A n : ~On(thread, n)
  BY <1>2, Shapes
<1>5. /\ ~Watching(thread') /\ Left(thread') = dev \ Internal /\ \A n : ~On(thread', n)
  BY <1>1, Shapes
<1>6. Scanned'
  BY <1>1, <1>4, <1>5 DEF UsbInv, UsbTypes, Scanned, Usb!Watched, Watching, Usb!External
<1>7. KnownOrWorkedOn'
  BY <1>5 DEF KnownOrWorkedOn, Usb!Watched, Watching
<1> QED
  BY <1>1, <1>3, <1>6, <1>7, ThreadStep

LEMMA ScanNextStep == ASSUME UsbInv, Usb!ScanNext PROVE UsbInv'
<1>1. /\ UNCHANGED <<dev, events, usbStatusMap, usbCallbacks, setter, usbView, gap, raced, unopened>>
      /\ thread.pc = "scan"
      /\ IF thread.left = {} THEN thread' = [pc |-> "watch"]
         ELSE \E n \in thread.left :
                thread' = [pc |-> "probe", node |-> n, scanning |-> thread.left \ {n}]
  BY DEF Usb!ScanNext, Usb!historyVars
<1>2. PICK L \in SUBSET Usb!External : thread = [pc |-> "scan", left |-> L]
  BY <1>1, ThreadIs, Shapes DEF UsbInv, Works
<1>3. ~Watching(thread) /\ Left(thread) = L /\ \A n : ~On(thread, n)
  BY <1>2, Shapes
<1>4. CASE L = {}
  <2>1. thread' = [pc |-> "watch"]
    BY <1>1, <1>2, <1>4
  <2>2. UsbTypes'
    BY <1>1, <2>1 DEF UsbInv, UsbTypes, Idling
  <2>3. ~Watching(thread') /\ Left(thread') = {} /\ \A n : ~On(thread', n)
    BY <2>1, Shapes
  <2>4. Scanned'
    BY <1>1, <1>3, <1>4, <2>3 DEF UsbInv, Scanned, Usb!Watched, Watching
  <2>5. KnownOrWorkedOn'
    BY <2>3 DEF KnownOrWorkedOn, Usb!Watched, Watching
  <2> QED
    BY <1>1, <2>2, <2>4, <2>5, ThreadStep
<1>5. CASE L # {}
  <2>1. PICK m \in L : thread' = [pc |-> "probe", node |-> m, scanning |-> L \ {m}]
    BY <1>1, <1>2, <1>5
  <2>2. UsbTypes'
    BY <1>1, <2>1 DEF UsbInv, UsbTypes
  <2>3. /\ ~Watching(thread') /\ Left(thread') = L \ {m}
        /\ \A n : On(thread', n) <=> n = m
    BY <2>1, Shapes DEF Works
  <2>4. Scanned'
    BY <1>1, <1>3, <2>3 DEF UsbInv, Scanned, Usb!Watched, Watching
  <2>5. KnownOrWorkedOn'
    BY <2>3 DEF KnownOrWorkedOn, Usb!Watched, Watching
  <2> QED
    BY <1>1, <2>2, <2>4, <2>5, ThreadStep
<1> QED
  BY <1>4, <1>5

LEMMA WatchStep == ASSUME UsbInv, Usb!Watch PROVE UsbInv'
<1>1. /\ UNCHANGED <<dev, events, usbStatusMap, usbCallbacks, setter, usbView, gap, raced, unopened>>
      /\ thread.pc = "watch"
      /\ thread' \in {Usb!Waiting, [pc |-> "open"]}
  BY DEF Usb!Watch, Usb!historyVars
<1>2. thread = [pc |-> "watch"]
  BY <1>1, ThreadIs, Shapes DEF UsbInv, Works
<1>3. ~Watching(thread) /\ Left(thread) = {} /\ \A n : ~On(thread, n)
  BY <1>2, Shapes
<1>4. UsbTypes'
  BY <1>1 DEF UsbInv, UsbTypes, Idling
<1>5. /\ Left(thread') = {} /\ \A n : ~On(thread', n)
      /\ Watching(thread') \/ thread'.pc = "open"
  BY <1>1, Shapes
<1>6. Scanned'
  BY <1>1, <1>3, <1>5 DEF UsbInv, Scanned, Usb!Watched, Watching
<1>7. KnownOrWorkedOn'
  BY <1>1, <1>2, <1>3, <1>5 DEF UsbInv, Scanned, KnownOrWorkedOn, Usb!Watched, Watching
<1> QED
  BY <1>1, <1>4, <1>6, <1>7, ThreadStep

\* Taking the first event leaves the others as they are.
LEMMA TailShift ==
  ASSUME NEW T, NEW s \in Seq(T), s # <<>>
  PROVE  /\ Tail(s) \in Seq(T) /\ Len(s) \in Nat \ {0} /\ 1 \in DOMAIN s
         /\ DOMAIN s = 1..Len(s) /\ DOMAIN Tail(s) = 1..Len(s) - 1
         /\ \A i \in DOMAIN Tail(s) : i + 1 \in DOMAIN s /\ Tail(s)[i] = s[i + 1]
<1>1. Len(s) \in Nat \ {0} /\ DOMAIN s = 1..Len(s)
  BY EmptySeq, LenProperties
<1>2. Tail(s) \in Seq(T) /\ Len(Tail(s)) = Len(s) - 1
      /\ \A i \in 1..Len(Tail(s)) : Tail(s)[i] = s[i + 1]
  BY HeadTailProperties
<1>3. DOMAIN Tail(s) = 1..Len(s) - 1
  BY <1>2, LenProperties
<1> QED
  BY <1>1, <1>2, <1>3

LEMMA ReadEventStep == ASSUME UsbInv, Usb!ReadEvent PROVE UsbInv'
<1> DEFINE E == {"create", "delete"} \X Nodes
<1>0. PICK n : n = events[1][2]
  OBVIOUS
<1>1. /\ UNCHANGED <<dev, usbStatusMap, usbCallbacks, setter, usbView, gap, raced, unopened>>
      /\ thread.pc = "read" /\ events # <<>> /\ events' = Tail(events)
      /\ thread' = IF n \in Internal THEN thread
                   ELSE [pc |-> IF events[1][1] = "create" THEN "probe" ELSE "remove", node |-> n]
  BY <1>0 DEF Usb!ReadEvent, Usb!historyVars
<1>2. thread = Usb!Waiting
  BY <1>1, ThreadIs, Shapes DEF UsbInv, Works
<1>3. Watching(thread) /\ \A m : ~On(thread, m)
  BY <1>2, Shapes
<1>4. events \in Seq(E)
  BY DEF UsbInv, UsbTypes
<1>5. /\ events' \in Seq(E) /\ Len(events) \in Nat \ {0} /\ 1 \in DOMAIN events
      /\ DOMAIN events = 1..Len(events) /\ DOMAIN events' = 1..Len(events) - 1
      /\ \A i \in DOMAIN events' : i + 1 \in DOMAIN events /\ events'[i] = events[i + 1]
  <2> HIDE DEF E
  <2> QED
    BY <1>1, <1>4, TailShift
<1>6. events[1] \in E
  BY <1>4, <1>5, ElementOfSeq
<1>7. n \in Nodes /\ (n \notin Internal => n \in Usb!External)
  BY <1>0, <1>6 DEF Usb!External
<1>8. ASSUME NEW k \in 1..Len(events) PROVE k = 1 \/ (k - 1 \in DOMAIN events' /\ events'[k - 1] = events[k])
  <2>1. CASE k # 1
    <3>1. k - 1 \in DOMAIN events' /\ (k - 1) + 1 = k
      BY <1>5, <2>1
    <3>2. events'[k - 1] = events[(k - 1) + 1]
      BY <1>5, <3>1
    <3> QED
      BY <3>1, <3>2
  <2> QED
    BY <2>1
<1>9. LastIsTrue'
  <2> SUFFICES ASSUME NEW i \in DOMAIN events',
                      \A j \in DOMAIN events' : j > i => events'[j][2] # events'[i][2]
               PROVE  events'[i][1] = "create" <=> events'[i][2] \in dev'
    BY DEF LastIsTrue
  <2>1. i + 1 \in DOMAIN events /\ events'[i] = events[i + 1] /\ i \in Nat
    BY <1>5
  <2>2. ASSUME NEW j \in DOMAIN events, j > i + 1 PROVE events[j][2] # events[i + 1][2]
    <3>1. j \in Nat /\ j # 1 /\ j - 1 > i
      BY <1>5, <2>1, <2>2
    <3>2. j - 1 \in DOMAIN events' /\ events'[j - 1] = events[j]
      BY <1>5, <1>8, <3>1
    <3> QED
      BY <2>1, <3>1, <3>2
  <2> QED
    BY <1>1, <2>1, <2>2 DEF UsbInv, LastIsTrue
<1>10. ASSUME NEW m, ~Announced(m)' PROVE ~Announced(m) \/ m = n
  BY <1>0, <1>5, <1>8, <1>10 DEF Announced
<1>11. ASSUME ~Announced(n)' PROVE events[1][1] = "create" <=> n \in dev
  <2>1. ASSUME NEW j \in DOMAIN events, j > 1 PROVE events[j][2] # n
    <3>1. j \in Nat /\ j # 1
      BY <1>5, <2>1
    <3>2. j - 1 \in DOMAIN events' /\ events'[j - 1] = events[j]
      BY <1>5, <1>8, <3>1
    <3> QED
      BY <1>11, <3>2 DEF Announced
  <2> QED
    BY <1>0, <1>5, <2>1 DEF UsbInv, LastIsTrue
<1>12. CASE n \in Internal
  <2>1. thread' = thread
    BY <1>1, <1>12
  <2>2. UsbTypes'
    BY <1>1, <1>5, <2>1 DEF UsbInv, UsbTypes, Idling
  <2>3. Scanned'
    BY <1>3, <2>1 DEF Scanned, Usb!Watched, Watching
  <2>4. KnownOrWorkedOn'
    BY <1>1, <1>3, <1>10, <1>12, <2>1 DEF UsbInv, KnownOrWorkedOn, Usb!Watched, Watching, Usb!External
  <2> QED
    BY <1>1, <1>9, <2>2, <2>3, <2>4 DEF UsbInv, ViewFollows
<1>13. CASE n \notin Internal
  <2>1. PICK p \in {"probe", "remove"} :
          thread' = [pc |-> p, node |-> n] /\ (p = "probe" <=> events[1][1] = "create")
    BY <1>1, <1>13
  <2>2. /\ Watching(thread') /\ thread'.pc = p /\ \A m : On(thread', m) <=> m = n
    BY <2>1, Shapes DEF Works
  <2>3. UsbTypes'
    <3>1. thread' \in [pc : {"probe", "add", "remove"}, node : Usb!External]
      BY <1>7, <1>13, <2>1
    <3> QED
      BY <1>1, <1>5, <3>1 DEF UsbInv, UsbTypes
  <2>4. Scanned'
    BY <2>2 DEF Scanned, Usb!Watched, Watching
  <2>5. KnownOrWorkedOn'
    <3> SUFFICES ASSUME NEW m \in Usb!External \ gap, ~Announced(m)'
                 PROVE  /\ On(thread', m) => (m \in dev <=> thread'.pc # "remove")
                        /\ ~On(thread', m) /\ m \notin unopened => (m \in usbStatusMap <=> m \in dev)
      BY <1>1 DEF KnownOrWorkedOn
    <3>1. CASE m = n
      BY <1>11, <2>1, <2>2, <3>1
    <3>2. CASE m # n
      <4>1. ~Announced(m) /\ ~On(thread, m) /\ ~On(thread', m)
        BY <1>3, <1>10, <2>2, <3>2
      <4> QED
        BY <1>3, <4>1 DEF UsbInv, KnownOrWorkedOn, Usb!Watched, Watching
    <3> QED
      BY <3>1, <3>2
  <2> QED
    BY <1>1, <1>9, <2>3, <2>4, <2>5 DEF UsbInv, ViewFollows
<1> QED
  BY <1>12, <1>13

LEMMA DeviceAddedStep == ASSUME UsbInv, Usb!DeviceAdded PROVE UsbInv'
<1> DEFINE m == thread.node
<1>1. /\ UNCHANGED <<dev, events, usbStatusMap, usbCallbacks, setter, usbView, gap, raced>>
      /\ thread.pc = "probe"
      /\ \/ m \in dev /\ thread' = [thread EXCEPT !.pc = "add"] /\ unopened' = unopened
         \/ thread' = Usb!Resume /\ unopened' = unopened \cup ({m} \cap dev)
  BY DEF Usb!DeviceAdded
<1>2. \/ thread = [pc |-> "probe", node |-> m] /\ m \in Usb!External
      \/ \E S \in SUBSET Usb!External :
           thread = [pc |-> "probe", node |-> m, scanning |-> S] /\ m \in Usb!External
  BY <1>1, ThreadIs, Shapes DEF UsbInv, Works
<1>3. CASE thread = [pc |-> "probe", node |-> m] /\ m \in Usb!External
  <2>1. Watching(thread) /\ thread.pc = "probe" /\ \A n : On(thread, n) <=> n = m
    <3> HIDE DEF m
    <3> QED
      BY <1>3, Shapes DEF Works
  <2>2. CASE m \in dev /\ thread' = [pc |-> "add", node |-> m] /\ unopened' = unopened
    <3>1. Watching(thread') /\ thread'.pc = "add" /\ \A n : On(thread', n) <=> n = m
      <4> HIDE DEF m
      <4> QED
        BY <2>2, Shapes DEF Works
    <3>2. UsbTypes'
      BY <1>1, <1>3, <2>2 DEF UsbInv, UsbTypes
    <3>3. Scanned'
      BY <3>1 DEF Scanned, Usb!Watched, Watching
    <3>4. KnownOrWorkedOn'
      BY <1>1, <2>1, <2>2, <3>1 DEF UsbInv, KnownOrWorkedOn, Usb!Watched, Watching, Announced
    <3> QED
      BY <1>1, <3>2, <3>3, <3>4, ThreadStep
  <2>3. CASE thread' = Usb!Waiting /\ unopened' = unopened \cup ({m} \cap dev)
    <3>1. Watching(thread') /\ thread'.pc = "read" /\ \A n : ~On(thread', n)
      BY <2>3, Shapes
    <3>2. UsbTypes'
      BY <1>1, <2>3 DEF UsbInv, UsbTypes, Idling
    <3>3. Scanned'
      BY <3>1 DEF Scanned, Usb!Watched, Watching
    <3>4. KnownOrWorkedOn'
      BY <1>1, <2>1, <2>3, <3>1 DEF UsbInv, KnownOrWorkedOn, Usb!Watched, Watching, Announced
    <3> QED
      BY <1>1, <3>2, <3>3, <3>4, ThreadStep
  <2>4. Usb!Resume = Usb!Waiting /\ [thread EXCEPT !.pc = "add"] = [pc |-> "add", node |-> m]
    BY <1>3 DEF Usb!Resume
  <2> QED
    BY <1>1, <2>2, <2>3, <2>4
<1>4. ASSUME NEW S \in SUBSET Usb!External,
             thread = [pc |-> "probe", node |-> m, scanning |-> S] /\ m \in Usb!External
      PROVE  UsbInv'
  <2>1. ~Watching(thread) /\ thread.pc = "probe" /\ Left(thread) = S /\ \A n : On(thread, n) <=> n = m
    <3> HIDE DEF m
    <3> QED
      BY <1>4, Shapes DEF Works
  <2>2. CASE m \in dev /\ thread' = [pc |-> "add", node |-> m, scanning |-> S] /\ unopened' = unopened
    <3>1. ~Watching(thread') /\ thread'.pc = "add" /\ Left(thread') = S /\ \A n : On(thread', n) <=> n = m
      <4> HIDE DEF m
      <4> QED
        BY <2>2, Shapes DEF Works
    <3>2. UsbTypes'
      BY <1>1, <1>4, <2>2 DEF UsbInv, UsbTypes
    <3>3. Scanned'
      BY <1>1, <2>1, <2>2, <3>1 DEF UsbInv, Scanned, Usb!Watched, Watching
    <3>4. KnownOrWorkedOn'
      BY <3>1 DEF KnownOrWorkedOn, Usb!Watched, Watching
    <3> QED
      BY <1>1, <3>2, <3>3, <3>4, ThreadStep
  <2>3. CASE thread' = [pc |-> "scan", left |-> S] /\ unopened' = unopened \cup ({m} \cap dev)
    <3>1. ~Watching(thread') /\ thread'.pc = "scan" /\ Left(thread') = S /\ \A n : ~On(thread', n)
      BY <2>3, Shapes
    <3>2. UsbTypes'
      BY <1>1, <2>3 DEF UsbInv, UsbTypes
    <3>3. Scanned'
      BY <1>1, <2>1, <2>3, <3>1 DEF UsbInv, Scanned, Usb!Watched, Watching
    <3>4. KnownOrWorkedOn'
      BY <3>1 DEF KnownOrWorkedOn, Usb!Watched, Watching
    <3> QED
      BY <1>1, <3>2, <3>3, <3>4, ThreadStep
  <2>4. /\ Usb!Resume = [pc |-> "scan", left |-> S]
        /\ [thread EXCEPT !.pc = "add"] = [pc |-> "add", node |-> m, scanning |-> S]
    BY <1>4 DEF Usb!Resume
  <2> QED
    BY <1>1, <2>2, <2>3, <2>4
<1> QED
  BY <1>2, <1>3, <1>4

LEMMA AddExternalCameraStep == ASSUME UsbInv, Usb!AddExternalCamera PROVE UsbInv'
<1> DEFINE m == thread.node
<1>1. /\ UNCHANGED <<dev, events, usbCallbacks, setter, gap, unopened>>
      /\ thread.pc = "add" /\ usbStatusMap' = usbStatusMap \cup {m}
      /\ usbView' = (IF usbCallbacks THEN usbView \cup {m} ELSE usbView)
      /\ raced' = raced \ {m} /\ thread' = Usb!Resume
  BY DEF Usb!AddExternalCamera
<1>2. \/ thread = [pc |-> "add", node |-> m] /\ m \in Usb!External
      \/ \E S \in SUBSET Usb!External :
           thread = [pc |-> "add", node |-> m, scanning |-> S] /\ m \in Usb!External
  BY <1>1, ThreadIs, Shapes DEF UsbInv, Works
<1>3. LastIsTrue'
  BY <1>1 DEF UsbInv, LastIsTrue
<1>4. ViewFollows'
  BY <1>1 DEF UsbInv, ViewFollows
<1>5. ASSUME m \in Usb!External, Idling(thread') \/ thread' \in [pc : {"scan"}, left : SUBSET Usb!External]
      PROVE  UsbTypes'
  BY <1>1, <1>5 DEF UsbInv, UsbTypes, Idling
<1>6. CASE thread = [pc |-> "add", node |-> m] /\ m \in Usb!External
  <2>1. Watching(thread) /\ thread.pc = "add" /\ \A n : On(thread, n) <=> n = m
    <3> HIDE DEF m
    <3> QED
      BY <1>6, Shapes DEF Works
  <2>2. thread' = Usb!Waiting
    BY <1>1, <1>6 DEF Usb!Resume
  <2>3. Watching(thread') /\ thread'.pc = "read" /\ \A n : ~On(thread', n)
    BY <2>2, Shapes
  <2>4. UsbTypes'
    BY <1>5, <1>6, <2>2 DEF Idling
  <2>5. Scanned'
    BY <2>3 DEF Scanned, Usb!Watched, Watching
  <2>6. KnownOrWorkedOn'
    BY <1>1, <2>1, <2>3 DEF UsbInv, KnownOrWorkedOn, Usb!Watched, Watching, Announced
  <2> QED
    BY <1>3, <1>4, <2>4, <2>5, <2>6 DEF UsbInv
<1>7. ASSUME NEW S \in SUBSET Usb!External,
             thread = [pc |-> "add", node |-> m, scanning |-> S] /\ m \in Usb!External
      PROVE  UsbInv'
  <2>1. ~Watching(thread) /\ thread.pc = "add" /\ Left(thread) = S /\ \A n : On(thread, n) <=> n = m
    <3> HIDE DEF m
    <3> QED
      BY <1>7, Shapes DEF Works
  <2>2. thread' = [pc |-> "scan", left |-> S]
    BY <1>1, <1>7 DEF Usb!Resume
  <2>3. ~Watching(thread') /\ thread'.pc = "scan" /\ Left(thread') = S /\ \A n : ~On(thread', n)
    BY <2>2, Shapes
  <2>4. UsbTypes'
    BY <1>5, <1>7, <2>2 DEF Idling
  <2>5. Scanned'
    BY <1>1, <2>1, <2>3 DEF UsbInv, Scanned, Usb!Watched, Watching
  <2>6. KnownOrWorkedOn'
    BY <2>3 DEF KnownOrWorkedOn, Usb!Watched, Watching
  <2> QED
    BY <1>3, <1>4, <2>4, <2>5, <2>6 DEF UsbInv
<1> QED
  BY <1>2, <1>6, <1>7

LEMMA DeviceRemovedStep == ASSUME UsbInv, Usb!DeviceRemoved PROVE UsbInv'
<1> DEFINE m == thread.node
<1>1. /\ UNCHANGED <<dev, events, usbCallbacks, setter, gap, unopened>>
      /\ thread.pc = "remove" /\ usbStatusMap' = usbStatusMap \ {m}
      /\ usbView' = (IF m \in usbStatusMap /\ usbCallbacks THEN usbView \ {m} ELSE usbView)
      /\ raced' = raced \cup (setter.held \cap {m}) /\ thread' = Usb!Waiting
  BY DEF Usb!DeviceRemoved, Usb!ToldGone
<1>2. thread = [pc |-> "remove", node |-> m] /\ m \in Usb!External
  BY <1>1, ThreadIs, Shapes DEF UsbInv, Works
<1>3. Watching(thread) /\ thread.pc = "remove" /\ \A n : On(thread, n) <=> n = m
  <2> HIDE DEF m
  <2> QED
    BY <1>2, Shapes DEF Works
<1>4. Watching(thread') /\ thread'.pc = "read" /\ \A n : ~On(thread', n)
  BY <1>1, Shapes
<1>5. UsbTypes'
  BY <1>1 DEF UsbInv, UsbTypes, Idling
<1>6. LastIsTrue'
  BY <1>1 DEF UsbInv, LastIsTrue
<1>7. Scanned'
  BY <1>4 DEF Scanned, Usb!Watched, Watching
<1>8. KnownOrWorkedOn'
  BY <1>1, <1>3, <1>4 DEF UsbInv, KnownOrWorkedOn, Usb!Watched, Watching, Announced
<1>9. ViewFollows'
  <2>1. setter = Usb!NoSetter => setter.held = {}
    BY DEF Usb!NoSetter
  <2>2. CASE usbCallbacks
    BY <1>1, <2>2 DEF UsbInv, ViewFollows
  <2>3. CASE ~usbCallbacks
    BY <1>1, <2>1, <2>3 DEF UsbInv, ViewFollows
  <2> QED
    BY <2>2, <2>3
<1> QED
  BY <1>5, <1>6, <1>7, <1>8, <1>9 DEF UsbInv

LEMMA PlugStep == ASSUME UsbInv, Usb!Plug PROVE UsbInv'
<1> DEFINE E == {"create", "delete"} \X Nodes
<1>1. PICK n \in Nodes :
        /\ dev' = IF n \in dev THEN dev \ {n} ELSE dev \cup {n}
        /\ events' = IF Usb!Watched
                     THEN Append(events, <<IF n \in dev THEN "delete" ELSE "create", n>>) ELSE events
        /\ gap' = IF Usb!Watched THEN gap \ {n} ELSE gap \cup {n}
        /\ unopened' = unopened \ {n}
  BY DEF Usb!Plug
<1>2. UNCHANGED <<thread, usbStatusMap, usbCallbacks, setter, usbView, raced>>
  BY DEF Usb!Plug
<1>3. ViewFollows'
  BY <1>2 DEF UsbInv, ViewFollows
<1>4. events \in Seq(E) /\ dev \subseteq Nodes
  BY DEF UsbInv, UsbTypes
<1>5. CASE Usb!Watched
  <2> DEFINE e == <<IF n \in dev THEN "delete" ELSE "create", n>>
  <2>1. e \in E /\ (e[1] = "create" <=> n \in dev') /\ e[2] = n
    BY <1>1
  <2>2. /\ events' \in Seq(E) /\ Len(events) \in Nat /\ DOMAIN events = 1..Len(events)
        /\ DOMAIN events' = 1..Len(events) + 1
        /\ events'[Len(events) + 1] = e
        /\ \A i \in 1..Len(events) : events'[i] = events[i]
    <3> HIDE DEF E, e
    <3>1. events' = Append(events, e)
      BY <1>1, <1>5 DEF e
    <3>2. /\ Append(events, e) \in Seq(E) /\ Len(Append(events, e)) = Len(events) + 1
          /\ \A i \in 1..Len(events) : Append(events, e)[i] = events[i]
          /\ Append(events, e)[Len(events) + 1] = e
      BY <1>4, <2>1, AppendProperties
    <3>3. Len(events) \in Nat /\ DOMAIN events = 1..Len(events)
          /\ DOMAIN events' = 1..Len(events')
      BY <1>4, <3>1, <3>2, LenProperties
    <3> QED
      BY <3>1, <3>2, <3>3
  <2>3. UsbTypes'
    <3> HIDE DEF e
    <3>1. dev' \subseteq Nodes
      BY <1>1, <1>4
    <3> QED
      BY <1>2, <2>2, <3>1 DEF UsbInv, UsbTypes, Idling
  <2>4. LastIsTrue'
    <3> SUFFICES ASSUME NEW i \in DOMAIN events',
                        \A j \in DOMAIN events' : j > i => events'[j][2] # events'[i][2]
                 PROVE  events'[i][1] = "create" <=> events'[i][2] \in dev'
      BY DEF LastIsTrue
    <3> HIDE DEF e
    <3>1. CASE i = Len(events) + 1
      BY <2>1, <2>2, <3>1
    <3>2. CASE i # Len(events) + 1
      <4>1. i \in DOMAIN events /\ events'[i] = events[i] /\ i \in 1..Len(events)
        BY <2>2, <3>2
      <4>2. events[i][2] # n
        BY <2>1, <2>2, <4>1
      <4>3. ASSUME NEW j \in DOMAIN events, j > i PROVE events[j][2] # events[i][2]
        BY <2>2, <4>1, <4>3
      <4>4. events[i][1] = "create" <=> events[i][2] \in dev
        BY <4>1, <4>3 DEF UsbInv, LastIsTrue
      <4> QED
        BY <1>1, <4>1, <4>2, <4>4
    <3> QED
      BY <3>1, <3>2
  <2>5. Scanned'
    BY <1>2, <1>5 DEF Scanned, Usb!Watched
  <2>6. KnownOrWorkedOn'
    <3> HIDE DEF e
    <3> SUFFICES ASSUME NEW m \in Usb!External \ gap', ~Announced(m)'
                 PROVE  /\ On(thread, m) => (m \in dev' <=> thread.pc # "remove")
                        /\ ~On(thread, m) /\ m \notin unopened' => (m \in usbStatusMap <=> m \in dev')
      BY <1>2 DEF KnownOrWorkedOn
    <3>1. m # n
      BY <2>1, <2>2 DEF Announced
    <3>2. ~Announced(m)
      BY <2>2 DEF Announced
    <3>3. m \notin gap /\ (m \in dev' <=> m \in dev) /\ (m \in unopened' <=> m \in unopened)
      BY <1>1, <1>5, <3>1
    <3> QED
      BY <1>5, <3>2, <3>3 DEF UsbInv, KnownOrWorkedOn
  <2> QED
    BY <1>3, <2>3, <2>4, <2>5, <2>6 DEF UsbInv
<1>6. CASE ~Usb!Watched
  <2>1. events' = events /\ gap' = gap \cup {n} /\ events = <<>>
    BY <1>1, <1>6 DEF UsbInv, Scanned
  <2>2. UsbTypes'
    <3>1. dev' \subseteq Nodes
      BY <1>1, <1>4
    <3> QED
      BY <1>2, <2>1, <3>1 DEF UsbInv, UsbTypes, Idling
  <2>3. LastIsTrue'
    BY <2>1 DEF LastIsTrue
  <2>4. Scanned'
    BY <1>1, <1>2, <1>6, <2>1 DEF UsbInv, Scanned, Usb!Watched
  <2>5. KnownOrWorkedOn'
    BY <1>2, <1>6 DEF KnownOrWorkedOn, Usb!Watched
  <2> QED
    BY <1>3, <2>2, <2>3, <2>4, <2>5 DEF UsbInv
<1> QED
  BY <1>5, <1>6

LEMMA UsbStep == ASSUME UsbInv, [Usb!Next]_usbVars PROVE UsbInv'
<1>1. CASE Usb!Plug
  BY <1>1, PlugStep
<1>2. CASE Usb!SetCallback \/ Usb!SetterReads \/ Usb!SetterReports \/ Usb!ServiceDies
  BY <1>2, ServiceStep
<1>3. CASE Usb!OpenDir \/ Usb!ScanNext \/ Usb!Watch
  BY <1>3, OpenDirStep, ScanNextStep, WatchStep
<1>4. CASE Usb!ReadEvent \/ Usb!DeviceAdded
  BY <1>4, ReadEventStep, DeviceAddedStep
<1>5. CASE Usb!AddExternalCamera \/ Usb!DeviceRemoved
  BY <1>5, AddExternalCameraStep, DeviceRemovedStep
<1>6. CASE UNCHANGED usbVars
  BY <1>6 DEF usbVars, UsbInv, UsbTypes, Idling, LastIsTrue, Scanned, KnownOrWorkedOn, ViewFollows,
              Usb!Watched, Announced
<1> QED
  BY <1>1, <1>2, <1>3, <1>4, <1>5, <1>6 DEF Usb!Next

LEMMA UsbInvHolds == SuiteSpec => []UsbInv
<1>1. SuiteInit => UsbInv
  BY UsbInit DEF SuiteInit
<1>2. UsbInv /\ [SuiteNext]_suiteVars => UsbInv'
  <2> SUFFICES ASSUME UsbInv, [SuiteNext]_suiteVars PROVE UsbInv'
    OBVIOUS
  <2>1. Usb!Next \/ UNCHANGED usbVars
    BY DEF SuiteNext, Still, suiteVars
  <2> QED
    BY <2>1, UsbStep
<1> QED
  BY <1>1, <1>2, PTL DEF SuiteSpec

LEMMA UsbSettled == ASSUME UsbInv PROVE Usb!SettledViewExact
<1> SUFFICES ASSUME thread = Usb!Waiting, events = <<>>, setter = Usb!NoSetter
             PROVE  /\ (usbStatusMap \ gap) \ unopened = ((dev \cap Usb!External) \ gap) \ unopened
                    /\ usbCallbacks => usbView \ raced = usbStatusMap \ raced
  BY DEF Usb!SettledViewExact
<1>1. Watching(thread) /\ \A n : ~On(thread, n)
  BY Shapes
<1>2. \A n : ~Announced(n)
  BY DEF Announced
<1>3. (usbStatusMap \ gap) \ unopened = ((dev \cap Usb!External) \ gap) \ unopened
  BY <1>1, <1>2 DEF UsbInv, UsbTypes, KnownOrWorkedOn, Usb!Watched, Watching
<1>4. setter.todo = {} /\ setter.held = {}
  BY DEF Usb!NoSetter
<1>5. usbCallbacks => usbView \ raced = usbStatusMap \ raced
  BY <1>4 DEF UsbInv, ViewFollows
<1> QED
  BY <1>3, <1>5

---------------------------------------------------------------------------
(* The provider that wraps the vendor's camera module. *)

NameKinds == {"v3", "v1"}
Named(c, k) == <<c, k>> \in mCameraDeviceNames

\* A camera has its first name, and the second as open_legacy answered; or none.
NamesFit ==
  \A c \in Legacy!Cameras \ unsure :
    Named(c, "v3") \/ Named(c, "v1") =>
      /\ c \in DOMAIN mOpenLegacySupported
      /\ Named(c, "v3") /\ (Named(c, "v1") <=> mOpenLegacySupported[c])

\* A camera that is there has its first name, once a callback has been set.
PresentNamed ==
  /\ mCallbacks = "none" => \A c \in BuiltIn \ unsure : Named(c, "v3")
  /\ mCallbacks # "none" =>
       \A c \in Legacy!Cameras \ unsure : Legacy!StatusOf(c) # "NOT_PRESENT" => Named(c, "v3")

\* What the service was told last is what is the case; and it was told of every camera that
\* is there but those it has still to list.
NewsTrue ==
  mCallbacks = "alive" =>
    \A c \in Legacy!Cameras \ unsure, k \in NameKinds :
      /\ <<c, k>> \in DOMAIN view =>
           view[<<c, k>>] = IF Named(c, k) THEN Legacy!StatusOf(c) ELSE "NOT_PRESENT"
      /\ Named(c, k) /\ Legacy!StatusOf(c) = "PRESENT" /\ (c \notin BuiltIn \/ listed) =>
           <<c, k>> \in DOMAIN view

LegacyInv ==
  /\ DOMAIN mCameraStatusMap \subseteq Legacy!Cameras
  /\ mCameraDeviceNames \subseteq Legacy!Names
  /\ mCallbacks \in {"none", "alive", "dead"}
  /\ listed => mCallbacks = "alive"
  /\ NamesFit /\ PresentNamed /\ NewsTrue

LEMMA OpenedIs ==
  ASSUME NEW c, NEW d, NEW w \in BOOLEAN
  PROVE  /\ <<c, "v3">> \in Legacy!Opened(d, w) <=> c = d
         /\ <<c, "v1">> \in Legacy!Opened(d, w) <=> c = d /\ w
<1>1. <<c, "v3">> \in Legacy!Opened(d, w) <=> c = d
  BY DEF Legacy!Opened
<1>2. <<c, "v1">> \in Legacy!Opened(d, w) <=> c = d /\ w
  <2>1. CASE w
    BY <2>1 DEF Legacy!Opened
  <2>2. CASE ~w
    BY <2>2 DEF Legacy!Opened
  <2> QED
    BY <2>1, <2>2
<1> QED
  BY <1>1, <1>2

LEMMA OpenedNames ==
  ASSUME NEW d \in Legacy!Cameras, NEW w \in BOOLEAN
  PROVE  Legacy!Opened(d, w) \subseteq Legacy!Names
BY DEF Legacy!Opened, Legacy!Names

\* What adding the names of cameras makes of the names of one of them, and of another.
LEMMA NamesAdded ==
  ASSUME LegacyInv, NEW S \in SUBSET Legacy!Cameras, NEW works \in [S -> BOOLEAN],
         Legacy!AddDeviceNames(S, works)
  PROVE  /\ unsure \subseteq unsure'
         /\ \A c \in S \ unsure' : Named(c, "v3")' /\ (Named(c, "v1")' <=> works[c])
         /\ \A c : c \notin S => \A k \in NameKinds : Named(c, k)' <=> Named(c, k)
         /\ NamesFit' /\ mCameraDeviceNames' \subseteq Legacy!Names
<1>1. /\ mOpenLegacySupported' = [c \in DOMAIN mOpenLegacySupported \cup S |->
                                    IF c \in S THEN works[c] ELSE mOpenLegacySupported[c]]
      /\ mCameraDeviceNames' = mCameraDeviceNames \cup UNION {Legacy!Opened(c, works[c]) : c \in S}
      /\ unsure' = unsure \cup {c \in S : <<c, "v1">> \in mCameraDeviceNames /\ ~works[c]}
  BY DEF Legacy!AddDeviceNames
<1>2. ASSUME NEW c, NEW k
      PROVE  Named(c, k)' <=> Named(c, k) \/ \E d \in S : <<c, k>> \in Legacy!Opened(d, works[d])
  BY <1>1 DEF Named
<1>3. ASSUME NEW c
      PROVE  /\ Named(c, "v3")' <=> Named(c, "v3") \/ c \in S
             /\ Named(c, "v1")' <=> Named(c, "v1") \/ (c \in S /\ works[c])
  <2>1. \A d \in S : works[d] \in BOOLEAN
    OBVIOUS
  <2>2. \A d \in S : /\ <<c, "v3">> \in Legacy!Opened(d, works[d]) <=> c = d
                     /\ <<c, "v1">> \in Legacy!Opened(d, works[d]) <=> c = d /\ works[d]
    BY <2>1, OpenedIs
  <2>3. Named(c, "v3")' <=> Named(c, "v3") \/ c \in S
    BY <1>2, <2>2
  <2>4. Named(c, "v1")' <=> Named(c, "v1") \/ (c \in S /\ works[c])
    BY <1>2, <2>2
  <2> QED
    BY <2>3, <2>4
<1>4. \A c \in S \ unsure' : <<c, "v1">> \in mCameraDeviceNames => works[c]
  BY <1>1
<1>5. \A c \in S \ unsure' : Named(c, "v3")' /\ (Named(c, "v1")' <=> works[c])
  BY <1>3, <1>4 DEF Named
<1>6. \A c : c \notin S => \A k \in NameKinds : Named(c, k)' <=> Named(c, k)
  BY <1>3 DEF NameKinds
<1>7. unsure \subseteq unsure'
  BY <1>1
<1>8. NamesFit'
  <2> SUFFICES ASSUME NEW c \in Legacy!Cameras \ unsure', Named(c, "v3")' \/ Named(c, "v1")'
               PROVE  /\ c \in DOMAIN mOpenLegacySupported' /\ Named(c, "v3")'
                      /\ Named(c, "v1")' <=> mOpenLegacySupported'[c]
    BY DEF NamesFit
  <2>1. CASE c \in S
    BY <1>1, <1>5, <2>1
  <2>2. CASE c \notin S
    <3>1. /\ Named(c, "v3")' <=> Named(c, "v3")
          /\ Named(c, "v1")' <=> Named(c, "v1")
      BY <1>3, <2>2
    <3>2. c \in DOMAIN mOpenLegacySupported /\ Named(c, "v3")
          /\ (Named(c, "v1") <=> mOpenLegacySupported[c])
      BY <1>7, <3>1 DEF LegacyInv, NamesFit
    <3>3. mOpenLegacySupported'[c] = mOpenLegacySupported[c] /\ c \in DOMAIN mOpenLegacySupported'
      BY <1>1, <2>2, <3>2
    <3> QED
      BY <3>1, <3>2, <3>3
  <2> QED
    BY <2>1, <2>2
<1>9. mCameraDeviceNames' \subseteq Legacy!Names
  <2>1. \A c \in S : Legacy!Opened(c, works[c]) \subseteq Legacy!Names
    <3>1. \A c \in S : c \in Legacy!Cameras /\ works[c] \in BOOLEAN
      OBVIOUS
    <3> QED
      BY <3>1, OpenedNames
  <2> QED
    BY <1>1, <2>1 DEF LegacyInv
<1> QED
  BY <1>5, <1>6, <1>7, <1>8, <1>9

LEMMA LegacyInit == ASSUME Legacy!Init PROVE LegacyInv
<1>1. PICK works \in [BuiltIn -> BOOLEAN] :
        /\ mCameraStatusMap = [c \in BuiltIn |-> "PRESENT"] /\ mOpenLegacySupported = works
        /\ mCameraDeviceNames = UNION {Legacy!Opened(c, works[c]) : c \in BuiltIn}
        /\ mCallbacks = "none" /\ listed = FALSE
  BY DEF Legacy!Init
<1>2. \A c \in BuiltIn : works[c] \in BOOLEAN
  OBVIOUS
<1>3. \A c : /\ Named(c, "v3") <=> c \in BuiltIn
             /\ Named(c, "v1") <=> c \in BuiltIn /\ works[c]
  <2> SUFFICES ASSUME NEW c
               PROVE  /\ Named(c, "v3") <=> c \in BuiltIn
                      /\ Named(c, "v1") <=> c \in BuiltIn /\ works[c]
    OBVIOUS
  <2>1. \A k : Named(c, k) <=> \E d \in BuiltIn : <<c, k>> \in Legacy!Opened(d, works[d])
    BY <1>1 DEF Named
  <2>2. \A d \in BuiltIn : /\ <<c, "v3">> \in Legacy!Opened(d, works[d]) <=> c = d
                           /\ <<c, "v1">> \in Legacy!Opened(d, works[d]) <=> c = d /\ works[d]
    BY <1>2, OpenedIs
  <2> QED
    BY <2>1, <2>2
<1>4. NamesFit
  BY <1>1, <1>3 DEF NamesFit
<1>5. PresentNamed /\ NewsTrue
  BY <1>1, <1>3 DEF PresentNamed, NewsTrue
<1>6. DOMAIN mCameraStatusMap \subseteq Legacy!Cameras
  BY <1>1 DEF Legacy!Cameras
<1>7. mCameraDeviceNames \subseteq Legacy!Names
  <2>1. \A c \in BuiltIn : Legacy!Opened(c, works[c]) \subseteq Legacy!Names
    BY <1>2, OpenedNames DEF Legacy!Cameras
  <2> QED
    BY <1>1, <2>1
<1> QED
  BY <1>1, <1>4, <1>5, <1>6, <1>7 DEF LegacyInv

LEMMA SetCallbackStep == ASSUME LegacyInv, Legacy!SetCallback PROVE LegacyInv'
<1> DEFINE S == {c \in DOMAIN mCameraStatusMap \ BuiltIn : mCameraStatusMap[c] # "NOT_PRESENT"}
<1>1. /\ mCallbacks # "alive" /\ mCallbacks' = "alive"
      /\ UNCHANGED <<mCameraStatusMap, listed>>
  BY DEF Legacy!SetCallback
<1>2. PICK works \in [S -> BOOLEAN] :
        /\ Legacy!AddDeviceNames(S, works)
        /\ view' = [n \in UNION {Legacy!Opened(c, works[c]) : c \in S} |-> mCameraStatusMap[n[1]]]
  BY DEF Legacy!SetCallback
<1>3. S \in SUBSET Legacy!Cameras
  BY DEF LegacyInv
<1>4. /\ unsure \subseteq unsure'
      /\ \A c \in S \ unsure' : Named(c, "v3")' /\ (Named(c, "v1")' <=> works[c])
      /\ \A c : c \notin S => \A k \in NameKinds : Named(c, k)' <=> Named(c, k)
      /\ NamesFit' /\ mCameraDeviceNames' \subseteq Legacy!Names
  <2> HIDE DEF S
  <2> QED
    BY <1>2, <1>3, NamesAdded
<1>5. ~listed
  BY <1>1 DEF LegacyInv
<1>6. \A c : Legacy!StatusOf(c)' = Legacy!StatusOf(c)
  BY <1>1 DEF Legacy!StatusOf
<1>7. \A c : c \in S <=> c \notin BuiltIn /\ Legacy!StatusOf(c) # "NOT_PRESENT"
  BY DEF Legacy!StatusOf
<1>8. \A c \in S : mCameraStatusMap[c] = Legacy!StatusOf(c) /\ works[c] \in BOOLEAN
  BY DEF Legacy!StatusOf
<1>9. PresentNamed'
  <2> SUFFICES ASSUME NEW c \in Legacy!Cameras \ unsure', Legacy!StatusOf(c)' # "NOT_PRESENT"
               PROVE  Named(c, "v3")'
    BY <1>1 DEF PresentNamed
  <2> HIDE DEF S
  <2>1. CASE c \in S
    BY <1>4, <2>1
  <2>2. CASE c \notin S
    <3>1. c \in BuiltIn /\ c \notin unsure
      BY <1>4, <1>6, <1>7, <2>2
    <3>2. Named(c, "v3")
      BY <1>1, <1>6, <3>1 DEF LegacyInv, PresentNamed
    <3> QED
      BY <1>4, <2>2, <3>2 DEF NameKinds
  <2> QED
    BY <2>1, <2>2
<1>10. \A c, k : <<c, k>> \in DOMAIN view' <=> \E d \in S : <<c, k>> \in Legacy!Opened(d, works[d])
  BY <1>2
<1>11. \A c : /\ <<c, "v3">> \in DOMAIN view' <=> c \in S
              /\ <<c, "v1">> \in DOMAIN view' <=> c \in S /\ works[c]
  <2> HIDE DEF S
  <2> SUFFICES ASSUME NEW c
               PROVE  /\ <<c, "v3">> \in DOMAIN view' <=> c \in S
                      /\ <<c, "v1">> \in DOMAIN view' <=> c \in S /\ works[c]
    OBVIOUS
  <2>1. \A d \in S : /\ <<c, "v3">> \in Legacy!Opened(d, works[d]) <=> c = d
                     /\ <<c, "v1">> \in Legacy!Opened(d, works[d]) <=> c = d /\ works[d]
    BY <1>8, OpenedIs
  <2> QED
    BY <1>10, <2>1
<1>12. \A c, k : <<c, k>> \in DOMAIN view' => view'[<<c, k>>] = mCameraStatusMap[c]
  BY <1>2
<1>13. NewsTrue'
  <2> HIDE DEF S
  <2> SUFFICES ASSUME NEW c \in Legacy!Cameras \ unsure', NEW k \in NameKinds
               PROVE  /\ <<c, k>> \in DOMAIN view' =>
                           view'[<<c, k>>] = IF Named(c, k)' THEN Legacy!StatusOf(c)' ELSE "NOT_PRESENT"
                      /\ Named(c, k)' /\ Legacy!StatusOf(c)' = "PRESENT" /\ (c \notin BuiltIn \/ listed')
                           => <<c, k>> \in DOMAIN view'
    BY DEF NewsTrue
  <2>1. CASE c \in S
    BY <1>4, <1>6, <1>8, <1>11, <1>12, <2>1 DEF NameKinds
  <2>2. CASE c \notin S
    BY <1>1, <1>5, <1>6, <1>7, <1>11, <2>2 DEF NameKinds
  <2> QED
    BY <2>1, <2>2
<1> QED
  BY <1>1, <1>4, <1>5, <1>9, <1>13 DEF LegacyInv

LEMMA GetCameraIdListStep == ASSUME LegacyInv, Legacy!GetCameraIdList PROVE LegacyInv'
<1> DEFINE L == {n \in mCameraDeviceNames : n[1] \in BuiltIn /\ Legacy!StatusOf(n[1]) = "PRESENT"}
<1>1. /\ mCallbacks = "alive"
      /\ UNCHANGED <<mCameraStatusMap, mCameraDeviceNames, mOpenLegacySupported, mCallbacks, unsure>>
      /\ view' = [n \in DOMAIN view \cup L |-> IF n \in L THEN "PRESENT" ELSE view[n]]
  BY DEF Legacy!GetCameraIdList, Legacy!Told
<1>2. \A c, k : <<c, k>> \in L <=> Named(c, k) /\ c \in BuiltIn /\ Legacy!StatusOf(c) = "PRESENT"
  BY DEF Named
<1>3. NamesFit'
  BY <1>1 DEF LegacyInv, NamesFit, Named
<1>4. PresentNamed'
  BY <1>1 DEF LegacyInv, PresentNamed, Named, Legacy!StatusOf
<1>5. \A c : Legacy!StatusOf(c)' = Legacy!StatusOf(c)
  BY <1>1 DEF Legacy!StatusOf
<1>6. \A c, k : Named(c, k)' <=> Named(c, k)
  BY <1>1 DEF Named
<1>7. NewsTrue'
  <2> HIDE DEF L
  <2> SUFFICES ASSUME NEW c \in Legacy!Cameras \ unsure', NEW k \in NameKinds
               PROVE  /\ <<c, k>> \in DOMAIN view' =>
                           view'[<<c, k>>] = IF Named(c, k)' THEN Legacy!StatusOf(c)' ELSE "NOT_PRESENT"
                      /\ Named(c, k)' /\ Legacy!StatusOf(c)' = "PRESENT" /\ (c \notin BuiltIn \/ listed')
                           => <<c, k>> \in DOMAIN view'
    BY DEF NewsTrue
  <2>1. CASE <<c, k>> \in L
    BY <1>1, <1>2, <1>5, <1>6, <2>1
  <2>2. CASE <<c, k>> \notin L
    <3>1. /\ <<c, k>> \in DOMAIN view' <=> <<c, k>> \in DOMAIN view
          /\ <<c, k>> \in DOMAIN view => view'[<<c, k>>] = view[<<c, k>>]
      BY <1>1, <2>2
    <3> QED
      BY <1>1, <1>2, <1>5, <1>6, <2>2, <3>1 DEF LegacyInv, NewsTrue
  <2> QED
    BY <2>1, <2>2
<1> QED
  BY <1>1, <1>3, <1>4, <1>7 DEF LegacyInv

LEMMA ProviderServiceDiesStep == ASSUME LegacyInv, Legacy!ServiceDies PROVE LegacyInv'
<1>1. /\ mCallbacks = "alive" /\ mCallbacks' = "dead" /\ listed' = FALSE
      /\ UNCHANGED <<mCameraStatusMap, mCameraDeviceNames, mOpenLegacySupported, unsure>>
  BY DEF Legacy!ServiceDies
<1>2. NamesFit'
  BY <1>1 DEF LegacyInv, NamesFit, Named
<1>3. PresentNamed' /\ NewsTrue'
  BY <1>1 DEF LegacyInv, PresentNamed, NewsTrue, Named, Legacy!StatusOf
<1> QED
  BY <1>1, <1>2, <1>3 DEF LegacyInv

LEMMA StatusChangeStep ==
  ASSUME LegacyInv, NEW d \in Legacy!Cameras, NEW s \in Legacy!Statuses,
         Legacy!CameraDeviceStatusChange(d, s)
  PROVE  LegacyInv'
<1> DEFINE Tell(S) == IF mCallbacks = "alive"
                      THEN [n \in DOMAIN view \cup S |-> IF n \in S THEN s ELSE view[n]] ELSE view
           found == Legacy!NamesOf(d) # {}
<1>1. /\ mCameraStatusMap' = [c \in DOMAIN mCameraStatusMap \cup {d} |->
                                IF c = d THEN s ELSE mCameraStatusMap[c]]
      /\ UNCHANGED <<mCallbacks, listed>>
  BY DEF Legacy!CameraDeviceStatusChange
<1>2. /\ DOMAIN mCameraStatusMap' \subseteq Legacy!Cameras
      /\ mCallbacks' \in {"none", "alive", "dead"} /\ (listed' => mCallbacks' = "alive")
  BY <1>1 DEF LegacyInv
<1>3. /\ Legacy!StatusOf(d)' = s
      /\ \A c : c # d => Legacy!StatusOf(c)' = Legacy!StatusOf(c)
  BY <1>1 DEF Legacy!StatusOf
<1>4. \A n \in Legacy!NamesOf(d) : n[1] = d /\ n \in mCameraDeviceNames
  BY DEF Legacy!NamesOf
<1>5. \A c, k : <<c, k>> \in Legacy!NamesOf(d) <=> c = d /\ Named(c, k)
  BY DEF Legacy!NamesOf, Named
<1>6. CASE mCallbacks = "none"
  <2>1. UNCHANGED <<mCameraDeviceNames, mOpenLegacySupported, unsure, view>>
    BY <1>6 DEF Legacy!CameraDeviceStatusChange
  <2>2. NamesFit'
    BY <2>1 DEF LegacyInv, NamesFit, Named
  <2>3. PresentNamed' /\ NewsTrue'
    BY <1>1, <1>6, <2>1 DEF LegacyInv, PresentNamed, NewsTrue, Named
  <2> QED
    BY <1>2, <2>1, <2>2, <2>3 DEF LegacyInv
<1>7. CASE mCallbacks # "none" /\ s # "NOT_PRESENT" /\ ~found
  <2>1. PICK works \in [{d} -> BOOLEAN] :
          Legacy!AddDeviceNames({d}, works) /\ view' = Legacy!Told(view, Legacy!Opened(d, works[d]), s)
    BY <1>7 DEF Legacy!CameraDeviceStatusChange
  <2>2. works[d] \in BOOLEAN /\ {d} \in SUBSET Legacy!Cameras
    OBVIOUS
  <2>3. view' = Tell(Legacy!Opened(d, works[d]))
    BY <2>1 DEF Legacy!Told
  <2>4. /\ unsure \subseteq unsure'
        /\ \A c \in {d} \ unsure' : Named(c, "v3")' /\ (Named(c, "v1")' <=> works[c])
        /\ \A c : c \notin {d} => \A k \in NameKinds : Named(c, k)' <=> Named(c, k)
        /\ NamesFit' /\ mCameraDeviceNames' \subseteq Legacy!Names
    BY <2>1, <2>2, NamesAdded
  <2>5. \A c : /\ <<c, "v3">> \in Legacy!Opened(d, works[d]) <=> c = d
               /\ <<c, "v1">> \in Legacy!Opened(d, works[d]) <=> c = d /\ works[d]
    BY <2>2, OpenedIs
  <2>6. \A k : ~Named(d, k)
    BY <1>5, <1>7
  <2>7. PresentNamed'
    BY <1>1, <1>3, <1>7, <2>4 DEF LegacyInv, PresentNamed, NameKinds
  <2>8. NewsTrue'
    <3> SUFFICES ASSUME mCallbacks = "alive", NEW c \in Legacy!Cameras \ unsure', NEW k \in NameKinds
                 PROVE  /\ <<c, k>> \in DOMAIN view' =>
                             view'[<<c, k>>] = IF Named(c, k)' THEN Legacy!StatusOf(c)' ELSE "NOT_PRESENT"
                        /\ Named(c, k)' /\ Legacy!StatusOf(c)' = "PRESENT" /\ (c \notin BuiltIn \/ listed')
                             => <<c, k>> \in DOMAIN view'
      BY <1>1 DEF NewsTrue
    <3> DEFINE O == Legacy!Opened(d, works[d])
    <3>1. view' = [n \in DOMAIN view \cup O |-> IF n \in O THEN s ELSE view[n]]
      BY <2>3
    <3> HIDE DEF O
    <3>2. CASE <<c, k>> \in O
      <4>1. c = d /\ Named(c, k)'
        <5>1. c = d
          <6>1. CASE k = "v3"
            BY <2>5, <3>2, <6>1 DEF O
          <6>2. CASE k = "v1"
            <7>1. <<c, "v1">> \in Legacy!Opened(d, works[d])
              BY <3>2, <6>2 DEF O
            <7> QED
              BY <2>5, <7>1, Zenon
          <6> QED
            BY <6>1, <6>2 DEF NameKinds
        <5>2. CASE k = "v3"
          BY <2>4, <5>1, <5>2
        <5>3. CASE k = "v1"
          <6>1. works[d]
            BY <2>5, <3>2, <5>3 DEF O
          <6> QED
            BY <2>4, <5>1, <5>3, <6>1
        <5> QED
          BY <5>1, <5>2, <5>3 DEF NameKinds
      <4> QED
        BY <1>3, <3>1, <3>2, <4>1
    <3>3. CASE <<c, k>> \notin O
      <4>1. /\ <<c, k>> \in DOMAIN view' <=> <<c, k>> \in DOMAIN view
            /\ <<c, k>> \in DOMAIN view => view'[<<c, k>>] = view[<<c, k>>]
        BY <3>1, <3>3
      <4>2. c = d => ~Named(c, k)' /\ ~Named(c, k)
        BY <2>4, <2>5, <2>6, <3>3 DEF NameKinds, O
      <4>3. c # d => (Named(c, k)' <=> Named(c, k)) /\ Legacy!StatusOf(c)' = Legacy!StatusOf(c)
        BY <1>3, <2>4
      <4>4. /\ <<c, k>> \in DOMAIN view =>
                  view[<<c, k>>] = IF Named(c, k) THEN Legacy!StatusOf(c) ELSE "NOT_PRESENT"
            /\ Named(c, k) /\ Legacy!StatusOf(c) = "PRESENT" /\ (c \notin BuiltIn \/ listed) =>
                  <<c, k>> \in DOMAIN view
        BY <2>4 DEF LegacyInv, NewsTrue
      <4> QED
        BY <1>1, <4>1, <4>2, <4>3, <4>4
    <3> QED
      BY <3>2, <3>3
  <2> QED
    BY <1>2, <2>4, <2>7, <2>8 DEF LegacyInv
<1>8. CASE mCallbacks # "none" /\ s = "NOT_PRESENT" /\ found
  <2>1. /\ mCameraDeviceNames' = mCameraDeviceNames \ Legacy!NamesRemoved(d)
        /\ view' = Legacy!Told(view, Legacy!NamesOf(d) \cup Legacy!NamesRemoved(d), s)
        /\ UNCHANGED <<mOpenLegacySupported, unsure>>
    BY <1>8 DEF Legacy!CameraDeviceStatusChange
  <2> DEFINE R == Legacy!NamesOf(d) \cup Legacy!NamesRemoved(d)
  <2>2. view' = Tell(R)
    BY <2>1 DEF Legacy!Told
  <2>3. \A n \in Legacy!NamesRemoved(d) : n[1] = d
    BY DEF Legacy!NamesRemoved, Legacy!SecondName
  <2>4. \A c, k : c # d => <<c, k>> \notin R /\ (Named(c, k)' <=> Named(c, k))
    BY <1>5, <2>1, <2>3 DEF Named
  <2>5. d \notin unsure => \A k \in NameKinds : ~Named(d, k)'
    <3> SUFFICES ASSUME d \notin unsure PROVE \A k \in NameKinds : ~Named(d, k)'
      OBVIOUS
    <3>1. ~Named(d, "v3")'
      BY <2>1 DEF Named, Legacy!NamesRemoved
    <3>2. ~Named(d, "v1")'
      <4>1. Named(d, "v1") => mOpenLegacySupported[d]
        BY DEF LegacyInv, NamesFit
      <4>2. mOpenLegacySupported[d] => <<d, "v1">> \in Legacy!NamesRemoved(d)
        BY DEF Legacy!NamesRemoved, Legacy!SecondName
      <4> QED
        BY <2>1, <4>1, <4>2 DEF Named
    <3> QED
      BY <3>1, <3>2 DEF NameKinds
  <2> HIDE DEF R
  <2>6. NamesFit'
    <3> SUFFICES ASSUME NEW c \in Legacy!Cameras \ unsure', Named(c, "v3")' \/ Named(c, "v1")'
                 PROVE  /\ c \in DOMAIN mOpenLegacySupported' /\ Named(c, "v3")'
                        /\ Named(c, "v1")' <=> mOpenLegacySupported'[c]
      BY DEF NamesFit
    <3>1. c # d
      BY <2>1, <2>5 DEF NameKinds
    <3> QED
      BY <2>1, <2>4, <3>1 DEF LegacyInv, NamesFit
  <2>7. PresentNamed'
    BY <1>1, <1>3, <1>8, <2>1, <2>4 DEF LegacyInv, PresentNamed
  <2>8. NewsTrue'
    <3> SUFFICES ASSUME mCallbacks = "alive", NEW c \in Legacy!Cameras \ unsure', NEW k \in NameKinds
                 PROVE  /\ <<c, k>> \in DOMAIN view' =>
                             view'[<<c, k>>] = IF Named(c, k)' THEN Legacy!StatusOf(c)' ELSE "NOT_PRESENT"
                        /\ Named(c, k)' /\ Legacy!StatusOf(c)' = "PRESENT" /\ (c \notin BuiltIn \/ listed')
                             => <<c, k>> \in DOMAIN view'
      BY <1>1 DEF NewsTrue
    <3>1. view' = [n \in DOMAIN view \cup R |-> IF n \in R THEN s ELSE view[n]]
      BY <2>2
    <3>2. /\ <<c, k>> \in DOMAIN view =>
                view[<<c, k>>] = IF Named(c, k) THEN Legacy!StatusOf(c) ELSE "NOT_PRESENT"
          /\ Named(c, k) /\ Legacy!StatusOf(c) = "PRESENT" /\ (c \notin BuiltIn \/ listed) =>
                <<c, k>> \in DOMAIN view
      BY <2>1 DEF LegacyInv, NewsTrue
    <3>3. CASE c = d
      <4>1. ~Named(c, k)'
        BY <2>1, <2>5, <3>3
      <4>2. CASE <<c, k>> \in R
        BY <1>8, <3>1, <4>1, <4>2
      <4>3. CASE <<c, k>> \notin R
        <5>1. ~Named(c, k)
          BY <1>5, <3>3, <4>3 DEF R
        <5> QED
          BY <3>1, <3>2, <4>1, <4>3, <5>1
      <4> QED
        BY <4>2, <4>3
    <3>4. CASE c # d
      BY <1>1, <1>3, <2>4, <3>1, <3>2, <3>4
    <3> QED
      BY <3>3, <3>4
  <2> QED
    BY <1>2, <2>1, <2>6, <2>7, <2>8 DEF LegacyInv
<1>9. CASE mCallbacks # "none" /\ ~(s # "NOT_PRESENT" /\ ~found) /\ ~(s = "NOT_PRESENT" /\ found)
  <2>1. /\ view' = Legacy!Told(view, Legacy!NamesOf(d), s)
        /\ UNCHANGED <<mCameraDeviceNames, mOpenLegacySupported, unsure>>
    BY <1>9 DEF Legacy!CameraDeviceStatusChange
  <2> DEFINE R == Legacy!NamesOf(d)
  <2>2. view' = Tell(R)
    BY <2>1 DEF Legacy!Told
  <2>3. \A c, k : Named(c, k)' <=> Named(c, k)
    BY <2>1 DEF Named
  <2>4. NamesFit'
    BY <2>1 DEF LegacyInv, NamesFit, Named
  <2>5. s # "NOT_PRESENT" => \E n \in mCameraDeviceNames : n[1] = d
    BY <1>9 DEF Legacy!NamesOf
  <2>6. d \notin unsure /\ s # "NOT_PRESENT" => Named(d, "v3")
    <3>1. found => Named(d, "v3") \/ Named(d, "v1")
      BY DEF LegacyInv, Legacy!NamesOf, Named, Legacy!Names
    <3> QED
      BY <1>9, <3>1 DEF LegacyInv, NamesFit
  <2> HIDE DEF R
  <2>7. PresentNamed'
    BY <1>1, <1>3, <1>9, <2>1, <2>3, <2>6 DEF LegacyInv, PresentNamed
  <2>8. NewsTrue'
    <3> SUFFICES ASSUME mCallbacks = "alive", NEW c \in Legacy!Cameras \ unsure', NEW k \in NameKinds
                 PROVE  /\ <<c, k>> \in DOMAIN view' =>
                             view'[<<c, k>>] = IF Named(c, k)' THEN Legacy!StatusOf(c)' ELSE "NOT_PRESENT"
                        /\ Named(c, k)' /\ Legacy!StatusOf(c)' = "PRESENT" /\ (c \notin BuiltIn \/ listed')
                             => <<c, k>> \in DOMAIN view'
      BY <1>1 DEF NewsTrue
    <3>1. view' = [n \in DOMAIN view \cup R |-> IF n \in R THEN s ELSE view[n]]
      BY <2>2
    <3>2. /\ <<c, k>> \in DOMAIN view =>
                view[<<c, k>>] = IF Named(c, k) THEN Legacy!StatusOf(c) ELSE "NOT_PRESENT"
          /\ Named(c, k) /\ Legacy!StatusOf(c) = "PRESENT" /\ (c \notin BuiltIn \/ listed) =>
                <<c, k>> \in DOMAIN view
      BY <2>1 DEF LegacyInv, NewsTrue
    <3>3. <<c, k>> \in R <=> c = d /\ Named(c, k)
      BY <1>5 DEF R
    <3>4. CASE <<c, k>> \in R
      BY <1>3, <2>3, <3>1, <3>3, <3>4
    <3>5. CASE <<c, k>> \notin R
      BY <1>1, <1>3, <2>3, <3>1, <3>2, <3>3, <3>5
    <3> QED
      BY <3>4, <3>5
  <2> QED
    BY <1>2, <2>1, <2>4, <2>7, <2>8 DEF LegacyInv
<1> QED
  BY <1>6, <1>7, <1>8, <1>9

LEMMA LegacyStep == ASSUME LegacyInv, Legacy!Next PROVE LegacyInv'
<1>1. CASE Legacy!StatusChange
  <2>1. PICK d \in Legacy!Cameras, s \in Legacy!Statuses : Legacy!CameraDeviceStatusChange(d, s)
    BY <1>1 DEF Legacy!StatusChange
  <2> QED
    BY <2>1, StatusChangeStep
<1> QED
  BY <1>1, SetCallbackStep, GetCameraIdListStep, ProviderServiceDiesStep DEF Legacy!Next

LEMMA LegacyInvHolds == SuiteSpec => []LegacyInv
<1>1. SuiteInit => LegacyInv
  <2>1. SuiteInit => Legacy!Init
    BY DEF SuiteInit
  <2> QED
    BY <2>1, LegacyInit
<1>2. LegacyInv /\ [SuiteNext]_suiteVars => LegacyInv'
  <2>1. ASSUME LegacyInv, UNCHANGED legacyVars PROVE LegacyInv'
    BY <2>1 DEF legacyVars, LegacyInv, NamesFit, PresentNamed, NewsTrue, Named, Legacy!StatusOf
  <2>2. [SuiteNext]_suiteVars => Legacy!Next \/ UNCHANGED legacyVars
    BY DEF SuiteNext, Still, suiteVars
  <2> QED
    BY <2>1, <2>2, LegacyStep
<1> QED
  BY <1>1, <1>2, PTL DEF SuiteSpec

LEMMA LegacyAgrees == ASSUME LegacyInv PROVE Legacy!ServiceAgrees
<1> SUFFICES ASSUME mCallbacks = "alive", listed, NEW n \in Legacy!Names, n[1] \notin unsure
             PROVE  /\ Legacy!DeviceInterface(n) = "OK" <=> n \in DOMAIN view /\ view[n] = "PRESENT"
                    /\ n[2] = "v3" /\ Legacy!StatusOf(n[1]) = "PRESENT" => n \in mCameraDeviceNames
  BY DEF Legacy!ServiceAgrees
<1>1. PICK c \in Legacy!Cameras, k \in NameKinds : n = <<c, k>>
  BY DEF Legacy!Names, NameKinds
<1>2. c \in Legacy!Cameras \ unsure /\ n[1] = c /\ n[2] = k
  BY <1>1
<1>3. n \in mCameraDeviceNames <=> Named(c, k)
  BY <1>1 DEF Named
<1>4. Legacy!DeviceInterface(n) = "OK" <=> Named(c, k) /\ Legacy!StatusOf(c) = "PRESENT"
  BY <1>2, <1>3 DEF Legacy!DeviceInterface
<1>5. /\ n \in DOMAIN view => view[n] = IF Named(c, k) THEN Legacy!StatusOf(c) ELSE "NOT_PRESENT"
      /\ Named(c, k) /\ Legacy!StatusOf(c) = "PRESENT" => n \in DOMAIN view
  BY <1>1, <1>2 DEF LegacyInv, NewsTrue
<1>6. k = "v3" /\ Legacy!StatusOf(c) = "PRESENT" => Named(c, k)
  BY <1>2 DEF LegacyInv, PresentNamed
<1> QED
  BY <1>2, <1>3, <1>4, <1>5, <1>6

\* The camera service can use the cameras it believes in, and knows of those it can use: of the
\* vendor's module (LegacyCameraProviderImpl_2_4), but those whose open_legacy has answered both
\* ways, and of USB cameras (ExternalCameraProviderImpl_2_4), but nodes that changed between
\* scan and watch, that failed to open, or that went while setCallback was to report them.
THEOREM ProvidersAgreeHolds == SuiteSpec => []ProvidersAgree
<1>1. LegacyInv /\ UsbInv => ProvidersAgree
  BY LegacyAgrees, UsbSettled DEF ProvidersAgree
<1> QED
  BY <1>1, LegacyInvHolds, UsbInvHolds, PTL

---------------------------------------------------------------------------
(* What a capture of the external camera carries. *)

\* The formats of a webcam: their rates and their sizes have a greatest.
CapFormat == [fourcc : {"MJPEG", "Z16"}, size : (Nat \ {0}) \X (Nat \ {0}), rates : SUBSET Nat]
RatesOf(fmts) == UNION {fmts[i].rates : i \in DOMAIN fmts}

LEMMA FormatsAre ==
  ASSUME NEW fmts \in Offers
  PROVE  /\ Len(fmts) \in Nat \ {0} /\ DOMAIN fmts = 1..Len(fmts) /\ 1 \in 1..Len(fmts)
         /\ \A i \in 1..Len(fmts) :
              /\ fmts[i].rates \in SUBSET Nat /\ fmts[i].rates # {} /\ IsFiniteSet(fmts[i].rates)
              /\ fmts[i].size \in (Nat \ {0}) \X (Nat \ {0})
              /\ Capture!Area(fmts[i].size) \in Nat \ {0}
<1>1. fmts \in Seq(CapFormat) /\ fmts # <<>>
      /\ \A i \in DOMAIN fmts : fmts[i].rates # {} /\ IsFiniteSet(fmts[i].rates)
  BY OffersAssumption DEF CapFormat
<1>2. Len(fmts) \in Nat \ {0} /\ DOMAIN fmts = 1..Len(fmts) /\ 1 \in 1..Len(fmts)
      /\ \A i \in 1..Len(fmts) : fmts[i] \in CapFormat
  BY <1>1
<1>3. ASSUME NEW i \in 1..Len(fmts)
      PROVE  /\ fmts[i].rates \in SUBSET Nat /\ fmts[i].size \in (Nat \ {0}) \X (Nat \ {0})
             /\ Capture!Area(fmts[i].size) \in Nat \ {0}
  <2>1. fmts[i].rates \in SUBSET Nat /\ fmts[i].size \in (Nat \ {0}) \X (Nat \ {0})
    BY <1>2 DEF CapFormat
  <2>2. PICK w \in Nat \ {0}, h \in Nat \ {0} : fmts[i].size = <<w, h>>
    BY <2>1
  <2>3. w * h \in Nat \ {0}
    BY <2>2
  <2> QED
    BY <2>1, <2>2, <2>3 DEF Capture!Area
<1> QED
  BY <1>1, <1>2, <1>3

LEMMA GreatestRate ==
  ASSUME NEW fmts \in Offers
  PROVE  /\ RatesOf(fmts) \subseteq Nat
         /\ \E r \in RatesOf(fmts) : \A q \in RatesOf(fmts) : q <= r
<1> DEFINE n == Len(fmts)
           Above(i, b) == \A x \in fmts[i].rates : x <= b
           h == [i \in 1..n |-> CHOOSE b \in Nat : Above(i, b)]
<1>1. /\ n \in Nat /\ DOMAIN fmts = 1..n /\ 1 \in 1..n
      /\ \A i \in 1..n : fmts[i].rates \in SUBSET Nat /\ fmts[i].rates # {} /\ IsFiniteSet(fmts[i].rates)
  BY FormatsAre
<1>2. ASSUME NEW i \in 1..n PROVE h[i] \in Nat /\ Above(i, h[i])
  <2>1. \E b \in Nat : Above(i, b)
    BY <1>1, BoundedSet
  <2> HIDE DEF Above
  <2>2. (CHOOSE b \in Nat : Above(i, b)) \in Nat /\ Above(i, CHOOSE b \in Nat : Above(i, b))
    BY <2>1
  <2> QED
    BY <2>2
<1>3. h \in [1..n -> Nat]
  BY <1>2
<1>4. PICK b \in Nat : \A i \in 1..n : h[i] <= b
  BY <1>1, <1>3, BoundedList
<1> HIDE DEF h
<1>5. RatesOf(fmts) \in SUBSET Nat /\ RatesOf(fmts) # {}
  BY <1>1 DEF RatesOf
<1>6. ASSUME NEW x \in RatesOf(fmts) PROVE x <= b
  <2> PICK i \in 1..n : x \in fmts[i].rates
    BY <1>1 DEF RatesOf
  <2>1. x <= h[i] /\ h[i] <= b /\ x \in Nat /\ h[i] \in Nat
    BY <1>1, <1>2, <1>4
  <2> QED
    BY <2>1
<1> QED
  BY <1>5, <1>6, GreatestBelow

LEMMA GreatestSize ==
  ASSUME NEW fmts \in Offers
  PROVE  Capture!Area(Capture!MaxJpegResolution(fmts)) \in Nat \ {0}
<1> DEFINE n == Len(fmts)
           sizes == {fmts[i].size : i \in DOMAIN fmts}
           g == [i \in 1..n |-> Capture!Area(fmts[i].size)]
           T == {Capture!Area(s) : s \in sizes}
           Most(s) == \A t \in sizes : Capture!Area(t) <= Capture!Area(s)
<1>1. /\ n \in Nat /\ DOMAIN fmts = 1..n /\ 1 \in 1..n
      /\ \A i \in 1..n : Capture!Area(fmts[i].size) \in Nat \ {0}
  BY FormatsAre
<1>2. g \in [1..n -> Nat]
  BY <1>1
<1>3. PICK b \in Nat : \A i \in 1..n : g[i] <= b
  BY <1>1, <1>2, BoundedList
<1>4. \A s \in sizes : Capture!Area(s) \in Nat \ {0} /\ Capture!Area(s) <= b
  BY <1>1, <1>3
<1>5. T \in SUBSET Nat /\ T # {} /\ \A x \in T : x <= b
  BY <1>1, <1>4
<1>6. PICK x \in T : \A y \in T : y <= x
  <2> HIDE DEF T
  <2> QED
    BY <1>5, GreatestBelow
<1>7. PICK s \in sizes : x = Capture!Area(s)
  BY <1>6
<1>8. \E t \in sizes : Most(t)
  BY <1>6, <1>7
<1>9. Capture!MaxJpegResolution(fmts) = CHOOSE t \in sizes : Most(t)
  BY DEF Capture!MaxJpegResolution
<1> HIDE DEF sizes, Most
<1>10. Capture!MaxJpegResolution(fmts) \in sizes
  BY <1>8, <1>9
<1> QED
  BY <1>4, <1>10

LEMMA QuotientIs == ASSUME NEW a \in Nat, NEW b \in Nat \ {0} PROVE a \div b \in Nat
  OBVIOUS

\* A JPEG buffer has some size, or there is none.
LEMMA BufferSizeIs ==
  ASSUME NEW size \in (Nat \ {0}) \X (Nat \ {0}), captureFormats \in Offers
  PROVE  Capture!GetJpegBufferSize(size) \in {-1} \cup (Nat \ {0})
<1> DEFINE least == Capture!MinJpegBufferSize
           most  == Capture!Area(Capture!MaxJpegResolution(captureFormats))
           room  == MaxJpegSize - least
           n     == (Capture!Area(size) * room) \div most + least
<1>1. least = 257 /\ MaxJpegSize \in Nat
  BY JpegAssumption DEF Capture!MinJpegBufferSize, Capture!CameraBlob
<1>2. most \in Nat \ {0}
  BY GreatestSize
<1>3. Capture!Area(size) \in Nat
  <2> PICK w \in Nat \ {0}, h \in Nat \ {0} : size = <<w, h>>
    OBVIOUS
  <2>1. w * h \in Nat
    OBVIOUS
  <2> QED
    BY <2>1 DEF Capture!Area
<1>4. Capture!GetJpegBufferSize(size) = IF MaxJpegSize <= least THEN -1
                                        ELSE IF n > MaxJpegSize THEN MaxJpegSize ELSE n
  BY DEF Capture!GetJpegBufferSize
<1>5. ASSUME ~(MaxJpegSize <= least) PROVE n \in Nat \ {0} /\ MaxJpegSize \in Nat \ {0}
  <2>1. room \in Nat /\ MaxJpegSize \in Nat \ {0}
    BY <1>1, <1>5
  <2> HIDE DEF room, most, least
  <2>2. Capture!Area(size) * room \in Nat
    BY <1>3, <2>1
  <2>3. (Capture!Area(size) * room) \div most \in Nat
    BY <1>2, <2>2, QuotientIs
  <2> QED
    BY <1>1, <2>1, <2>3
<1> HIDE DEF n, least
<1> QED
  BY <1>1, <1>4, <1>5

\* Requests carry the settings that were sent last when they came.
CapRequest == [setting : Capture!Settings, buffers : SUBSET DOMAIN mStreamMap, sent : Capture!Settings,
               want : BOOLEAN]

CapTypes ==
  /\ captureFormats \in Offers /\ mBlobBufferSize \in {0} \cup BufferSizes
  /\ mFirstRequest \in BOOLEAN /\ mAfTrigger \in BOOLEAN /\ stopped \in BOOLEAN
  /\ want \in BOOLEAN /\ lost \in BOOLEAN
  /\ captureRequests \in Seq(CapRequest)
  /\ requestCount \in 0..MaxCaptures /\ Len(captureRequests) <= requestCount

CapSettings ==
  /\ mLatestReqSetting \in Capture!Settings \cup {Capture!None} /\ sent = mLatestReqSetting
  /\ ~mFirstRequest /\ DOMAIN mStreamMap # {} => mLatestReqSetting \in Capture!Settings
  /\ \A i \in 1..Len(captureRequests) : captureRequests[i].setting = captureRequests[i].sent

\* What the triggers up to a request ask for; before the first, those answered.
AskedFor(i) == IF i = 0 THEN mAfTrigger ELSE captureRequests[i].want

CapTriggers ==
  ~lost => /\ want = AskedFor(Len(captureRequests))
           /\ \A i \in 1..Len(captureRequests) :
                captureRequests[i].want = Capture!Triggered(AskedFor(i - 1), captureRequests[i].setting)

\* The framework and the session agree on the size of a JPEG buffer.
CapStreams ==
  \A s \in DOMAIN mStreamMap :
    /\ Capture!IsSupported(s) /\ mStreamMap[s] = Capture!Override(s)
    /\ s[1] = "still" => capacity[s] = Capture!MaxJpegCodeSize(s)

CapInv == CapTypes /\ CapSettings /\ CapTriggers /\ CapStreams
          /\ Capture!SettingsFollow /\ Capture!PicturesReadable

LEMMA SettingIs ==
  ASSUME NEW setting \in Capture!Settings
  PROVE  /\ setting.keys = Capture!TemplateKeys /\ setting.af \in {"IDLE", "START", "CANCEL"}
         /\ setting # Capture!None
<1> DEFINE d == Capture!DefaultRequest(captureFormats, "STILL_CAPTURE")
<1>1. PICK a \in {"IDLE", "START", "CANCEL"} : setting = [d EXCEPT !.af = a]
  BY DEF Capture!Settings
<1>2. setting.keys = Capture!TemplateKeys /\ setting.af = a
  BY <1>1 DEF Capture!DefaultRequest
<1>3. setting # Capture!None
  <2>1. "keys" \in DOMAIN setting
    BY <1>1 DEF Capture!DefaultRequest
  <2>2. "keys" \notin DOMAIN Capture!None
    BY DEF Capture!None
  <2> QED
    BY <2>1, <2>2
<1> QED
  BY <1>1, <1>2, <1>3

LEMMA SettingsStay == ASSUME captureFormats' = captureFormats PROVE Capture!Settings' = Capture!Settings
  BY DEF Capture!Settings, Capture!DefaultRequest, Capture!TemplateKeys, Capture!TemplateValues,
     Capture!DefaultRange, Capture!DefaultFps

\* A still's code has room or there is none.
LEMMA RoomIs ==
  ASSUME captureFormats \in Offers, mBlobBufferSize \in {0} \cup BufferSizes,
         NEW s, Capture!IsSupported(s)
  PROVE  Capture!MaxJpegCodeSize(s) \in {-1} \cup (Nat \ {0})
<1>1. PICK i \in DOMAIN captureFormats : captureFormats[i].size = s[2]
  BY DEF Capture!IsSupported
<1>2. s[2] \in (Nat \ {0}) \X (Nat \ {0})
  BY <1>1, FormatsAre
<1>3. Capture!GetJpegBufferSize(s[2]) \in {-1} \cup (Nat \ {0})
  BY <1>2, BufferSizeIs
<1>4. BufferSizes \subseteq Nat \ {0}
  BY JpegAssumption
<1> QED
  BY <1>3, <1>4 DEF Capture!MaxJpegCodeSize

LEMMA ResultStays ==
  ASSUME result' = result, lost => lost', Capture!SettingsFollow, Capture!PicturesReadable
  PROVE  Capture!SettingsFollow' /\ Capture!PicturesReadable'
<1>1. Capture!None' = Capture!None
  BY DEF Capture!None
<1>2. Capture!SettingsFollow'
  BY <1>1 DEF Capture!SettingsFollow, Capture!AvailableResultKeys, Capture!AvailableRequestKeys
<1>3. Capture!PicturesReadable'
  BY <1>1 DEF Capture!PicturesReadable, Capture!CameraBlob, Capture!Written, Capture!FourCc
<1> QED
  BY <1>2, <1>3

LEMMA ConfiguredStep ==
  ASSUME CapInv, NEW streams, NEW size \in {0} \cup BufferSizes, Capture!Configured(streams, size),
         \A s \in Capture!Stills(streams) : capacity'[s] = Capture!MaxJpegCodeSize(s)'
  PROVE  CapInv'
<1>0. /\ CapTypes /\ CapSettings /\ CapTriggers /\ CapStreams
      /\ Capture!SettingsFollow /\ Capture!PicturesReadable
  BY DEF CapInv
<1>1. /\ streams # {} /\ (\A s \in streams : Capture!IsSupported(s)) /\ captureRequests = <<>>
      /\ mStreamMap' = [s \in streams |-> Capture!Override(s)] /\ mBlobBufferSize' = size
      /\ mFirstRequest' = TRUE
      /\ UNCHANGED <<captureFormats, mLatestReqSetting, mAfTrigger, captureRequests, stopped, sent,
                     want, lost, result, requestCount>>
  BY DEF Capture!Configured
<1>2. Capture!Settings' = Capture!Settings
  BY <1>1, SettingsStay
<1>3. captureRequests' \in Seq(CapRequest') /\ Len(captureRequests') = 0 /\ Len(captureRequests) = 0
  BY <1>1
<1>4. CapTypes'
  BY <1>0, <1>1, <1>3 DEF CapTypes
<1>5. CapSettings'
  BY <1>0, <1>1, <1>2, <1>3 DEF CapSettings, Capture!None
<1>6. CapTriggers'
  <2>1. ~lost => want = mAfTrigger
    BY <1>0, <1>3 DEF CapTriggers, AskedFor
  <2> QED
    BY <1>1, <1>3, <2>1 DEF CapTriggers, AskedFor
<1>7. CapStreams'
  <2>1. DOMAIN mStreamMap' = streams /\ \A s \in streams : mStreamMap'[s] = Capture!Override(s)
    BY <1>1
  <2>2. \A s \in streams : Capture!IsSupported(s)'
    BY <1>1 DEF Capture!IsSupported
  <2>3. \A s \in streams : s[1] = "still" => capacity'[s] = Capture!MaxJpegCodeSize(s)'
    BY DEF Capture!Stills
  <2> QED
    BY <2>1, <2>2, <2>3 DEF CapStreams, Capture!Override
<1>8. Capture!SettingsFollow' /\ Capture!PicturesReadable'
  BY <1>0, <1>1, ResultStays
<1> QED
  BY <1>4, <1>5, <1>6, <1>7, <1>8 DEF CapInv

LEMMA ConfigureStreamsStep ==
  ASSUME CapInv, Capture!ConfigureStreams \/ Capture!ConfigureStreams_3_4
  PROVE  CapInv'
<1>1. CASE Capture!ConfigureStreams
  <2> PICK streams \in SUBSET Capture!Streams :
        /\ capacity' = [s \in Capture!Stills(streams) |-> Capture!GetJpegBufferSize(s[2])]
        /\ Capture!Configured(streams, 0)
    BY <1>1 DEF Capture!ConfigureStreams
  <2>1. captureFormats' = captureFormats /\ mBlobBufferSize' = 0
    BY DEF Capture!Configured
  <2>2. \A s \in Capture!Stills(streams) : capacity'[s] = Capture!GetJpegBufferSize(s[2])
    OBVIOUS
  <2>3. \A s : Capture!MaxJpegCodeSize(s)' = Capture!GetJpegBufferSize(s[2])
    BY <2>1 DEF Capture!MaxJpegCodeSize, Capture!GetJpegBufferSize, Capture!MaxJpegResolution,
       Capture!MinJpegBufferSize, Capture!CameraBlob, Capture!Area
  <2> QED
    BY <2>2, <2>3, ConfiguredStep
<1>2. CASE Capture!ConfigureStreams_3_4
  <2> PICK streams \in SUBSET Capture!Streams, size \in BufferSizes :
        /\ capacity' = [s \in Capture!Stills(streams) |-> size]
        /\ Capture!Configured(streams, Capture!BlobBufferSize(streams, size))
    BY <1>2 DEF Capture!ConfigureStreams_3_4
  <2> DEFINE blob == Capture!BlobBufferSize(streams, size)
  <2>1. blob \in {0} \cup BufferSizes /\ mBlobBufferSize' = blob
    BY DEF Capture!BlobBufferSize, Capture!Configured
  <2>2. ASSUME NEW s \in Capture!Stills(streams) PROVE capacity'[s] = Capture!MaxJpegCodeSize(s)'
    <3>1. blob = size /\ size # 0
      BY JpegAssumption DEF Capture!BlobBufferSize
    <3> QED
      BY <2>1, <3>1 DEF Capture!MaxJpegCodeSize
  <2> QED
    BY <2>1, <2>2, ConfiguredStep
<1> QED
  BY <1>1, <1>2

LEMMA StreamsStay ==
  ASSUME CapStreams, UNCHANGED <<captureFormats, mStreamMap, mBlobBufferSize, capacity>>
  PROVE  CapStreams'
<1>1. \A s : Capture!MaxJpegCodeSize(s)' = Capture!MaxJpegCodeSize(s)
  BY DEF Capture!MaxJpegCodeSize, Capture!GetJpegBufferSize, Capture!MaxJpegResolution,
     Capture!MinJpegBufferSize, Capture!CameraBlob, Capture!Area
<1>2. \A s : Capture!IsSupported(s)' <=> Capture!IsSupported(s)
  BY DEF Capture!IsSupported
<1> QED
  BY <1>1, <1>2 DEF CapStreams, Capture!Override

LEMMA TriggerIs ==
  ASSUME NEW b \in BOOLEAN, NEW setting \in Capture!Settings
  PROVE  /\ Capture!Triggered(b, setting) \in BOOLEAN
         /\ setting.af = "IDLE" => Capture!Triggered(b, setting) = b
  BY DEF Capture!Triggered

LEMMA ProcessOneCaptureRequestStep ==
  ASSUME CapInv, Capture!ProcessOneCaptureRequest
  PROVE  CapInv'
<1>p. PICK n \in Nat : n = Len(captureRequests)
  <2>1. captureRequests \in Seq(CapRequest)
    BY DEF CapInv, CapTypes
  <2> QED
    BY <2>1
<1>0. /\ CapTypes /\ CapSettings /\ CapTriggers /\ CapStreams
      /\ Capture!SettingsFollow /\ Capture!PicturesReadable
  BY DEF CapInv
<1>1. /\ requestCount < MaxCaptures /\ requestCount' = requestCount + 1
      /\ UNCHANGED <<captureFormats, mStreamMap, mBlobBufferSize, mAfTrigger, stopped, capacity, lost,
                     result>>
  BY DEF Capture!ProcessOneCaptureRequest
<1>2. PICK setting \in Capture!Settings \cup {Capture!None}, buffers \in SUBSET DOMAIN mStreamMap :
        LET latest   == IF setting = Capture!None THEN mLatestReqSetting ELSE setting
            accepted == buffers # {} /\ ~(mFirstRequest /\ setting = Capture!None)
        IN  /\ mLatestReqSetting' = latest
            /\ sent' = IF setting = Capture!None THEN sent ELSE setting
            /\ IF ~accepted THEN UNCHANGED <<captureRequests, mFirstRequest, want>>
               ELSE /\ want' = Capture!Triggered(want, sent')
                    /\ captureRequests' = Append(captureRequests,
                         [setting |-> latest, buffers |-> buffers, sent |-> sent', want |-> want'])
                    /\ mFirstRequest' = FALSE
  BY DEF Capture!ProcessOneCaptureRequest
<1> DEFINE accepted == buffers # {} /\ ~(mFirstRequest /\ setting = Capture!None)
           req == [setting |-> sent', buffers |-> buffers, sent |-> sent', want |-> want']
<1>3. Capture!Settings' = Capture!Settings /\ CapRequest' = CapRequest /\ Capture!None' = Capture!None
  BY <1>1, SettingsStay DEF CapRequest, Capture!None
<1>4. /\ mLatestReqSetting' = sent' /\ sent' \in Capture!Settings \cup {Capture!None}
      /\ mLatestReqSetting \in Capture!Settings => sent' \in Capture!Settings
      /\ setting # Capture!None => sent' \in Capture!Settings
  BY <1>0, <1>2 DEF CapSettings
<1>5. n \in Nat /\ captureRequests \in Seq(CapRequest) /\ requestCount \in Nat /\ n <= requestCount
      /\ MaxCaptures \in Nat
  BY <1>p, <1>0, Bounds DEF CapTypes
<1>6. CASE ~accepted
  <2>1. UNCHANGED <<captureRequests, mFirstRequest, want>>
    BY <1>2, <1>6
  <2>2. CapTypes'
    BY <1>0, <1>1, <1>3, <1>5, <2>1 DEF CapTypes
  <2>3. CapSettings'
    BY <1>0, <1>1, <1>3, <1>4, <2>1 DEF CapSettings
  <2>4. CapTriggers'
    BY <1>0, <1>1, <2>1 DEF CapTriggers, AskedFor, Capture!Triggered
  <2> QED
    BY <1>0, <1>1, <2>2, <2>3, <2>4, ResultStays, StreamsStay DEF CapInv
<1>7. CASE accepted
  <2>1. /\ captureRequests' = Append(captureRequests, req) /\ mFirstRequest' = FALSE
        /\ want' = Capture!Triggered(want, sent')
    BY <1>2, <1>4, <1>7
  <2>2. sent' \in Capture!Settings
    <3>1. CASE setting # Capture!None
      BY <1>4, <3>1
    <3>2. CASE setting = Capture!None
      <4>1. ~mFirstRequest /\ DOMAIN mStreamMap # {}
        BY <1>7, <3>2
      <4> QED
        BY <1>0, <1>4, <4>1 DEF CapSettings
    <3> QED
      BY <3>1, <3>2
  <2>3. want' \in BOOLEAN
    BY <1>0, <2>1, <2>2, TriggerIs DEF CapTypes
  <2>4. req \in CapRequest /\ req.setting = req.sent /\ req.sent = sent' /\ req.want = want'
    BY <2>2, <2>3 DEF CapRequest
  <2> HIDE DEF req
  <2>5. /\ captureRequests' \in Seq(CapRequest) /\ Len(captureRequests') = n + 1
        /\ captureRequests'[n + 1] = req /\ \A i \in 1..n : captureRequests'[i] = captureRequests[i]
    BY <1>p, <1>5, <2>1, <2>4
  <2>6. CapTypes'
    <3>1. requestCount' \in 0..MaxCaptures /\ n + 1 <= requestCount'
      BY <1>1, <1>5
    <3> QED
      BY <1>0, <1>1, <1>3, <2>1, <2>3, <2>5, <3>1 DEF CapTypes
  <2>7. \A i \in 1..(n + 1) : i \in 1..n \/ i = n + 1
    BY <1>5
  <2>8. CapSettings'
    <3>1. \A i \in 1..(n + 1) : captureRequests'[i].setting = captureRequests'[i].sent
      BY <1>p, <1>0, <2>4, <2>5, <2>7 DEF CapSettings
    <3> QED
      BY <1>3, <1>4, <2>2, <2>5, <3>1 DEF CapSettings
  <2>9. CapTriggers'
    <3> SUFFICES ASSUME ~lost PROVE CapTriggers'
      BY <1>1 DEF CapTriggers
    <3>1. want = AskedFor(n)
          /\ \A i \in 1..n : captureRequests[i].want
                               = Capture!Triggered(AskedFor(i - 1), captureRequests[i].setting)
      BY <1>p, <1>0 DEF CapTriggers
    <3>2. \A i \in 0..n : AskedFor(i)' = AskedFor(i)
      <4>1. \A i \in 0..n : i # 0 => i \in 1..n
        BY <1>5
      <4> QED
        BY <1>1, <2>5, <4>1 DEF AskedFor
    <3>3. \A i \in 1..n : i - 1 \in 0..n
      BY <1>5
    <3>4. n \in 0..n /\ (n + 1) - 1 = n /\ n + 1 # 0
      BY <1>5
    <3>5. AskedFor(n + 1)' = want'
      BY <2>4, <2>5, <3>4 DEF AskedFor
    <3>6. \A i \in 1..n : captureRequests'[i].want
                            = Capture!Triggered(AskedFor(i - 1)', captureRequests'[i].setting)
      BY <2>5, <3>1, <3>2, <3>3
    <3>7. captureRequests'[n + 1].want
            = Capture!Triggered(AskedFor((n + 1) - 1)', captureRequests'[n + 1].setting)
      BY <2>1, <2>4, <2>5, <3>1, <3>2, <3>4
    <3>8. \A i \in 1..(n + 1) : captureRequests'[i].want
                                  = Capture!Triggered(AskedFor(i - 1)', captureRequests'[i].setting)
      BY <2>7, <3>6, <3>7
    <3> QED
      BY <2>5, <3>5, <3>8 DEF CapTriggers, Capture!Triggered
  <2> QED
    BY <1>0, <1>1, <2>6, <2>8, <2>9, ResultStays, StreamsStay DEF CapInv
<1> QED
  BY <1>6, <1>7

\* The first request is taken.
LEMMA CaptureTaken ==
  ASSUME CapInv, captureRequests # <<>>, captureRequests' = Tail(captureRequests),
         UNCHANGED <<captureFormats, mStreamMap, mBlobBufferSize, mFirstRequest, mLatestReqSetting, sent,
                     want, requestCount>>,
         mAfTrigger' \in BOOLEAN, stopped' \in BOOLEAN, lost' \in BOOLEAN, lost => lost',
         ~lost' => mAfTrigger' = Capture!Triggered(mAfTrigger, Head(captureRequests).setting)
  PROVE  CapTypes' /\ CapSettings' /\ CapTriggers'
<1>p. PICK n \in Nat : n = Len(captureRequests)
  <2>1. captureRequests \in Seq(CapRequest)
    BY DEF CapInv, CapTypes
  <2> QED
    BY <2>1
<1>0. CapTypes /\ CapSettings /\ CapTriggers
  BY DEF CapInv
<1>1. Capture!Settings' = Capture!Settings /\ CapRequest' = CapRequest /\ Capture!None' = Capture!None
  BY SettingsStay DEF CapRequest, Capture!None
<1>2. /\ n \in Nat \ {0} /\ captureRequests' \in Seq(CapRequest) /\ Len(captureRequests') = n - 1
      /\ Head(captureRequests) = captureRequests[1]
      /\ \A i \in 1..(n - 1) : captureRequests'[i] = captureRequests[i + 1] /\ i + 1 \in 1..n
  <2>1. captureRequests \in Seq(CapRequest)
    BY <1>0 DEF CapTypes
  <2> QED
    BY <1>p, <2>1
<1>3. CapTypes'
  <2>1. requestCount \in Nat /\ n <= requestCount
    BY <1>p, <1>0, Bounds DEF CapTypes
  <2>2. n - 1 <= requestCount
    BY <1>2, <2>1
  <2> QED
    BY <1>0, <1>1, <1>2, <2>2 DEF CapTypes
<1>4. CapSettings'
  BY <1>p, <1>0, <1>1, <1>2 DEF CapSettings
<1>5. CapTriggers'
  <2> SUFFICES ASSUME ~lost' PROVE CapTriggers'
    BY DEF CapTriggers
  <2>1. want = AskedFor(n)
        /\ \A i \in 1..n : captureRequests[i].want
                             = Capture!Triggered(AskedFor(i - 1), captureRequests[i].setting)
    BY <1>p, <1>0 DEF CapTriggers
  <2>2. 1 \in 1..n /\ 1 - 1 = 0
    BY <1>2
  <2>3. mAfTrigger' = AskedFor(1)
    BY <1>2, <2>1, <2>2 DEF AskedFor
  <2>4. \A i \in 0..(n - 1) : AskedFor(i)' = AskedFor(i + 1)
    <3>1. \A i \in 0..(n - 1) : (i # 0 => i \in 1..(n - 1)) /\ i + 1 # 0
      BY <1>2
    <3>2. AskedFor(0)' = AskedFor(0 + 1)
      BY <2>3 DEF AskedFor
    <3> QED
      BY <1>2, <3>1, <3>2 DEF AskedFor
  <2>5. n - 1 \in 0..(n - 1) /\ (n - 1) + 1 = n
    BY <1>2
  <2>6. want' = AskedFor(n - 1)'
    BY <2>1, <2>4, <2>5
  <2>7. ASSUME NEW i \in 1..(n - 1)
        PROVE  captureRequests'[i].want
                 = Capture!Triggered(AskedFor(i - 1)', captureRequests'[i].setting)
    <3>1. i - 1 \in 0..(n - 1) /\ (i - 1) + 1 = (i + 1) - 1 /\ i + 1 \in 1..n
      BY <1>2
    <3>2. AskedFor(i - 1)' = AskedFor((i + 1) - 1)
      BY <2>4, <3>1
    <3> QED
      BY <1>2, <2>1, <3>1, <3>2
  <2> QED
    BY <1>2, <2>6, <2>7 DEF CapTriggers, Capture!Triggered
<1> QED
  BY <1>3, <1>4, <1>5

LEMMA OutputErrorStep ==
  ASSUME CapInv, Capture!OutputError
  PROVE  CapInv'
<1>0. /\ CapTypes /\ CapSettings /\ CapStreams
      /\ Capture!SettingsFollow /\ Capture!PicturesReadable
  BY DEF CapInv
<1>1. /\ captureRequests # <<>> /\ captureRequests' = Tail(captureRequests)
      /\ lost' = (lost \/ Head(captureRequests).setting.af # "IDLE")
      /\ UNCHANGED <<captureFormats, mStreamMap, mBlobBufferSize, mFirstRequest, mLatestReqSetting,
                     mAfTrigger, stopped, capacity, sent, want, result, requestCount>>
  BY DEF Capture!OutputError
<1>2. Head(captureRequests).setting \in Capture!Settings
  <2>1. captureRequests \in Seq(CapRequest)
    BY <1>0 DEF CapTypes
  <2>2. Head(captureRequests) \in CapRequest
    BY <1>1, <2>1
  <2> QED
    BY <2>2 DEF CapRequest
<1>3. mAfTrigger \in BOOLEAN /\ stopped \in BOOLEAN /\ lost \in BOOLEAN
  BY <1>0 DEF CapTypes
<1>4. ~lost' => mAfTrigger = Capture!Triggered(mAfTrigger, Head(captureRequests).setting)
  BY <1>1, <1>2, <1>3, TriggerIs
<1>5. lost' \in BOOLEAN /\ (lost => lost')
  BY <1>1, <1>3
<1>6. CapTypes' /\ CapSettings' /\ CapTriggers'
  BY <1>1, <1>3, <1>4, <1>5, CaptureTaken
<1>7. Capture!SettingsFollow' /\ Capture!PicturesReadable'
  BY <1>0, <1>1, <1>5, ResultStays
<1> QED
  BY <1>0, <1>1, <1>6, <1>7, StreamsStay DEF CapInv

\* Every layout gralloc may give is written as it is read.
LEMMA LayoutsWritten ==
  ASSUME NEW out \in Capture!Layouts
  PROVE  Capture!Written(out)[out.cb] = "cb" /\ Capture!Written(out)[out.cr] = "cr"
<1>1. /\ out.cb \in Nat /\ out.cr \in Nat /\ out.cb # out.cr
      /\ Capture!FourCc(out) = "NV21" => out.cb = out.cr + 1
      /\ Capture!FourCc(out) = "NV12" => out.cr = out.cb + 1
  <2>1. \/ out.cb = 0 /\ out.cr = 1 /\ out.step = 2
        \/ out.cb = 1 /\ out.cr = 0 /\ out.step = 2
        \/ out.cb = 0 /\ out.cr = 4 /\ out.step = 1
        \/ out.cb = 4 /\ out.cr = 0 /\ out.step = 1
        \/ out.cb = 0 /\ out.cr = 4 /\ out.step = 2
    BY DEF Capture!Layouts, Capture!Layout
  <2> QED
    BY <2>1 DEF Capture!FourCc
<1>2. CASE Capture!FourCc(out) = "NV21"
  BY <1>1, <1>2 DEF Capture!Written
<1>3. CASE Capture!FourCc(out) = "NV12"
  BY <1>1, <1>3 DEF Capture!Written
<1>4. CASE Capture!FourCc(out) \notin {"NV21", "NV12"}
  BY <1>1, <1>4 DEF Capture!Written
<1> QED
  BY <1>2, <1>3, <1>4

LEMMA ResultKeysThere == Capture!AvailableResultKeys \subseteq Capture!TemplateKeys \cup Capture!FilledKeys
  BY DEF Capture!AvailableResultKeys, Capture!AvailableRequestKeys, Capture!TemplateKeys,
     Capture!TemplateValues, Capture!FilledKeys

\* A capture fails, or answers the request it is for.
LEMMA OutputResultIs ==
  ASSUME Capture!OutputResult,
         NEW req, req = Head(captureRequests),
         NEW blobs, blobs = {s \in req.buffers : mStreamMap[s] = "BLOB"}
  PROVE  /\ captureRequests # <<>>
         /\ UNCHANGED <<captureFormats, mStreamMap, mBlobBufferSize, mFirstRequest, mLatestReqSetting,
                        capacity, sent, want, lost, requestCount>>
         /\ \/ stopped' = TRUE /\ UNCHANGED <<mAfTrigger, captureRequests, result>>
            \/ /\ mAfTrigger' = Capture!Triggered(mAfTrigger, req.setting)
               /\ captureRequests' = Tail(captureRequests) /\ UNCHANGED stopped
               /\ \A s \in blobs : ~(Capture!MaxJpegCodeSize(s) < 0)
               /\ \E out \in Capture!Layouts : result' = Capture!CaptureResult(req, mAfTrigger', out)
<1>1. /\ captureRequests # <<>>
      /\ UNCHANGED <<captureFormats, mStreamMap, mBlobBufferSize, mFirstRequest, mLatestReqSetting,
                     capacity, sent, want, lost, requestCount>>
  BY DEF Capture!OutputResult
<1>2. PICK encoded \in Capture!JpegsOf(req), out \in Capture!Layouts :
        IF Capture!FillFails(req, encoded, out)
          THEN stopped' = TRUE /\ UNCHANGED <<mAfTrigger, captureRequests, result>>
          ELSE /\ mAfTrigger' = Capture!AnsweredTrigger(req)
               /\ captureRequests' = Tail(captureRequests)
               /\ result' = Capture!CaptureResult(req, mAfTrigger', out)
               /\ UNCHANGED stopped
  BY DEF Capture!OutputResult
<1>3. CASE Capture!FillFails(req, encoded, out)
  BY <1>1, <1>2, <1>3
<1>4. CASE ~Capture!FillFails(req, encoded, out)
  <2>1. \A s \in blobs : ~(Capture!MaxJpegCodeSize(s) < 0)
    BY <1>4 DEF Capture!FillFails, Capture!CreateJpegFails, Capture!BlobBuffers
  <2> QED
    BY <1>1, <1>2, <1>4, <2>1 DEF Capture!AnsweredTrigger
<1> QED
  BY <1>3, <1>4

LEMMA OutputResultStep ==
  ASSUME CapInv, Capture!OutputResult
  PROVE  CapInv'
<1>0. /\ CapTypes /\ CapSettings /\ CapTriggers /\ CapStreams
      /\ Capture!SettingsFollow /\ Capture!PicturesReadable
  BY DEF CapInv
<1>p. PICK req, blobs : req = Head(captureRequests) /\ blobs = {s \in req.buffers : mStreamMap[s] = "BLOB"}
  OBVIOUS
<1>1. /\ captureRequests # <<>>
      /\ UNCHANGED <<captureFormats, mStreamMap, mBlobBufferSize, mFirstRequest, mLatestReqSetting,
                     capacity, sent, want, lost, requestCount>>
      /\ \/ stopped' = TRUE /\ UNCHANGED <<mAfTrigger, captureRequests, result>>
         \/ /\ mAfTrigger' = Capture!Triggered(mAfTrigger, req.setting)
            /\ captureRequests' = Tail(captureRequests) /\ UNCHANGED stopped
            /\ \A s \in blobs : ~(Capture!MaxJpegCodeSize(s) < 0)
            /\ \E out \in Capture!Layouts : result' = Capture!CaptureResult(req, mAfTrigger', out)
  BY <1>p, OutputResultIs
<1>2. CapStreams'
  BY <1>0, <1>1, StreamsStay
<1>3. mAfTrigger \in BOOLEAN /\ stopped \in BOOLEAN /\ lost \in BOOLEAN
  BY <1>0 DEF CapTypes
<1>4. ASSUME stopped' = TRUE, UNCHANGED <<mAfTrigger, captureRequests, result>> PROVE CapInv'
  <2>1. CapTypes'
    <3>1. CapRequest' = CapRequest
      BY <1>1, SettingsStay DEF CapRequest
    <3> QED
      BY <1>0, <1>1, <1>4, <3>1 DEF CapTypes
  <2>2. CapSettings'
    BY <1>0, <1>1, <1>4, SettingsStay DEF CapSettings, Capture!None
  <2>3. CapTriggers'
    BY <1>0, <1>1, <1>4 DEF CapTriggers, AskedFor, Capture!Triggered
  <2>4. Capture!SettingsFollow' /\ Capture!PicturesReadable'
    BY <1>0, <1>1, <1>4, ResultStays
  <2> QED
    BY <1>2, <2>1, <2>2, <2>3, <2>4 DEF CapInv
<1>5. ASSUME mAfTrigger' = Capture!Triggered(mAfTrigger, req.setting),
             captureRequests' = Tail(captureRequests), stopped' = stopped,
             \A s \in blobs : ~(Capture!MaxJpegCodeSize(s) < 0),
             NEW out \in Capture!Layouts, result' = Capture!CaptureResult(req, mAfTrigger', out)
      PROVE  CapInv'
  <2>1. captureRequests \in Seq(CapRequest)
    BY <1>0 DEF CapTypes
  <2>2. req = captureRequests[1] /\ 1 \in 1..Len(captureRequests) /\ req \in CapRequest
    BY <1>p, <1>1, <2>1
  <2>3. req.setting \in Capture!Settings /\ req.buffers \subseteq DOMAIN mStreamMap
        /\ req.setting = req.sent
    BY <1>0, <2>2 DEF CapRequest, CapSettings
  <2>4. mAfTrigger' \in BOOLEAN
    BY <1>3, <1>5, <2>3, TriggerIs
  <2>5. CapTypes' /\ CapSettings' /\ CapTriggers'
    BY <1>p, <1>1, <1>3, <1>5, <2>4, CaptureTaken
  <2>6. ~lost => mAfTrigger' = req.want
    BY <1>0, <1>5, <2>2 DEF CapTriggers, AskedFor
  <2>7. /\ result'.setting = req.setting /\ result'.sent = req.sent /\ result'.want = req.want
        /\ result'.keys = req.setting.keys \cup Capture!FilledKeys
        /\ result'.afState = (IF mAfTrigger' THEN "FOCUSED_LOCKED" ELSE "INACTIVE")
        /\ result'.jpegs = {Capture!Jpeg(s) : s \in blobs}
        /\ result'.layout \in {Capture!None, out}
    BY <1>p, <1>5 DEF Capture!CaptureResult, Capture!BlobBuffers
  <2>8. req.setting.keys = Capture!TemplateKeys
    BY <2>3, SettingIs
  <2>9. Capture!SettingsFollow'
    <3>1. Capture!AvailableResultKeys \subseteq result'.keys
      BY <2>7, <2>8, ResultKeysThere
    <3>2. Capture!AvailableResultKeys' = Capture!AvailableResultKeys
      BY DEF Capture!AvailableResultKeys, Capture!AvailableRequestKeys
    <3>3. lost \/ result'.afState = (IF result'.want THEN "FOCUSED_LOCKED" ELSE "INACTIVE")
      BY <2>6, <2>7
    <3> QED
      BY <1>1, <2>3, <2>7, <3>1, <3>2, <3>3 DEF Capture!SettingsFollow
  <2>10. ASSUME NEW s \in blobs
         PROVE  /\ Capture!Jpeg(s).trailer = Capture!Jpeg(s).buffer - 1
                /\ Capture!Jpeg(s).trailer >= 0
    <3>1. s \in DOMAIN mStreamMap /\ mStreamMap[s] = "BLOB"
      BY <1>p, <2>3
    <3>2. Capture!IsSupported(s) /\ Capture!Override(s) = "BLOB"
          /\ (s[1] = "still" => capacity[s] = Capture!MaxJpegCodeSize(s))
      BY <1>0, <3>1 DEF CapStreams
    <3>3. s[1] = "still"
      <4>1. s[1] \in {"preview", "video", "still"}
        BY <3>2 DEF Capture!IsSupported
      <4>2. s[1] = "preview" => Capture!Override(s) = "YV12"
        BY DEF Capture!Override
      <4>3. s[1] = "video" => Capture!Override(s) = "YCBCR_420_888"
        BY DEF Capture!Override
      <4> QED
        BY <3>2, <4>1, <4>2, <4>3
    <3>4. Capture!MaxJpegCodeSize(s) \in {-1} \cup (Nat \ {0})
      BY <1>0, <3>2, RoomIs DEF CapTypes
    <3>5. Capture!MaxJpegCodeSize(s) \in Nat \ {0}
      BY <1>5, <3>4
    <3>6. capacity[s] = Capture!MaxJpegCodeSize(s)
      BY <3>2, <3>3
    <3>7. Capture!MaxJpegCodeSize(s) - 1 >= 0
      BY <3>5
    <3> QED
      BY <3>6, <3>7 DEF Capture!Jpeg, Capture!CameraBlob
  <2>11. Capture!PicturesReadable'
    <3>1. \A j \in result'.jpegs : j.trailer = j.buffer - 1 /\ j.trailer >= 0
      BY <2>7, <2>10
    <3>2. result'.layout # Capture!None =>
            /\ Capture!Written(result'.layout)[result'.layout.cb] = "cb"
            /\ Capture!Written(result'.layout)[result'.layout.cr] = "cr"
      BY <2>7, LayoutsWritten
    <3> QED
      BY <3>1, <3>2 DEF Capture!PicturesReadable, Capture!CameraBlob, Capture!None, Capture!Written,
         Capture!FourCc
  <2> QED
    BY <1>2, <2>5, <2>9, <2>11 DEF CapInv
<1> QED
  BY <1>1, <1>4, <1>5

LEMMA CapInit == ASSUME Capture!Init PROVE CapInv
<1>1. /\ captureFormats \in Offers /\ mStreamMap = <<>> /\ mBlobBufferSize = 0
      /\ mFirstRequest = FALSE /\ mLatestReqSetting = Capture!None /\ mAfTrigger = FALSE
      /\ captureRequests = <<>> /\ stopped = FALSE /\ sent = Capture!None /\ want = FALSE
      /\ lost = FALSE /\ result = Capture!None /\ requestCount = 0
  BY DEF Capture!Init
<1>2. DOMAIN mStreamMap = {} /\ Len(captureRequests) = 0 /\ captureRequests \in Seq(CapRequest)
  BY <1>1
<1>3. CapTypes
  <2>1. MaxCaptures \in Nat
    BY Bounds
  <2>2. requestCount \in 0..MaxCaptures /\ Len(captureRequests) <= requestCount
    BY <1>1, <1>2, <2>1
  <2> QED
    BY <1>1, <1>2, <2>2 DEF CapTypes
<1>4. CapSettings /\ CapStreams
  BY <1>1, <1>2 DEF CapSettings, CapStreams
<1>5. CapTriggers
  <2>1. 1..Len(captureRequests) = {}
    BY <1>2
  <2>2. want = AskedFor(Len(captureRequests))
    BY <1>1, <1>2 DEF AskedFor
  <2> QED
    BY <2>1, <2>2 DEF CapTriggers
<1>6. Capture!SettingsFollow /\ Capture!PicturesReadable
  BY <1>1 DEF Capture!SettingsFollow, Capture!PicturesReadable
<1> QED
  BY <1>3, <1>4, <1>5, <1>6 DEF CapInv

LEMMA CapInvHolds == SuiteSpec => []CapInv
<1>1. SuiteInit => CapInv
  <2>1. SuiteInit => Capture!Init
    BY DEF SuiteInit
  <2> QED
    BY <2>1, CapInit
<1>2. CapInv /\ [SuiteNext]_suiteVars => CapInv'
  <2>1. ASSUME CapInv, UNCHANGED captureVars PROVE CapInv'
    <3>1. UNCHANGED <<captureFormats, mStreamMap, mBlobBufferSize, mFirstRequest, mLatestReqSetting,
                      mAfTrigger, captureRequests, stopped, capacity, sent, want, lost, result,
                      requestCount>>
      BY <2>1 DEF captureVars
    <3>2. Capture!Settings' = Capture!Settings /\ CapRequest' = CapRequest
      BY <3>1, SettingsStay DEF CapRequest
    <3>3. CapTypes'
      BY <2>1, <3>1, <3>2 DEF CapInv, CapTypes
    <3>4. CapSettings'
      BY <2>1, <3>1, <3>2 DEF CapInv, CapSettings, Capture!None
    <3>5. CapTriggers'
      BY <2>1, <3>1 DEF CapInv, CapTriggers, AskedFor, Capture!Triggered
    <3>6. CapStreams' /\ Capture!SettingsFollow' /\ Capture!PicturesReadable'
      BY <2>1, <3>1, StreamsStay, ResultStays DEF CapInv
    <3> QED
      BY <3>3, <3>4, <3>5, <3>6 DEF CapInv
  <2>2. [SuiteNext]_suiteVars => Capture!Next \/ UNCHANGED captureVars
    BY DEF SuiteNext, Still, suiteVars
  <2>3. CapInv /\ Capture!Next => CapInv'
    BY ConfigureStreamsStep, ProcessOneCaptureRequestStep, OutputResultStep, OutputErrorStep
    DEF Capture!Next
  <2> QED
    BY <2>1, <2>2, <2>3
<1> QED
  BY <1>1, <1>2, PTL DEF SuiteSpec

LEMMA RatesPromised ==
  ASSUME captureFormats \in Offers
  PROVE  Capture!DefaultRange(Capture!DefaultFps(captureFormats)) \in Capture!FpsRanges(captureFormats)
<1> DEFINE rates == RatesOf(captureFormats)
           Most(r) == \A q \in rates : q <= r
<1>1. Capture!DefaultFps(captureFormats) = IF 30 \in rates THEN 30 ELSE CHOOSE r \in rates : Most(r)
  BY DEF Capture!DefaultFps, RatesOf
<1>2. \E r \in rates : Most(r)
  BY GreatestRate
<1>3. Capture!FpsRanges(captureFormats) = {<<r \div 2, r>> : r \in rates}
  BY DEF Capture!FpsRanges, RatesOf
<1> HIDE DEF rates, Most
<1>4. Capture!DefaultFps(captureFormats) \in rates
  BY <1>1, <1>2
<1> QED
  BY <1>3, <1>4 DEF Capture!DefaultRange

\* The templates keep to what the device promises; a result carries the settings last sent with
\* or before its request, the AF state its triggers ask for and every promised key; the
\* trailer of a JPEG is where the framework looks for it, and the chroma samples are where the
\* layout of their buffer has them.
THEOREM CapturesHold == SuiteSpec => []CapturesRight
<1>1. \A k \in DOMAIN Capture!TemplateValues :
        /\ k \in DOMAIN Capture!AvailableValues =>
             Capture!TemplateValues[k] \in Capture!AvailableValues[k]
        /\ k \in DOMAIN Capture!AvailableControls =>
             Capture!TemplateValues[k] \in Capture!AvailableControls[k]
  BY DEF Capture!TemplateValues, Capture!AvailableValues, Capture!AvailableControls,
     Capture!ThumbnailSizes
<1>2. Capture!TemplateKeys \subseteq Capture!AvailableRequestKeys
  BY DEF Capture!TemplateKeys, Capture!TemplateValues, Capture!AvailableRequestKeys
<1>3. CapInv => Capture!TemplatesPromised
  <2> SUFFICES ASSUME CapInv, NEW type \in Capture!RequestTemplates,
                      NEW md, md = Capture!ConstructDefaultRequestSettings(captureFormats, type),
                      md # Capture!None
               PROVE  /\ md.fps \in Capture!FpsRanges(captureFormats)
                      /\ md.keys \subseteq Capture!AvailableRequestKeys
    BY <1>1 DEF Capture!TemplatesPromised
  <2>1. md = Capture!DefaultRequest(captureFormats, type)
    BY DEF Capture!ConstructDefaultRequestSettings
  <2>2. md.fps = Capture!DefaultRange(Capture!DefaultFps(captureFormats))
        /\ md.keys = Capture!TemplateKeys
    BY <2>1 DEF Capture!DefaultRequest
  <2> QED
    BY <1>2, <2>2, RatesPromised DEF CapInv, CapTypes
<1>4. CapInv => CapturesRight
  BY <1>3 DEF CapInv, CapturesRight, Capture!CapturesRight
<1> QED
  BY <1>4, CapInvHolds, PTL

---------------------------------------------------------------------------
(* The types of the modem's parts, and of those of ServicesProofs. *)

\* A thread that reports has made no more calls than failed ones were counted.
ExpTypes ==
  /\ Exp!TypeOK
  /\ expClients \in Nat
  /\ expPc = "triger" => tries <= retry_num /\ tries <= 5

LEMMA ExpTypesInit == ASSUME Exp!Init PROVE ExpTypes
BY DEF Exp!Init, ExpTypes, Exp!TypeOK, Exp!NoReport

LEMMA OutsideTyped ==
  ASSUME ExpTypes, Exp!ClientDies \/ Exp!ModemToggles \/ Exp!DaemonToggles \/ Exp!DaemonSays
                     \/ Exp!ConfigChanges
  PROVE  ExpTypes'
<1>1. /\ UNCHANGED <<watched, expCallback, sem, expPc, report, retry_num, fd, readable, expClients, tries>>
      /\ living' \in {0, living}
  BY DEF Exp!ClientDies, Exp!ModemToggles, Exp!DaemonToggles, Exp!DaemonSays, Exp!ConfigChanges,
     Exp!procVars
<1> QED
  BY <1>1 DEF ExpTypes, Exp!TypeOK, Exp!NoReport

LEMMA CallbackTyped == ASSUME ExpTypes, Exp!SetCallback PROVE ExpTypes'
BY DEF Exp!SetCallback, ExpTypes, Exp!TypeOK, Exp!NoReport

\* A thread that goes on, or makes a report of what it has found.
LEMMA ThreadTyped ==
  ASSUME ExpTypes, expPc # "triger",
         UNCHANGED <<watched, expClients, living>>,
         expCallback' \in {0, expCallback}, sem' \in Nat, retry_num' \in Nat,
         fd' \cup readable' \subseteq Exp!Daemons,
         \/ expPc' # "triger" /\ UNCHANGED <<report, tries>>
         \/ expPc' = "triger" /\ tries' = 0 /\ report'.what # "none"
  PROVE  ExpTypes'
<1>1. report'.what # "none" => report' # Exp!NoReport
  BY DEF Exp!NoReport
<1> QED
  BY <1>1 DEF ExpTypes, Exp!TypeOK, Exp!NoReport

LEMMA TriggerTyped == ASSUME ExpTypes, Exp!Trigger PROVE ExpTypes'
<1>1. /\ expPc = "triger" /\ tries' = tries + 1 /\ retry_num' \in {retry_num, retry_num + 1}
      /\ UNCHANGED <<watched, expCallback, sem, fd, readable, living, expClients>>
  BY DEF Exp!Trigger, Exp!worldVars
<1>2. \/ expPc' = Exp!After(report.what) /\ report' = Exp!NoReport
      \/ UNCHANGED <<expPc, report>> /\ retry_num < 5 /\ retry_num' = retry_num + 1
  BY DEF Exp!Trigger, Exp!Concluded
<1>3. Exp!After(report.what) # "triger"
  <2>1. Exp!After(report.what) \in {"PROCESSIMEI", "select", "read", "poll", "done"}
    BY Zenon DEF Exp!After
  <2> QED
    BY <2>1
<1>4. tries \in 0..5 /\ retry_num \in Nat /\ tries <= retry_num
  BY <1>1 DEF ExpTypes, Exp!TypeOK
<1> QED
  BY <1>1, <1>2, <1>3, <1>4 DEF ExpTypes, Exp!TypeOK, Exp!NoReport

LEMMA ExpTypesStep == ASSUME ExpTypes, Exp!Next PROVE ExpTypes'
<1> USE DEF Exp!At, Exp!Rest, Exp!NoSocket, Exp!GoOn, Exp!Reports, Exp!worldVars
<1>1. CASE Exp!Start \/ Exp!SemWait
  BY <1>1, ThreadTyped DEF Exp!Start, Exp!SemWait, ExpTypes, Exp!TypeOK
<1>2. CASE Exp!ModemPrepared \/ Exp!AskModem \/ Exp!GetModemVer
  BY <1>2, ThreadTyped
  DEF Exp!ModemPrepared, Exp!AskModem, Exp!IfModemAlive, Exp!GetModemVer, ExpTypes, Exp!TypeOK
<1>3. CASE Exp!ProcessImei
  BY <1>3, ThreadTyped DEF Exp!ProcessImei, Exp!ResetRetries, ExpTypes, Exp!TypeOK
<1>4. CASE Exp!WcnExecute \/ Exp!GpsExecute
  BY <1>4, ThreadTyped DEF Exp!WcnExecute, Exp!GpsExecute, ExpTypes, Exp!TypeOK
<1>5. CASE Exp!ConnectModemd
  BY <1>5, ThreadTyped DEF Exp!ConnectModemd, Exp!Daemons, ExpTypes, Exp!TypeOK
<1>6. CASE Exp!ConnectWcnd
  BY <1>6, ThreadTyped DEF Exp!ConnectWcnd, Exp!Daemons, ExpTypes, Exp!TypeOK
<1>7. CASE Exp!Select
  <2>1. readable' \subseteq fd /\ UNCHANGED fd /\ expPc = "select" /\ expPc' = "read"
        /\ UNCHANGED <<watched, expClients, living, expCallback, sem, retry_num, report, tries>>
    BY <1>7 DEF Exp!Select
  <2> QED
    BY <2>1, ThreadTyped DEF ExpTypes, Exp!TypeOK
<1>8. CASE Exp!Read
  <2>1. /\ fd' \subseteq fd /\ readable' \subseteq readable /\ retry_num' \in {0, retry_num}
        /\ expPc = "read" /\ UNCHANGED <<watched, expClients, living, expCallback, sem>>
    BY <1>8 DEF Exp!Read
  <2>2. \/ expPc' \in {"work", "select", "read"} /\ UNCHANGED <<report, tries>>
        \/ expPc' = "triger" /\ tries' = 0 /\ report'.what = "exception"
    BY <1>8 DEF Exp!Read
  <2> QED
    BY <2>1, <2>2, ThreadTyped DEF ExpTypes, Exp!TypeOK
<1>9. CASE Exp!ReadConfig
  BY <1>9, ThreadTyped DEF Exp!ReadConfig, ExpTypes, Exp!TypeOK
<1> QED
  BY <1>1, <1>2, <1>3, <1>4, <1>5, <1>6, <1>7, <1>8, <1>9, OutsideTyped, CallbackTyped, TriggerTyped
  DEF Exp!Next

LEMMA ExpTypesHold == SuiteSpec => []ExpTypes
<1>1. SuiteInit => ExpTypes
  BY ExpTypesInit DEF SuiteInit
<1>2. ExpTypes /\ [SuiteNext]_suiteVars => ExpTypes'
  <2>1. [SuiteNext]_suiteVars => Exp!Next \/ UNCHANGED expVars
    BY DEF SuiteNext, Still, suiteVars
  <2>2. ExpTypes /\ UNCHANGED expVars => ExpTypes'
    BY DEF expVars, ExpTypes, Exp!TypeOK, Exp!NoReport
  <2> QED
    BY <2>1, <2>2, ExpTypesStep
<1> QED
  BY <1>1, <1>2, PTL DEF SuiteSpec

LEMMA ConnTyped == ASSUME ConnInv PROVE Conn!TypeOK
<1>1. /\ DOMAIN kind = 1..Len(kind) /\ DOMAIN conn = 1..Len(kind) /\ DOMAIN connTold = 1..Len(kind)
      /\ Len(kind) \in Nat /\ Len(kind) <= MaxHandlers
  BY DEF ConnInv, ConnTypes
<1>2. Conn!Created \subseteq Conn!Handlers
  BY <1>1, Bounds DEF Conn!Created, Conn!Handlers
<1>3. misused \subseteq gone
  BY DEF ConnInv, ConnDone
<1> QED
  BY <1>1, <1>2, <1>3 DEF ConnInv, ConnTypes, Conn!TypeOK, Conn!Created

\* What is shown of the other services contains their types.
LEMMA GnssTyped == ASSUME GnssInv PROVE Gnss!TypeOK
BY DEF GnssInv, GnssTypes, Gnss!TypeOK

LEMMA FaceFits == ASSUME FaceInv PROVE Face!TypeOK
BY DEF FaceInv, FaceTypes, Face!TypeOK

\* Who is registered does not change.
Registered ==
  service \in {"1.0", "2.0"} /\ registered \subseteq Reports!Versions /\ measuring \subseteq Reports!Versions
SameRegistered == UNCHANGED <<service, registered, measuring>>

LEMMA RegisteredStays == Reports!Next => SameRegistered
<1>1. \A r, sent_ : Reports!Report(r, sent_) => SameRegistered
  BY DEF Reports!Report, SameRegistered
<1>2. Reports!OldSatellites => SameRegistered
  BY Zenon, <1>1 DEF Reports!OldSatellites
<1>3. \A x : Reports!NewSatellites(x) => SameRegistered
  BY Zenon, <1>1 DEF Reports!NewSatellites
<1>4. \A svc, what : Reports!PassedOn(svc, what) => SameRegistered
  BY Zenon, <1>1 DEF Reports!PassedOn
<1>5. \A svc : Reports!OldMeasurement(svc) => SameRegistered
  BY Zenon, <1>1 DEF Reports!OldMeasurement
<1>6. \A svc : Reports!BatchReport(svc) => SameRegistered
  BY Zenon, <1>1 DEF Reports!BatchReport
<1>7. Reports!LocationCb \/ Reports!GnssExtLocationCb => SameRegistered
  BY Zenon, <1>1 DEF Reports!LocationCb, Reports!GnssExtLocationCb
<1>8. Reports!GnssMeasurementCbs \/ Reports!GnssExtGnssMeasurementCb => SameRegistered
  BY Zenon, <1>1 DEF Reports!GnssMeasurementCbs, Reports!GnssExtGnssMeasurementCb
<1> QED
  BY Zenon, <1>2, <1>3, <1>4, <1>5, <1>6, <1>7, <1>8
  DEF Reports!Next, Reports!GpsSvStatusCb, Reports!GnssSvStatusCb, Reports!StatusCb, Reports!NmeaCb,
      Reports!RequestUtcTimeCb, Reports!SetSystemInfoCb, Reports!GpsMeasurementCb,
      Reports!BatchLocationCb, Reports!GnssExtGpsSvStatusCb, Reports!GnssExtGnssSvStatusCb,
      Reports!GnssExtStatusCb, Reports!GnssExtNmeaCb, Reports!GnssExtRequestUtcTimeCb,
      Reports!GnssExtSetSystemInfoCb, Reports!GnssNavigationMessageCb,
      Reports!GnssExtGnssNavigationMessageCb, Reports!GnssExtGpsMeasurementCb,
      Reports!GnssExtBatchLocationCb

LEMMA RegisteredHolds == SuiteSpec => []Registered
<1>1. SuiteInit => Registered
  <2>1. SuiteInit => Reports!Init
    BY DEF SuiteInit
  <2> QED
    BY <2>1 DEF Reports!Init, Registered, Reports!Versions
<1>2. Registered /\ [SuiteNext]_suiteVars => Registered'
  <2>1. [SuiteNext]_suiteVars => Reports!Next \/ UNCHANGED reportVars
    BY DEF SuiteNext, Still, suiteVars
  <2> QED
    BY <2>1, RegisteredStays DEF SameRegistered, Registered, reportVars
<1> QED
  BY <1>1, <1>2, PTL DEF SuiteSpec

LEMMA ReportsTyped == ASSUME ReportInv, Registered PROVE Reports!TypeOK
BY DEF ReportInv, Counted, Registered, Reports!TypeOK

ExtTypes ==
  /\ implemented \in BOOLEAN /\ extRunning \in Frameworks
  /\ {extCb, extLatest} \subseteq Frameworks \cup {0}
  /\ mBlacklistedConstellationSet \subseteq Constellations
  /\ DOMAIN extFences \subseteq Fences
  /\ extCalls \in 0..MaxExtCalls /\ extReports \in 0..MaxExtReports

\* What a step leaves alone; and its counters.
ExtKept ==
  /\ UNCHANGED <<implemented, extRunning>>
  /\ extCalls' = extCalls \/ (extCalls < MaxExtCalls /\ extCalls' = extCalls + 1)
  /\ extReports' = extReports \/ (extReports < MaxExtReports /\ extReports' = extReports + 1)

LEMMA ExtKeptTyped ==
  ASSUME ExtTypes, ExtKept, {extCb', extLatest'} \subseteq {extCb, extLatest, extRunning},
         mBlacklistedConstellationSet' \subseteq Constellations, DOMAIN extFences' \subseteq Fences
  PROVE  ExtTypes'
<1>1. extCalls' \in 0..MaxExtCalls /\ extReports' \in 0..MaxExtReports
  BY Bounds DEF ExtTypes, ExtKept
<1> QED
  BY <1>1 DEF ExtTypes, ExtKept

LEMMA ExtTypesInit == ASSUME Ext!Init PROVE ExtTypes
<1>1. DOMAIN extFences = {}
  BY DEF Ext!Init
<1> QED
  BY <1>1, Bounds, FrameworksAssumption DEF Ext!Init, Ext!Nobody, ExtTypes

LEMMA WholeTyped == ASSUME NEW list \in Blacklists PROVE Ext!Whole(list) \subseteq Constellations
<1>1. list \in Seq(Constellations \X Int)
  BY BlacklistsAssumption
<1>2. \A i \in DOMAIN list : list[i][1] \in Constellations
  BY <1>1
<1> QED
  BY <1>2 DEF Ext!Whole

LEMMA ExtTypesStep == ASSUME ExtTypes, Ext!Next PROVE ExtTypes'
<1> USE DEF Ext!Called, Ext!Used, Ext!stays, Ext!cbVars, Ext!listVars
<1>1. ASSUME NEW rel, NEW k, Ext!Extension(rel, k) \/ Ext!NoExtension(rel, k) PROVE ExtTypes'
  <2>1. ExtKept /\ UNCHANGED <<extCb, extLatest, mBlacklistedConstellationSet, extFences>>
    BY <1>1 DEF Ext!Extension, Ext!NoExtension, ExtKept
  <2> QED
    BY <2>1, ExtKeptTyped DEF ExtTypes
<1>2. ASSUME NEW k, NEW what, Ext!Report(k, what) PROVE ExtTypes'
  <2>1. ExtKept /\ UNCHANGED <<extCb, extLatest, mBlacklistedConstellationSet, extFences>>
    BY <1>2 DEF Ext!Report, ExtKept
  <2> QED
    BY <2>1, ExtKeptTyped DEF ExtTypes
<1>3. ASSUME NEW k, NEW what, NEW answer, Ext!Passed(k, what, answer) PROVE ExtTypes'
  <2>1. ExtKept /\ UNCHANGED <<extCb, extLatest, mBlacklistedConstellationSet, extFences>>
    BY <1>3 DEF Ext!Passed, ExtKept
  <2> QED
    BY <2>1, ExtKeptTyped DEF ExtTypes
<1>4. CASE Ext!IsInEmergencySessionCb \/ Ext!SetCorrections
  <2>1. ExtKept /\ UNCHANGED <<extCb, extLatest, mBlacklistedConstellationSet, extFences>>
    BY <1>4 DEF Ext!IsInEmergencySessionCb, Ext!SetCorrections, ExtKept
  <2> QED
    BY <2>1, ExtKeptTyped DEF ExtTypes
<1>5. CASE Ext!AddGeofence \/ Ext!PauseGeofence \/ Ext!ResumeGeofence \/ Ext!RemoveGeofence
  <2>1. ExtKept /\ UNCHANGED <<extCb, extLatest, mBlacklistedConstellationSet>>
    BY <1>5 DEF Ext!AddGeofence, Ext!PauseGeofence, Ext!ResumeGeofence, Ext!RemoveGeofence, ExtKept
  <2>2. DOMAIN extFences' \subseteq DOMAIN extFences \cup Fences
    <3>1. CASE Ext!AddGeofence
      BY <3>1 DEF Ext!AddGeofence
    <3>2. CASE Ext!PauseGeofence
      BY <3>2 DEF Ext!PauseGeofence
    <3>3. CASE Ext!ResumeGeofence
      BY <3>3 DEF Ext!ResumeGeofence
    <3>4. CASE Ext!RemoveGeofence
      BY <3>4 DEF Ext!RemoveGeofence
    <3> QED
      BY <1>5, <3>1, <3>2, <3>3, <3>4
  <2> QED
    BY <2>1, <2>2, ExtKeptTyped DEF ExtTypes
<1>6. CASE Ext!SetCallback
  <2>1. /\ ExtKept /\ UNCHANGED <<mBlacklistedConstellationSet, extFences>>
        /\ extCb' = extRunning /\ extLatest' = extRunning
    BY <1>6 DEF Ext!SetCallback, ExtKept
  <2> QED
    BY <2>1, ExtKeptTyped DEF ExtTypes
<1>7. CASE Ext!SetBlacklist
  <2>1. ExtKept /\ UNCHANGED <<extCb, extLatest, extFences>>
    BY <1>7 DEF Ext!SetBlacklist, ExtKept
  <2>2. mBlacklistedConstellationSet' \subseteq Constellations
    BY <1>7, WholeTyped DEF Ext!SetBlacklist
  <2> QED
    BY <2>1, <2>2, ExtKeptTyped DEF ExtTypes
<1>8. CASE Ext!Die
  BY <1>8 DEF Ext!Die, ExtTypes
<1> QED
  BY <1>1, <1>2, <1>3, <1>4, <1>5, <1>6, <1>7, <1>8, ExtKindsOfStep

LEMMA ExtTypesHold == SuiteSpec => []ExtTypes
<1>1. SuiteInit => ExtTypes
  BY ExtTypesInit DEF SuiteInit
<1>2. ExtTypes /\ [SuiteNext]_suiteVars => ExtTypes'
  <2>1. [SuiteNext]_suiteVars => Ext!Next \/ UNCHANGED extVars
    BY DEF SuiteNext, Still, suiteVars
  <2>2. ExtTypes /\ UNCHANGED extVars => ExtTypes'
    BY DEF extVars, ExtTypes
  <2> QED
    BY <2>1, <2>2, ExtTypesStep
<1> QED
  BY <1>1, <1>2, PTL DEF SuiteSpec

LEMMA ExtensionsTyped == ASSUME ExtInv, ExtTypes PROVE Ext!TypeOK
<1>1. {extMade, extHanded} \subseteq 0..2
  <2>1. extMade \in Nat /\ extMade <= 1 /\ extHanded \in Nat /\ extHanded <= extMade
    BY Zenon DEF ExtInv, ExtInstances
  <2>2. extMade \in 0..2 /\ extHanded \in 0..2
    BY <2>1
  <2> QED
    BY <2>2, Zenon
<1>2. {extCb, extLatest} \subseteq Frameworks \cup {Ext!Nobody}
  BY Zenon DEF ExtTypes, Ext!Nobody
<1> QED
  BY <1>1, <1>2, Zenon DEF ExtTypes, Ext!TypeOK

\* The receiver's numbers have the widths of the driver's.
Hz == 0..65535
ChipLimits(c) ==
  {"rssi_th", "hbound"} \subseteq DOMAIN c /\ c.rssi_th \in 0..255 /\ c.hbound \in Hz

FmSwitches == fmOpened \in BOOLEAN /\ scan_stop \in BOOLEAN /\ settled \in BOOLEAN
FmCounts   == fmCalls \in 0..MaxFmCalls /\ extras \in 0..MaxExtras /\ fmErrors \in 0..MaxErrors
RdsList    == "af" \in DOMAIN rds /\ rds.af \in AfLists \cup {<<>>}

FmTypes ==
  bridge \in {"jni", "hal"} /\ FmSwitches /\ cur_freq \in Hz /\ ChipLimits(chip) /\ RdsList /\ FmCounts

LEMMA HzIs == 0..(2^16 - 1) = Hz
<1> DEFINE e == 2^16
<1>1. e = 65536
  OBVIOUS
<1> HIDE DEF e
<1>2. 0..(e - 1) = Hz
  BY <1>1 DEF Hz
<1> QED
  BY <1>2, Zenon DEF e

LEMMA ListsInHz == Stations \subseteq Hz /\ AfLists \subseteq Seq(Hz) /\ Thresholds \subseteq Int
BY HzIs, FrequenciesAssumption, Zenon

LEMMA InHz ==
  /\ 0 \in Hz /\ 875 \in Hz /\ 1090 \in Hz /\ Stations \subseteq Hz /\ AfLists \subseteq Seq(Hz)
  /\ Thresholds \subseteq Int
<1>1. 0 \in Hz
  BY DEF Hz
<1>2. 875 \in Hz
  BY DEF Hz
<1>3. 1090 \in Hz
  BY DEF Hz
<1> QED
  BY <1>1, <1>2, <1>3, ListsInHz

LEMMA RemainderIs == ASSUME NEW t \in Int, NEW n \in Nat \ {0} PROVE t % n \in 0..(n - 1)
OBVIOUS

\* A step counts calls and failures up to their bounds.
Counts ==
  /\ fmCalls' = fmCalls \/ (fmCalls < MaxFmCalls /\ fmCalls' = fmCalls + 1)
  /\ extras' = extras \/ (extras < MaxExtras /\ extras' = extras + 1)
  /\ fmErrors' = fmErrors \/ (fmErrors < MaxErrors /\ fmErrors' = fmErrors + 1)

LEMMA CountsTyped == ASSUME FmCounts, Counts PROVE FmCounts'
BY Bounds DEF FmCounts, Counts

LEMMA FmTypesInit == ASSUME Fm!Init PROVE FmTypes
<1>1. ChipLimits(chip)
  <2>1. chip.rssi_th = 0 /\ chip.hbound = 0 /\ {"rssi_th", "hbound"} \subseteq DOMAIN chip
    BY DEF Fm!Init
  <2> QED
    BY <2>1, InHz DEF ChipLimits
<1>2. RdsList
  BY DEF Fm!Init, RdsList
<1>3. FmSwitches /\ FmCounts
  <2>1. FmSwitches
    <3>1. fmOpened = FALSE /\ scan_stop = FALSE /\ settled = FALSE
      BY DEF Fm!Init
    <3> QED
      BY <3>1 DEF FmSwitches
  <2>2. FmCounts
    <3>1. fmCalls = 0 /\ extras = 0 /\ fmErrors = 0
      BY DEF Fm!Init
    <3> QED
      BY <3>1, Bounds DEF FmCounts
  <2> QED
    BY <2>1, <2>2
<1> QED
  BY <1>1, <1>2, <1>3, InHz DEF Fm!Init, FmTypes

\* A step that counts, and changes other settings than limits.
\* A step counts, leaves the chip's limits alone, and sets others of the receiver's values.
LEMMA FmTyped ==
  ASSUME FmTypes, Counts, ChipLimits(chip'), bridge' = bridge,
         fmOpened' = fmOpened \/ fmOpened' \in BOOLEAN,
         scan_stop' = scan_stop \/ scan_stop' \in BOOLEAN,
         settled' = settled \/ settled' \in BOOLEAN,
         cur_freq' = cur_freq \/ cur_freq' \in Hz,
         rds' = rds \/ RdsList'
  PROVE  FmTypes'
<1>1. FmSwitches'
  <2>1. fmOpened \in BOOLEAN /\ scan_stop \in BOOLEAN /\ settled \in BOOLEAN
    BY DEF FmTypes, FmSwitches
  <2>2. fmOpened' \in BOOLEAN /\ scan_stop' \in BOOLEAN /\ settled' \in BOOLEAN
    BY <2>1
  <2> QED
    BY <2>2 DEF FmSwitches
<1>2. FmCounts'
  BY CountsTyped DEF FmTypes
<1>3. cur_freq' \in Hz
  BY DEF FmTypes
<1>4. RdsList'
  BY DEF FmTypes, RdsList
<1> QED
  BY <1>1, <1>2, <1>3, <1>4 DEF FmTypes

LEMMA BestTyped == ASSUME RdsList PROVE Fm!COM_active_af \in Hz
<1> DEFINE af == rds.af
           A == Fm!Alternatives
           n == Len(af)
           level(i) == IF af[i] = 0 THEN 0 ELSE Pamd[af[i]]
           g == [i \in 1..n |-> level(i)]
           Best(i) == \A j \in A : \/ Pamd[af[i]] > Pamd[af[j]]
                                  \/ (Pamd[af[i]] = Pamd[af[j]] /\ i <= j)
<1>1. af \in Seq(Hz)
  <2>1. <<>> \in Seq(Hz)
    OBVIOUS
  <2> QED
    BY <2>1, ListsInHz, Zenon DEF RdsList
<1>2. n \in Nat /\ DOMAIN af = 1..n /\ \A i \in 1..n : af[i] \in Hz
  BY <1>1
<1>3. \A i \in 1..n : af[i] # 0 => Pamd[af[i]] \in Nat
  <2>1. CASE af \in AfLists
    BY <1>2, <2>1, LevelsAssumption
  <2>2. CASE af = <<>>
    BY <1>2, <2>2
  <2> QED
    BY <2>1, <2>2 DEF RdsList
<1>4. g \in [1..n -> Nat]
  BY <1>3
<1>5. PICK b \in Nat : \A i \in 1..n : g[i] <= b
  <2> HIDE DEF g
  <2> QED
    BY <1>2, <1>4, BoundedList
<1>6. A \subseteq 1..n /\ \A i \in A : af[i] # 0
  BY <1>2 DEF Fm!Alternatives
<1>7. \A i \in A : Pamd[af[i]] \in Nat /\ Pamd[af[i]] <= b
  BY <1>3, <1>5, <1>6
<1> HIDE DEF af, A, n, g, level
<1>8. ASSUME A # {} PROVE \E i \in A : Best(i)
  <2> DEFINE V == {Pamd[af[i]] : i \in A}
  <2>1. V \in SUBSET Nat /\ V # {} /\ \A v \in V : v <= b
    BY <1>7, <1>8
  <2> HIDE DEF V
  <2>2. PICK v \in V : \A w \in V : w <= v
    BY <2>1, GreatestBelow
  <2> DEFINE B == {i \in A : Pamd[af[i]] = v}
  <2>3. B \in SUBSET Nat /\ B # {}
    <3>1. A \subseteq Nat
      BY <1>2, <1>6
    <3>2. PICK i \in A : v = Pamd[af[i]]
      BY <2>2 DEF V
    <3> QED
      BY <3>1, <3>2
  <2> HIDE DEF B
  <2>4. PICK i \in B : \A j \in B : i <= j
    BY <2>3, LeastOne
  <2>5. ASSUME NEW j \in A
        PROVE  Pamd[af[i]] > Pamd[af[j]] \/ (Pamd[af[i]] = Pamd[af[j]] /\ i <= j)
    <3>1. Pamd[af[j]] \in Nat /\ Pamd[af[j]] <= v /\ v \in Nat
      BY <1>7, <2>1, <2>2 DEF V
    <3>2. Pamd[af[i]] = v /\ i \in A
      BY DEF B
    <3>3. Pamd[af[j]] = v => i <= j
      BY <2>4 DEF B
    <3> QED
      BY <3>1, <3>2, <3>3
  <2>6. i \in A
    BY DEF B
  <2> QED
    BY <2>5, <2>6
<1>9. Fm!BestAlternative = IF A = {} THEN 0 ELSE af[CHOOSE i \in A : Best(i)]
  BY Zenon DEF Fm!BestAlternative, A, af
<1> HIDE DEF Best
<1>10. Fm!BestAlternative \in Hz
  <2>1. CASE A = {}
    BY <1>9, <2>1, InHz
  <2>2. CASE A # {}
    <3>1. (CHOOSE i \in A : Best(i)) \in A
      BY <1>8, <2>2
    <3> QED
      BY <1>2, <1>6, <1>9, <2>2, <3>1
  <2> QED
    BY <2>1, <2>2
<1> QED
  BY <1>10, InHz DEF Fm!COM_active_af

\* The driver takes the frequency or does not; it is remembered.
TurnedOn == chip' = chip \/ \E w : chip' = [chip EXCEPT !.on = TRUE, !.freq = w]

PoweredUp(freq) ==
  /\ TurnedOn
  /\ cur_freq' = freq /\ settled' = FALSE
  /\ fmErrors' = fmErrors \/ (fmErrors < MaxErrors /\ fmErrors' = fmErrors + 1)

LEMMA OnLimits == ASSUME TurnedOn, ChipLimits(chip) PROVE ChipLimits(chip')
<1>1. CASE chip' = chip
  BY <1>1
<1>2. CASE \E w : chip' = [chip EXCEPT !.on = TRUE, !.freq = w]
  BY <1>2, Zenon DEF ChipLimits
<1> QED
  BY <1>1, <1>2, Zenon DEF TurnedOn

LEMMA PoweringTyped ==
  ASSUME FmTypes, NEW freq \in Hz, PoweredUp(freq),
         UNCHANGED <<bridge, fmOpened, scan_stop, rds, fmCalls, extras>>
  PROVE  FmTypes'
<1>1. Counts
  BY DEF PoweredUp, Counts
<1>2. ChipLimits(chip')
  <2>1. ChipLimits(chip)
    BY Zenon DEF FmTypes
  <2>2. TurnedOn
    BY Zenon DEF PoweredUp
  <2> QED
    BY <2>1, <2>2, OnLimits, Zenon
<1>3. settled' = FALSE /\ cur_freq' = freq
  BY Zenon DEF PoweredUp
<1> QED
  BY <1>1, <1>2, <1>3, FmTyped

LEMMA PowersUp ==
  ASSUME NEW freq, Fm!FMR_pwr_up(freq)
  PROVE  UNCHANGED <<chip, cur_freq, settled, fmErrors>> \/ PoweredUp(freq)
<1> DEFINE Beyond == freq < cfg_data.low_band \/ freq > cfg_data.high_band
<1>1. CASE Beyond
  BY <1>1 DEF Fm!FMR_pwr_up
<1>2. CASE ~Beyond
  <2>1. PICK ok \in BOOLEAN : Fm!COM_pwr_up(ok, freq) /\ cur_freq' = freq /\ settled' = FALSE
    BY <1>2, Zenon DEF Fm!FMR_pwr_up
  <2>2. fmErrors' = fmErrors \/ (fmErrors < MaxErrors /\ fmErrors' = fmErrors + 1)
    BY <2>1 DEF Fm!COM_pwr_up, Fm!Ioctl
  <2>3. TurnedOn
    BY <2>1, Zenon DEF Fm!COM_pwr_up, Fm!Ioctl, TurnedOn
  <2> QED
    BY <2>1, <2>2, <2>3, Zenon DEF PoweredUp
<1> QED
  BY <1>1, <1>2

LEMMA PowerTyped ==
  ASSUME FmTypes, Fm!OpenDev \/ Fm!CloseDev \/ Fm!NativePowerUp \/ Fm!NativePowerDown \/ Fm!Tune
  PROVE  FmTypes'
<1> USE DEF Fm!Call, Fm!Uncounted, Fm!Ioctl
<1>1. CASE Fm!OpenDev
  <2>1. UNCHANGED <<bridge, scan_stop, settled, cur_freq, rds>>
    BY <1>1 DEF Fm!OpenDev, Fm!COM_open_dev
  <2>2. Counts
    BY <1>1 DEF Fm!OpenDev, Fm!COM_open_dev, Counts
  <2>3. chip' = chip
    BY <1>1 DEF Fm!OpenDev, Fm!COM_open_dev
  <2>4. ChipLimits(chip')
    BY <2>3 DEF FmTypes, ChipLimits
  <2>5. fmOpened' \in BOOLEAN
    BY <1>1 DEF Fm!OpenDev, Fm!COM_open_dev
  <2> QED
    BY <2>1, <2>2, <2>4, <2>5, FmTyped
<1>2. CASE Fm!CloseDev
  <2>1. UNCHANGED <<bridge, scan_stop, settled, cur_freq, rds>>
    BY <1>2 DEF Fm!CloseDev
  <2>2. Counts
    BY <1>2 DEF Fm!CloseDev, Counts
  <2>3. chip' = chip
    BY <1>2 DEF Fm!CloseDev
  <2>4. ChipLimits(chip')
    BY <2>3 DEF FmTypes, ChipLimits
  <2>5. fmOpened' \in BOOLEAN
    BY <1>2 DEF Fm!CloseDev
  <2> QED
    BY <2>1, <2>2, <2>4, <2>5, FmTyped
<1>3. CASE Fm!NativePowerUp
  <2>1. UNCHANGED <<bridge, fmOpened, scan_stop, rds, fmCalls, extras>>
    BY <1>3 DEF Fm!NativePowerUp
  <2>2. PICK freq \in Hz : Fm!FMR_pwr_up(freq)
    BY <1>3, InHz DEF Fm!NativePowerUp
  <2>5. UNCHANGED <<chip, cur_freq, settled, fmErrors>> \/ PoweredUp(freq)
    BY <2>2, PowersUp
  <2>3. CASE UNCHANGED <<chip, cur_freq, settled, fmErrors>>
    <3>1. Counts /\ ChipLimits(chip')
      BY <2>1, <2>3 DEF Counts, FmTypes, ChipLimits
    <3> QED
      BY <2>1, <2>3, <3>1, FmTyped
  <2>4. CASE PoweredUp(freq)
    BY <2>1, <2>2, <2>4, PoweringTyped
  <2> QED
    BY <2>3, <2>4, <2>5
<1>4. CASE Fm!NativePowerDown
  <2>1. UNCHANGED <<bridge, fmOpened, scan_stop, settled, cur_freq, rds>>
    BY <1>4 DEF Fm!NativePowerDown, Fm!COM_pwr_down
  <2>2. Counts
    BY <1>4 DEF Fm!NativePowerDown, Fm!COM_pwr_down, Counts
  <2>3. chip' = chip \/ \E v : chip' = [chip EXCEPT !.on = v]
    BY <1>4, Zenon DEF Fm!NativePowerDown, Fm!COM_pwr_down
  <2>4. ChipLimits(chip')
    BY <2>3 DEF FmTypes, ChipLimits
  <2> QED
    BY <2>1, <2>2, <2>4, FmTyped
<1>5. CASE Fm!Tune
  <2>1. UNCHANGED <<bridge, fmOpened, scan_stop, rds>>
    BY <1>5 DEF Fm!Tune, Fm!FMR_tune, Fm!COM_tune, Fm!CurFreqAfterTune
  <2>2. Counts
    BY <1>5 DEF Fm!Tune, Fm!FMR_tune, Fm!COM_tune, Fm!CurFreqAfterTune, Counts
  <2>3. chip' = chip \/ \E v : chip' = [chip EXCEPT !.freq = v]
    BY <1>5, Zenon DEF Fm!Tune, Fm!FMR_tune, Fm!COM_tune, Fm!CurFreqAfterTune
  <2>4. ChipLimits(chip')
    BY <2>3 DEF FmTypes, ChipLimits
  <2>5. settled' \in BOOLEAN
    BY <1>5 DEF Fm!Tune, Fm!FMR_tune, Fm!COM_tune, Fm!CurFreqAfterTune
  <2>6. cur_freq' \in Hz
    BY <1>5, InHz DEF Fm!Tune, Fm!FMR_tune, Fm!COM_tune, Fm!CurFreqAfterTune, FmTypes
  <2> QED
    BY <2>1, <2>2, <2>4, <2>5, <2>6, FmTyped
<1> QED
  BY <1>1, <1>2, <1>3, <1>4, <1>5

LEMMA SearchTyped ==
  ASSUME FmTypes,
              Fm!Seek \/ Fm!AutoScan \/ Fm!ScanStopped \/ Fm!ScanSeek \/ Fm!ScanEnds
           \/ Fm!ScanAnswers \/ Fm!StopScan
  PROVE  FmTypes'
<1> USE DEF Fm!Call, Fm!Ioctl, Fm!TunesBack
<1>1. CASE Fm!Seek
  <2>1. UNCHANGED <<bridge, fmOpened, settled, cur_freq, rds>>
    BY <1>1 DEF Fm!Seek
  <2>2. Counts
    BY <1>1 DEF Fm!Seek, Counts
  <2>3. chip' = chip \/ \E v, w : chip' = [chip EXCEPT !.mute = v, !.freq = w]
    BY <1>1, Zenon DEF Fm!Seek
  <2>4. ChipLimits(chip')
    BY <2>3, Zenon DEF FmTypes, ChipLimits
  <2>5. scan_stop' = scan_stop \/ scan_stop' \in BOOLEAN
    BY <1>1 DEF Fm!Seek
  <2> QED
    BY <2>1, <2>2, <2>4, <2>5, FmTyped
<1>2. CASE Fm!AutoScan
  <2>1. UNCHANGED <<bridge, fmOpened, settled, cur_freq, rds>>
    BY <1>2 DEF Fm!AutoScan
  <2>2. Counts
    BY <1>2 DEF Fm!AutoScan, Counts
  <2>3. chip' = chip \/ \E v : chip' = [chip EXCEPT !.searching = v]
    BY <1>2, Zenon DEF Fm!AutoScan
  <2>4. ChipLimits(chip')
    BY <2>3 DEF FmTypes, ChipLimits
  <2>5. scan_stop' \in BOOLEAN
    BY <1>2 DEF Fm!AutoScan
  <2> QED
    BY <2>1, <2>2, <2>4, <2>5, FmTyped
<1>3. CASE Fm!ScanStopped
  <2>1. UNCHANGED <<bridge, fmOpened, scan_stop, settled, cur_freq, rds>>
    BY <1>3 DEF Fm!ScanStopped
  <2>2. Counts
    BY <1>3 DEF Fm!ScanStopped, Counts
  <2>3. chip' = chip \/ \E v, w : chip' = [chip EXCEPT !.searching = v, !.freq = w]
    BY <1>3, Zenon DEF Fm!ScanStopped
  <2>4. ChipLimits(chip')
    BY <2>3, Zenon DEF FmTypes, ChipLimits
  <2> QED
    BY <2>1, <2>2, <2>4, FmTyped
<1>4. CASE Fm!ScanSeek
  <2>1. UNCHANGED <<bridge, fmOpened, scan_stop, settled, cur_freq, rds>>
    BY <1>4 DEF Fm!ScanSeek
  <2>2. Counts
    BY <1>4 DEF Fm!ScanSeek, Counts
  <2>3. chip' = chip \/ \E v : chip' = [chip EXCEPT !.freq = v]
    BY <1>4, Zenon DEF Fm!ScanSeek
  <2>4. ChipLimits(chip')
    BY <2>3 DEF FmTypes, ChipLimits
  <2> QED
    BY <2>1, <2>2, <2>4, FmTyped
<1>5. CASE Fm!ScanEnds
  <2>1. UNCHANGED <<bridge, fmOpened, scan_stop, settled, cur_freq, rds>>
    BY <1>5 DEF Fm!ScanEnds
  <2>2. Counts
    BY <1>5 DEF Fm!ScanEnds, Counts
  <2>3. chip' = chip
    BY <1>5 DEF Fm!ScanEnds
  <2>4. ChipLimits(chip')
    BY <2>3 DEF FmTypes, ChipLimits
  <2> QED
    BY <2>1, <2>2, <2>4, FmTyped
<1>6. CASE Fm!ScanAnswers
  <2>1. UNCHANGED <<bridge, fmOpened, scan_stop, settled, cur_freq, rds>>
    BY <1>6 DEF Fm!ScanAnswers
  <2>2. Counts
    BY <1>6 DEF Fm!ScanAnswers, Counts
  <2>3. chip' = chip \/ \E v, w : chip' = [chip EXCEPT !.searching = v, !.freq = w]
    BY <1>6, Zenon DEF Fm!ScanAnswers
  <2>4. ChipLimits(chip')
    BY <2>3, Zenon DEF FmTypes, ChipLimits
  <2> QED
    BY <2>1, <2>2, <2>4, FmTyped
<1>7. CASE Fm!StopScan
  <2>1. UNCHANGED <<bridge, fmOpened, settled, cur_freq, rds>>
    BY <1>7 DEF Fm!StopScan
  <2>2. Counts
    BY <1>7 DEF Fm!StopScan, Counts
  <2>3. chip' = chip
    BY <1>7 DEF Fm!StopScan
  <2>4. ChipLimits(chip')
    BY <2>3 DEF FmTypes, ChipLimits
  <2>5. scan_stop' \in BOOLEAN
    BY <1>7 DEF Fm!StopScan
  <2> QED
    BY <2>1, <2>2, <2>4, <2>5, FmTyped
<1> QED
  BY <1>1, <1>2, <1>3, <1>4, <1>5, <1>6, <1>7

LEMMA RdsTyped ==
  ASSUME FmTypes, Fm!SetRds \/ Fm!ReadRds \/ Fm!GetPs \/ Fm!GetLrText
  PROVE  FmTypes'
<1> USE DEF Fm!Call, Fm!Extra, Fm!Ioctl
<1>1. CASE Fm!SetRds
  <2>1. UNCHANGED <<bridge, fmOpened, scan_stop, settled, cur_freq, rds>>
    BY <1>1 DEF Fm!SetRds, Fm!COM_turn_on_off_rds
  <2>2. Counts
    BY <1>1 DEF Fm!SetRds, Fm!COM_turn_on_off_rds, Counts
  <2>3. chip' = chip \/ \E v : chip' = [chip EXCEPT !.rds = v]
    BY <1>1, Zenon DEF Fm!SetRds, Fm!COM_turn_on_off_rds
  <2>4. ChipLimits(chip')
    BY <2>3 DEF FmTypes, ChipLimits
  <2> QED
    BY <2>1, <2>2, <2>4, FmTyped
<1>2. CASE Fm!ReadRds
  <2>1. UNCHANGED <<bridge, fmOpened, scan_stop, settled, cur_freq>>
    BY <1>2 DEF Fm!ReadRds
  <2>2. Counts
    BY <1>2 DEF Fm!ReadRds, Counts
  <2>3. chip' = chip
    BY <1>2 DEF Fm!ReadRds
  <2>4. ChipLimits(chip')
    BY <2>3 DEF FmTypes, ChipLimits
  <2>5. RdsList'
    BY <1>2, InHz DEF Fm!ReadRds, FmTypes, RdsList
  <2> QED
    BY <2>1, <2>2, <2>4, <2>5, FmTyped
<1>3. CASE Fm!GetPs
  <2>1. UNCHANGED <<bridge, fmOpened, scan_stop, settled, cur_freq>>
    BY <1>3 DEF Fm!GetPs, Fm!COM_get_ps
  <2>2. Counts
    BY <1>3 DEF Fm!GetPs, Fm!COM_get_ps, Counts
  <2>3. chip' = chip
    BY <1>3 DEF Fm!GetPs, Fm!COM_get_ps
  <2>4. ChipLimits(chip')
    BY <2>3 DEF FmTypes, ChipLimits
  <2>5. RdsList'
    BY <1>3, InHz DEF Fm!GetPs, Fm!COM_get_ps, FmTypes, RdsList
  <2> QED
    BY <2>1, <2>2, <2>4, <2>5, FmTyped
<1>4. CASE Fm!GetLrText
  <2>1. UNCHANGED <<bridge, fmOpened, scan_stop, settled, cur_freq>>
    BY <1>4 DEF Fm!GetLrText, Fm!COM_get_rt
  <2>2. Counts
    BY <1>4 DEF Fm!GetLrText, Fm!COM_get_rt, Counts
  <2>3. chip' = chip
    BY <1>4 DEF Fm!GetLrText, Fm!COM_get_rt
  <2>4. ChipLimits(chip')
    BY <2>3 DEF FmTypes, ChipLimits
  <2>5. RdsList'
    BY <1>4, InHz DEF Fm!GetLrText, Fm!COM_get_rt, FmTypes, RdsList
  <2> QED
    BY <2>1, <2>2, <2>4, <2>5, FmTyped
<1> QED
  BY <1>1, <1>2, <1>3, <1>4

LEMMA ValuesTyped ==
  ASSUME FmTypes,
              Fm!NativeActiveAf \/ Fm!GetRssi \/ Fm!GetSnr \/ Fm!GetBler
           \/ Fm!SupportAsked \/ Fm!GetTuneParm \/ Fm!GetAudioParm \/ Fm!WriteRegParm
           \/ Fm!ReadRegParm \/ Fm!SetMute \/ Fm!SetStep \/ Fm!SwitchAntenna
  PROVE  FmTypes'
<1> USE DEF Fm!Call, Fm!Extra, Fm!Ioctl
<1>1. CASE Fm!NativeActiveAf
  <2>1. UNCHANGED <<bridge, fmOpened, scan_stop, rds>>
    BY <1>1 DEF Fm!NativeActiveAf, Fm!FMR_active_af
  <2>2. Counts
    BY <1>1 DEF Fm!NativeActiveAf, Fm!FMR_active_af, Counts
  <2>3. chip' = chip \/ \E v, w : chip' = [chip EXCEPT !.freq = v, !.rds = w]
    BY <1>1, Zenon DEF Fm!NativeActiveAf, Fm!FMR_active_af
  <2>4. ChipLimits(chip')
    BY <2>3, Zenon DEF FmTypes, ChipLimits
  <2>5. settled' = settled \/ settled' \in BOOLEAN
    BY <1>1 DEF Fm!NativeActiveAf, Fm!FMR_active_af
  <2>6. cur_freq' \in Hz
    BY <1>1, BestTyped DEF Fm!NativeActiveAf, Fm!FMR_active_af, FmTypes
  <2> QED
    BY <2>1, <2>2, <2>4, <2>5, <2>6, FmTyped
<1>2. CASE Fm!GetRssi
  <2>1. UNCHANGED <<bridge, fmOpened, scan_stop, settled, cur_freq, rds>>
    BY <1>2 DEF Fm!GetRssi
  <2>2. Counts
    BY <1>2 DEF Fm!GetRssi, Counts
  <2>3. chip' = chip
    BY <1>2 DEF Fm!GetRssi
  <2>4. ChipLimits(chip')
    BY <2>3 DEF FmTypes, ChipLimits
  <2> QED
    BY <2>1, <2>2, <2>4, FmTyped
<1>3. CASE Fm!GetSnr
  <2>1. UNCHANGED <<bridge, fmOpened, scan_stop, settled, cur_freq, rds>>
    BY <1>3 DEF Fm!GetSnr
  <2>2. Counts
    BY <1>3 DEF Fm!GetSnr, Counts
  <2>3. chip' = chip
    BY <1>3 DEF Fm!GetSnr
  <2>4. ChipLimits(chip')
    BY <2>3 DEF FmTypes, ChipLimits
  <2> QED
    BY <2>1, <2>2, <2>4, FmTyped
<1>4. CASE Fm!GetBler
  <2>1. UNCHANGED <<bridge, fmOpened, scan_stop, settled, cur_freq, rds>>
    BY <1>4 DEF Fm!GetBler
  <2>2. Counts
    BY <1>4 DEF Fm!GetBler, Counts
  <2>3. chip' = chip
    BY <1>4 DEF Fm!GetBler
  <2>4. ChipLimits(chip')
    BY <2>3 DEF FmTypes, ChipLimits
  <2> QED
    BY <2>1, <2>2, <2>4, FmTyped
<1>5. CASE Fm!SupportAsked
  <2>1. UNCHANGED <<bridge, fmOpened, scan_stop, settled, cur_freq, rds>>
    BY <1>5 DEF Fm!SupportAsked
  <2>2. Counts
    BY <1>5 DEF Fm!SupportAsked, Counts
  <2>3. chip' = chip
    BY <1>5 DEF Fm!SupportAsked
  <2>4. ChipLimits(chip')
    BY <2>3 DEF FmTypes, ChipLimits
  <2> QED
    BY <2>1, <2>2, <2>4, FmTyped
<1>6. CASE Fm!GetTuneParm
  <2>1. UNCHANGED <<bridge, fmOpened, scan_stop, settled, cur_freq, rds>>
    BY <1>6 DEF Fm!GetTuneParm
  <2>2. Counts
    BY <1>6 DEF Fm!GetTuneParm, Counts
  <2>3. chip' = chip
    BY <1>6 DEF Fm!GetTuneParm
  <2>4. ChipLimits(chip')
    BY <2>3 DEF FmTypes, ChipLimits
  <2> QED
    BY <2>1, <2>2, <2>4, FmTyped
<1>7. CASE Fm!GetAudioParm
  <2>1. UNCHANGED <<bridge, fmOpened, scan_stop, settled, cur_freq, rds>>
    BY <1>7 DEF Fm!GetAudioParm
  <2>2. Counts
    BY <1>7 DEF Fm!GetAudioParm, Counts
  <2>3. chip' = chip
    BY <1>7 DEF Fm!GetAudioParm
  <2>4. ChipLimits(chip')
    BY <2>3 DEF FmTypes, ChipLimits
  <2> QED
    BY <2>1, <2>2, <2>4, FmTyped
<1>8. CASE Fm!WriteRegParm
  <2>1. UNCHANGED <<bridge, fmOpened, scan_stop, settled, cur_freq, rds>>
    BY <1>8 DEF Fm!WriteRegParm, Fm!COM_rw_reg
  <2>2. Counts
    BY <1>8 DEF Fm!WriteRegParm, Fm!COM_rw_reg, Counts
  <2>3. chip' = chip \/ \E v : chip' = [chip EXCEPT !.reg = v]
    BY <1>8, Zenon DEF Fm!WriteRegParm, Fm!COM_rw_reg
  <2>4. ChipLimits(chip')
    BY <2>3 DEF FmTypes, ChipLimits
  <2> QED
    BY <2>1, <2>2, <2>4, FmTyped
<1>9. CASE Fm!ReadRegParm
  <2>1. UNCHANGED <<bridge, fmOpened, scan_stop, settled, cur_freq, rds>>
    BY <1>9 DEF Fm!ReadRegParm, Fm!COM_rw_reg
  <2>2. Counts
    BY <1>9 DEF Fm!ReadRegParm, Fm!COM_rw_reg, Counts
  <2>3. chip' = chip \/ \E v : chip' = [chip EXCEPT !.reg = v]
    BY <1>9, Zenon DEF Fm!ReadRegParm, Fm!COM_rw_reg
  <2>4. ChipLimits(chip')
    BY <2>3 DEF FmTypes, ChipLimits
  <2> QED
    BY <2>1, <2>2, <2>4, FmTyped
<1>10. CASE Fm!SetMute
  <2>1. UNCHANGED <<bridge, fmOpened, scan_stop, settled, cur_freq, rds>>
    BY <1>10 DEF Fm!SetMute, Fm!COM_set_mute
  <2>2. Counts
    BY <1>10 DEF Fm!SetMute, Fm!COM_set_mute, Counts
  <2>3. chip' = chip \/ \E v : chip' = [chip EXCEPT !.mute = v]
    BY <1>10, Zenon DEF Fm!SetMute, Fm!COM_set_mute
  <2>4. ChipLimits(chip')
    BY <2>3 DEF FmTypes, ChipLimits
  <2> QED
    BY <2>1, <2>2, <2>4, FmTyped
<1>11. CASE Fm!SetStep
  <2>1. UNCHANGED <<bridge, fmOpened, scan_stop, settled, cur_freq, rds>>
    BY <1>11 DEF Fm!SetStep, Fm!COM_set_step
  <2>2. Counts
    BY <1>11 DEF Fm!SetStep, Fm!COM_set_step, Counts
  <2>3. chip' = chip \/ \E v : chip' = [chip EXCEPT !.step = v]
    BY <1>11, Zenon DEF Fm!SetStep, Fm!COM_set_step
  <2>4. ChipLimits(chip')
    BY <2>3 DEF FmTypes, ChipLimits
  <2> QED
    BY <2>1, <2>2, <2>4, FmTyped
<1>12. CASE Fm!SwitchAntenna
  <2>1. UNCHANGED <<bridge, fmOpened, scan_stop, settled, cur_freq, rds>>
    BY <1>12 DEF Fm!SwitchAntenna, Fm!COM_ana_switch
  <2>2. Counts
    BY <1>12 DEF Fm!SwitchAntenna, Fm!COM_ana_switch, Counts
  <2>3. chip' = chip \/ \E v : chip' = [chip EXCEPT !.antenna = v]
    BY <1>12, Zenon DEF Fm!SwitchAntenna, Fm!COM_ana_switch
  <2>4. ChipLimits(chip')
    BY <2>3 DEF FmTypes, ChipLimits
  <2> QED
    BY <2>1, <2>2, <2>4, FmTyped
<1> QED
  BY <1>1, <1>2, <1>3, <1>4, <1>5, <1>6, <1>7, <1>8, <1>9, <1>10, <1>11, <1>12

LEMMA SettingTyped ==
  ASSUME FmTypes, Fm!SetTuneParm \/ Fm!SetAudioParm
  PROVE  FmTypes'
<1>1. UNCHANGED <<bridge, fmOpened, scan_stop, settled, cur_freq, rds>> /\ Counts
  BY DEF Fm!SetTuneParm, Fm!COM_set_tune, Fm!SetAudioParm, Fm!COM_set_audio, Fm!Extra, Fm!Ioctl,
     Counts
<1>2. ChipLimits(chip')
  <2>1. CASE Fm!SetTuneParm
    <3>1. PICK th \in Thresholds : chip' = chip \/ chip' = [chip EXCEPT !.rssi_th = th % 2^8]
      BY <2>1 DEF Fm!SetTuneParm, Fm!COM_set_tune, Fm!Extra, Fm!Ioctl
    <3>2. th % 2^8 \in 0..255
      <4> DEFINE e == 2^8
      <4>1. e = 256
        OBVIOUS
      <4> HIDE DEF e
      <4>2. e \in Nat \ {0} /\ 0..(e - 1) = 0..255
        BY <4>1
      <4>3. th \in Int
        BY InHz
      <4>4. th % e \in 0..(e - 1)
        BY <4>2, <4>3, RemainderIs
      <4>5. th % e \in 0..255
        BY <4>2, <4>4, Zenon
      <4> QED
        BY <4>5 DEF e
    <3> QED
      BY <3>1, <3>2 DEF FmTypes, ChipLimits
  <2>2. CASE Fm!SetAudioParm
    <3>1. PICK th \in Thresholds : chip' = chip \/ chip' = [chip EXCEPT !.hbound = th % 2^16]
      BY <2>2, SMTT(30) DEF Fm!SetAudioParm, Fm!COM_set_audio, Fm!Extra, Fm!Ioctl
    <3> DEFINE h == th % 2^16
    <3>2. h \in Hz
      <4>1. 2^16 \in Nat \ {0} /\ th \in Int
        BY InHz
      <4> QED
        BY <4>1, RemainderIs, HzIs
    <3> HIDE DEF h
    <3>3. chip' = chip \/ chip' = [chip EXCEPT !.hbound = h]
      BY <3>1 DEF h
    <3> QED
      BY <3>2, <3>3 DEF FmTypes, ChipLimits
  <2> QED
    BY <2>1, <2>2
<1> QED
  BY <1>1, <1>2, CountsTyped DEF FmTypes, FmSwitches, RdsList

LEMMA FmTypesHold == SuiteSpec => []FmTypes
<1>1. SuiteInit => FmTypes
  BY FmTypesInit DEF SuiteInit
<1>2. FmTypes /\ [SuiteNext]_suiteVars => FmTypes'
  <2>1. [SuiteNext]_suiteVars => Fm!Next \/ UNCHANGED fmVars
    BY DEF SuiteNext, Still, suiteVars
  <2>2. FmTypes /\ UNCHANGED fmVars => FmTypes'
    BY DEF fmVars, FmTypes, FmSwitches, FmCounts, RdsList
  <2>3. FmTypes /\ Fm!Next => FmTypes'
    BY PowerTyped, SearchTyped, RdsTyped, ValuesTyped, SettingTyped DEF Fm!Next
  <2> QED
    BY <2>1, <2>2, <2>3
<1> QED
  BY <1>1, <1>2, PTL DEF SuiteSpec

LEMMA ReceiverTyped == ASSUME FmTypes PROVE Fm!TypeOK
<1>1. cur_freq \in 0..(2^16 - 1) /\ chip.hbound \in 0..(2^16 - 1) /\ chip.rssi_th \in 0..255
  BY HzIs, Zenon DEF FmTypes, ChipLimits
<1>2. bridge \in {"jni", "hal"} /\ {fmOpened, scan_stop, settled} \subseteq BOOLEAN
  BY Zenon DEF FmTypes, FmSwitches
<1>3. FmCounts
  BY DEF FmTypes
<1> QED
  BY <1>1, <1>2, <1>3, Zenon DEF FmCounts, Fm!TypeOK

---------------------------------------------------------------------------
(* The types of the cameras' parts, and of all parts. *)

LEMMA LegacyTypeInit == Legacy!Init => Legacy!TypeOK
<1> SUFFICES ASSUME Legacy!Init PROVE Legacy!TypeOK
  OBVIOUS
<1>1. PICK works \in [BuiltIn -> BOOLEAN] :
        /\ mCameraStatusMap = [c \in BuiltIn |-> "PRESENT"]
        /\ mCameraIds = BuiltIn /\ mOpenLegacySupported = works
        /\ mCameraDeviceNames = UNION {Legacy!Opened(c, works[c]) : c \in BuiltIn}
        /\ view = <<>>
  BY DEF Legacy!Init
<1>2. \A c \in BuiltIn : Legacy!Opened(c, works[c]) \subseteq Legacy!Names
  BY DEF Legacy!Opened, Legacy!Names, Legacy!Cameras
<1> QED
  BY <1>1, <1>2 DEF Legacy!TypeOK, Legacy!Cameras

LEMMA ToldTyped ==
  ASSUME DOMAIN view \subseteq Legacy!Names, NEW S \in SUBSET Legacy!Names, NEW s
  PROVE  DOMAIN Legacy!Told(view, S, s) \subseteq Legacy!Names
BY DEF Legacy!Told

LEMMA AddTyped ==
  ASSUME Legacy!TypeOK, NEW S \in SUBSET Legacy!Cameras, NEW works \in [S -> BOOLEAN],
         Legacy!AddDeviceNames(S, works)
  PROVE  /\ mCameraIds' \subseteq Legacy!Cameras /\ mCameraDeviceNames' \subseteq Legacy!Names
         /\ DOMAIN mOpenLegacySupported' \subseteq Legacy!Cameras
         /\ UNION {Legacy!Opened(c, works[c]) : c \in S} \subseteq Legacy!Names
<1>1. \A c \in S : Legacy!Opened(c, works[c]) \subseteq Legacy!Names
  BY DEF Legacy!Opened, Legacy!Names
<1>2. UNION {Legacy!Opened(c, works[c]) : c \in S} \subseteq Legacy!Names
  BY <1>1
<1>3. DOMAIN mOpenLegacySupported' \subseteq Legacy!Cameras
  BY DEF Legacy!AddDeviceNames, Legacy!TypeOK
<1> QED
  BY <1>2, <1>3 DEF Legacy!AddDeviceNames, Legacy!TypeOK

LEMMA LegacyTypeStep == ASSUME Legacy!TypeOK, Legacy!Next PROVE Legacy!TypeOK'
<1>1. CASE Legacy!StatusChange
  <2>1. PICK c \in Legacy!Cameras, s \in Legacy!Statuses : Legacy!CameraDeviceStatusChange(c, s)
    BY <1>1 DEF Legacy!StatusChange
  <2>2. DOMAIN mCameraStatusMap' \subseteq Legacy!Cameras
    BY <2>1 DEF Legacy!CameraDeviceStatusChange, Legacy!TypeOK
  <2>3. Legacy!NamesOf(c) \subseteq Legacy!Names /\ Legacy!NamesRemoved(c) \subseteq Legacy!Names
    BY DEF Legacy!NamesOf, Legacy!NamesRemoved, Legacy!SecondName, Legacy!Names, Legacy!TypeOK
  <2>4. \/ UNCHANGED <<mCameraIds, mCameraDeviceNames, mOpenLegacySupported, unsure, view>>
        \/ \E works \in [{c} -> BOOLEAN] :
              Legacy!AddDeviceNames({c}, works)
              /\ view' = Legacy!Told(view, Legacy!Opened(c, works[c]), s)
        \/ /\ mCameraIds' = mCameraIds \ {c}
           /\ mCameraDeviceNames' = mCameraDeviceNames \ Legacy!NamesRemoved(c)
           /\ view' = Legacy!Told(view, Legacy!NamesOf(c) \cup Legacy!NamesRemoved(c), s)
           /\ UNCHANGED <<mOpenLegacySupported, unsure>>
        \/ /\ view' = Legacy!Told(view, Legacy!NamesOf(c), s)
           /\ UNCHANGED <<mCameraIds, mCameraDeviceNames, mOpenLegacySupported, unsure>>
    BY <2>1 DEF Legacy!CameraDeviceStatusChange
  <2>5. ASSUME NEW works \in [{c} -> BOOLEAN], Legacy!AddDeviceNames({c}, works),
               view' = Legacy!Told(view, Legacy!Opened(c, works[c]), s)
        PROVE  Legacy!TypeOK'
    <3>1. Legacy!Opened(c, works[c]) \subseteq Legacy!Names
      BY DEF Legacy!Opened, Legacy!Names
    <3> QED
      BY <2>2, <2>5, <3>1, AddTyped, ToldTyped DEF Legacy!TypeOK
  <2> QED
    BY <2>2, <2>3, <2>4, <2>5, ToldTyped DEF Legacy!TypeOK
<1>2. CASE Legacy!SetCallback
  <2> DEFINE S == {c \in DOMAIN mCameraStatusMap \ BuiltIn : mCameraStatusMap[c] # "NOT_PRESENT"}
  <2>1. PICK works \in [S -> BOOLEAN] :
          /\ Legacy!AddDeviceNames(S, works)
          /\ view' = [n \in UNION {Legacy!Opened(c, works[c]) : c \in S} |-> mCameraStatusMap[n[1]]]
    BY <1>2 DEF Legacy!SetCallback
  <2>2. S \in SUBSET Legacy!Cameras /\ UNCHANGED mCameraStatusMap
    BY <1>2 DEF Legacy!TypeOK, Legacy!SetCallback
  <2> HIDE DEF S
  <2>3. DOMAIN view' = UNION {Legacy!Opened(c, works[c]) : c \in S}
    BY <2>1
  <2> QED
    BY <2>1, <2>2, <2>3, AddTyped DEF Legacy!TypeOK
<1>3. CASE Legacy!GetCameraIdList
  <2>1. {n \in mCameraDeviceNames : n[1] \in BuiltIn /\ Legacy!StatusOf(n[1]) = "PRESENT"}
          \in SUBSET Legacy!Names
    BY DEF Legacy!TypeOK
  <2> QED
    BY <1>3, <2>1, ToldTyped DEF Legacy!GetCameraIdList, Legacy!TypeOK
<1>4. CASE Legacy!ServiceDies
  BY <1>4 DEF Legacy!ServiceDies, Legacy!TypeOK
<1> QED
  BY <1>1, <1>2, <1>3, <1>4 DEF Legacy!Next

\* The characteristics of a webcam are read once; it has no formats before.
WebcamTypes ==
  /\ Webcam!TypeOK
  /\ mInitialized \in BOOLEAN /\ mInitFailed \in BOOLEAN
  /\ ~mInitialized => mSupportedFormats = <<>>

LEMMA WebcamTypesInit == ASSUME Webcam!Init PROVE WebcamTypes
<1>1. opening = -1 /\ -1 \in -1..Webcam!MAX_RETRY
  BY DEF Webcam!Init, Webcam!MAX_RETRY
<1> QED
  BY <1>1 DEF Webcam!Init, WebcamTypes, Webcam!TypeOK

LEMMA CharacteristicsTyped ==
  ASSUME WebcamTypes, Webcam!InitCharacteristics
  PROVE  /\ mInitialized' \in BOOLEAN /\ mInitFailed' \in BOOLEAN
         /\ ~mInitialized' => mSupportedFormats' = <<>>
         /\ mInitFailed' => mInitialized' /\ mSupportedFormats' = <<>>
         /\ mCroppingType' \in {"HORIZONTAL", "VERTICAL"}
<1>1. CASE mInitialized
  BY <1>1 DEF Webcam!InitCharacteristics, Webcam!charVars, WebcamTypes, Webcam!TypeOK
<1>2. CASE ~mInitialized /\ ~plugged
  BY <1>2 DEF Webcam!InitCharacteristics, WebcamTypes, Webcam!TypeOK
<1>3. CASE ~mInitialized /\ plugged
  <2>1. PICK offer : /\ offer = Webcam!SupportedFormats(mCfg, webcam)
                     /\ mInitialized' /\ mInitFailed' = (offer.formats = <<>>)
                     /\ mSupportedFormats' = offer.formats
                     /\ mCroppingType' = IF offer.formats = <<>> THEN mCroppingType ELSE offer.cropping
    BY <1>3 DEF Webcam!InitCharacteristics
  <2>2. offer.cropping \in {"HORIZONTAL", "VERTICAL"}
    BY <2>1 DEF Webcam!SupportedFormats, Webcam!BetterCropping
  <2> QED
    BY <1>3, <2>1, <2>2 DEF WebcamTypes, Webcam!TypeOK, Webcam!InitCharacteristics
<1> QED
  BY <1>1, <1>2, <1>3

LEMMA WebcamTypesStep == ASSUME WebcamTypes, Webcam!Next PROVE WebcamTypes'
<1>1. CASE Webcam!GetCameraCharacteristics
  BY <1>1, CharacteristicsTyped DEF Webcam!GetCameraCharacteristics, WebcamTypes, Webcam!TypeOK
<1>2. CASE Webcam!Open
  BY <1>2, CharacteristicsTyped
  DEF Webcam!Open, Webcam!SessionMade, WebcamTypes, Webcam!TypeOK, Webcam!MAX_RETRY
<1>3. CASE Webcam!OpenRetried
  BY <1>3
  DEF Webcam!OpenRetried, Webcam!SessionMade, Webcam!charVars, WebcamTypes, Webcam!TypeOK,
      Webcam!MAX_RETRY
<1>4. CASE Webcam!CloseSession \/ Webcam!Plug \/ Webcam!ConfigureStreams
  <2>1. UNCHANGED <<Webcam!charVars, opening>>
        /\ (deviceSession' = deviceSession \/ deviceSession' = "closed")
    BY <1>4 DEF Webcam!CloseSession, Webcam!Plug, Webcam!ConfigureStreams
  <2> QED
    BY <2>1 DEF Webcam!charVars, WebcamTypes, Webcam!TypeOK
<1> QED
  BY <1>1, <1>2, <1>3, <1>4 DEF Webcam!Next

LEMMA WebcamTypesHold == SuiteSpec => []WebcamTypes
<1>1. SuiteInit => WebcamTypes
  BY WebcamTypesInit DEF SuiteInit
<1>2. WebcamTypes /\ [SuiteNext]_suiteVars => WebcamTypes'
  <2>1. [SuiteNext]_suiteVars => Webcam!Next \/ UNCHANGED webcamVars
    BY DEF SuiteNext, Still, suiteVars
  <2>2. WebcamTypes /\ UNCHANGED webcamVars => WebcamTypes'
    BY DEF webcamVars, WebcamTypes, Webcam!TypeOK
  <2> QED
    BY <2>1, <2>2, WebcamTypesStep
<1> QED
  BY <1>1, <1>2, PTL DEF SuiteSpec

LEMMA LegacyTypesHold == SuiteSpec => []Legacy!TypeOK
<1>1. SuiteInit => Legacy!TypeOK
  BY LegacyTypeInit DEF SuiteInit
<1>2. Legacy!TypeOK /\ [SuiteNext]_suiteVars => Legacy!TypeOK'
  <2>1. [SuiteNext]_suiteVars => Legacy!Next \/ UNCHANGED legacyVars
    BY DEF SuiteNext, Still, suiteVars
  <2>2. Legacy!TypeOK /\ UNCHANGED legacyVars => Legacy!TypeOK'
    BY DEF legacyVars, Legacy!TypeOK
  <2> QED
    BY <2>1, <2>2, LegacyTypeStep
<1> QED
  BY <1>1, <1>2, PTL DEF SuiteSpec

\* Cameras whose removal met the first report to the service.
Raced == raced \subseteq Usb!External

LEMMA RacedStep == ASSUME UsbTypes, Raced, Usb!Next PROVE Raced'
<1>1. CASE Usb!AddExternalCamera
  BY <1>1 DEF Usb!AddExternalCamera, Raced
<1>2. CASE Usb!DeviceRemoved
  BY <1>2 DEF Usb!DeviceRemoved, UsbTypes, Raced
<1>3. CASE Usb!ServiceDies
  BY <1>3 DEF Usb!ServiceDies, Raced
<1>4. CASE Usb!Plug \/ Usb!OpenDir \/ Usb!ScanNext \/ Usb!Watch \/ Usb!ReadEvent \/ Usb!DeviceAdded
  <2>1. UNCHANGED raced
    BY <1>4 DEF Usb!Plug, Usb!OpenDir, Usb!ScanNext, Usb!Watch, Usb!ReadEvent, Usb!DeviceAdded,
                Usb!historyVars
  <2> QED
    BY <2>1 DEF Raced
<1>5. CASE Usb!SetCallback \/ Usb!SetterReads \/ Usb!SetterReports
  <2>1. UNCHANGED raced
    BY <1>5 DEF Usb!SetCallback, Usb!SetterReads, Usb!SetterReports, Usb!historyVars
  <2> QED
    BY <2>1 DEF Raced
<1> QED
  BY <1>1, <1>2, <1>3, <1>4, <1>5 DEF Usb!Next

LEMMA UsbTypesHold == SuiteSpec => []Usb!TypeOK
<1>1. SuiteInit => Raced
  BY DEF SuiteInit, Usb!Init, Raced
<1>2. Raced /\ UsbInv /\ [SuiteNext]_suiteVars => Raced'
  <2>1. [SuiteNext]_suiteVars => Usb!Next \/ UNCHANGED usbVars
    BY DEF SuiteNext, Still, suiteVars
  <2>2. Raced /\ UNCHANGED usbVars => Raced'
    BY DEF usbVars, Raced
  <2> QED
    BY <2>1, <2>2, RacedStep DEF UsbInv
<1>3. Raced /\ UsbInv => Usb!TypeOK
  BY DEF Raced, UsbInv, UsbTypes, ViewFollows, Usb!TypeOK, Usb!NoSetter
<1> QED
  BY <1>1, <1>2, <1>3, UsbInvHolds, PTL DEF SuiteSpec

LEMMA BufReqTypesHold == SuiteSpec => []BufReq!TypeOK
<1>1. BufReqInv => BufReq!TypeOK
  BY DEF BufReqInv
<1> QED
  BY <1>1, BufReqInit, BufReqStep, SuiteBufReq, PTL DEF BufReq!Spec

LEMMA CaptureTyped == ASSUME CapInv PROVE Capture!TypeOK
BY DEF CapInv, CapTypes, Capture!TypeOK

AllTyped ==
  /\ TypeOK /\ Legacy!TypeOK /\ Usb!TypeOK /\ BufReq!TypeOK /\ Webcam!TypeOK
  /\ Gnss!TypeOK /\ Wake!TypeOK /\ Reports!TypeOK /\ Ext!TypeOK
  /\ Face!TypeOK /\ Conn!TypeOK /\ Exp!TypeOK
  /\ Capture!TypeOK /\ Fm!TypeOK /\ Scene!TypeOK

\* Each part of the suite stays within its types, for all values of its parameters: no step
\* passes a bound, and the numbers of the FM receiver stay within the driver's widths.
THEOREM PartsTyped == SuiteSpec => []PartsTypeOK
<1>1. SuiteSpec => [](part \in Parts)
  <2>1. SuiteInit => part \in Parts
    BY DEF SuiteInit
  <2>2. part \in Parts /\ [SuiteNext]_suiteVars => (part \in Parts)'
    BY DEF SuiteNext, suiteVars
  <2> QED
    BY <2>1, <2>2, PTL DEF SuiteSpec
<1>2. /\ HintInv => TypeOK
      /\ WebcamTypes => Webcam!TypeOK
      /\ WakeInv => Wake!TypeOK
      /\ ExpTypes => Exp!TypeOK
      /\ SceneInv => Scene!TypeOK
  BY DEF HintInv, WebcamTypes, WakeInv, ExpTypes, SceneInv
<1>3. SuiteSpec => []TypeOK
  BY <1>2, HintsInit, HintsStep, SuiteHints, PTL DEF Spec
<1>4. SuiteSpec => [](Legacy!TypeOK /\ Usb!TypeOK /\ BufReq!TypeOK /\ Webcam!TypeOK)
  BY <1>2, LegacyTypesHold, UsbTypesHold, BufReqTypesHold, WebcamTypesHold, PTL
<1>5. SuiteSpec => [](Gnss!TypeOK /\ Wake!TypeOK /\ Reports!TypeOK /\ Ext!TypeOK)
  BY <1>2, GnssInvHolds, GnssTyped, WakeInvHolds, ReportInvHolds, RegisteredHolds, ReportsTyped,
     ExtInvHolds, ExtTypesHold, ExtensionsTyped, PTL
<1>6. SuiteSpec => [](Face!TypeOK /\ Conn!TypeOK /\ Exp!TypeOK)
  BY <1>2, FaceInvHolds, FaceFits, ConnInvHolds, ConnTyped, ExpTypesHold, PTL
<1>7. SuiteSpec => [](Capture!TypeOK /\ Fm!TypeOK /\ Scene!TypeOK)
  BY <1>2, CapInvHolds, CaptureTyped, FmTypesHold, ReceiverTyped, SceneInvHolds, PTL
<1>8. SuiteSpec => []AllTyped
  <2>1. TypeOK /\ (Legacy!TypeOK /\ Usb!TypeOK /\ BufReq!TypeOK /\ Webcam!TypeOK)
          /\ (Gnss!TypeOK /\ Wake!TypeOK /\ Reports!TypeOK /\ Ext!TypeOK)
          /\ (Face!TypeOK /\ Conn!TypeOK /\ Exp!TypeOK)
          /\ (Capture!TypeOK /\ Fm!TypeOK /\ Scene!TypeOK) => AllTyped
    BY DEF AllTyped
  <2> QED
    BY <1>3, <1>4, <1>5, <1>6, <1>7, <2>1, PTL
<1>9. part \in Parts /\ AllTyped => PartsTypeOK
  <2> SUFFICES ASSUME part \in Parts, AllTyped PROVE PartsTypeOK
    OBVIOUS
  <2>1. CASE part \in {"power", "legacy", "usb", "bufReq", "webcam"}
    BY <2>1 DEF AllTyped, PartsTypeOK
  <2>2. CASE part \in {"gnss", "wake", "reports", "face", "conn"}
    BY <2>2 DEF AllTyped, PartsTypeOK
  <2>3. CASE part \in {"exceptions", "capture", "fm", "extensions", "scene"}
    BY <2>3 DEF AllTyped, PartsTypeOK
  <2> QED
    BY <2>1, <2>2, <2>3 DEF Parts
<1> QED
  BY <1>1, <1>8, <1>9, PTL
=============================================================================
