------------------------ MODULE FrameDeliveryProofs ------------------------
(***************************************************************************)
(* The contract of frame delivery gives what the framework relies on, for  *)
(* every set of lanes and every number of frames.                          *)
(***************************************************************************)
EXTENDS FrameDelivery, TLAPS

\* Only what was sent can have been handled; without this a piece sent anew might
\* count as handled already.
HandledWasSent == \A i \in Item : Handled(i) => i \in sent

IInv == TypeOK /\ HandledWasSent /\ AtMostOnce /\ NoOvertaking

---------------------------------------------------------------------------
\* Frames are integers, so the order of two pieces of a lane is strict.
LEMMA FrameOrder ==
  ASSUME NEW i \in Item, NEW j \in Item
  PROVE  /\ i[2] \in Int /\ j[2] \in Int
         /\ ~(i[2] < j[2] /\ j[2] < i[2])
<1>1. i[2] \in Frames /\ j[2] \in Frames
  BY DEF Item
<1>2. \A f \in Frames : f \in Int
  BY DEF Frames
<1>3. i[2] \in Int /\ j[2] \in Int
  BY <1>1, <1>2
<1>4. \A a, b \in Int : ~(a < b /\ b < a)
  OBVIOUS
<1> QED BY <1>3, <1>4

\* Initially nothing is sent.
LEMMA InitInv == Init => IInv
BY DEF Init, IInv, TypeOK, HandledWasSent, AtMostOnce, NoOvertaking, Handled

\* Pieces sent anew come after those of their lane, and none of them is handled.
LEMMA SendInv ==
  ASSUME IInv, Send
  PROVE  IInv'
<1> USE DEF IInv
<1>1. TypeOK'
  BY DEF TypeOK, Send
<1>2. \A i \in Item : Handled(i)' <=> Handled(i)
  BY DEF Send, Handled
<1>3. HandledWasSent'
  BY <1>2 DEF HandledWasSent, Send
<1>4. AtMostOnce'
  BY DEF AtMostOnce, Send
<1>5. NoOvertaking'
  <2> SUFFICES ASSUME NEW i \in sent', NEW j \in sent',
                      i[1] \notin Loose, i[1] = j[1], i[2] < j[2], Handled(j)'
               PROVE  Handled(i)'
    BY DEF NoOvertaking
  <2>1. i \in Item /\ j \in Item
    BY <1>1 DEF TypeOK
  <2>2. j \in sent
    BY <1>2, <2>1 DEF HandledWasSent
  <2>3. i \in sent
    BY <2>1, <2>2, FrameOrder DEF Send
  <2> QED BY <1>2, <2>1, <2>2, <2>3 DEF NoOvertaking
<1> QED BY <1>1, <1>3, <1>4, <1>5

\* Handling a set of pending pieces in order, by delivery or by loss, leaves no
\* unhandled piece behind it.
LEMMA HandlingInOrder ==
  ASSUME IInv, NEW I \in SUBSET Pending, InOrder(I), sent' = sent,
         \A i \in Item : Handled(i)' <=> (Handled(i) \/ i \in I)
  PROVE  HandledWasSent' /\ NoOvertaking'
<1>1. I \subseteq sent
  BY DEF Pending
<1>2. HandledWasSent'
  BY <1>1 DEF HandledWasSent, IInv
<1>3. NoOvertaking'
  <2> SUFFICES ASSUME NEW i \in sent, NEW j \in sent,
                      i[1] \notin Loose, i[1] = j[1], i[2] < j[2], Handled(j)'
               PROVE  Handled(i)'
    BY DEF NoOvertaking
  <2>1. i \in Item /\ j \in Item
    BY DEF IInv, TypeOK
  <2>2. CASE Handled(j)
    BY <2>1, <2>2 DEF IInv, NoOvertaking
  <2>3. CASE j \in I
    <3>1. Handled(i) \/ i \in Pending
      BY DEF Pending
    <3>2. i \in Pending => i \in I
      BY <2>3 DEF InOrder
    <3> QED BY <2>1, <3>1, <3>2
  <2> QED BY <2>1, <2>2, <2>3
<1> QED BY <1>2, <1>3

\* A delivery raises the count of unhandled pieces only.
LEMMA DeliverInv ==
  ASSUME IInv, NEW I \in SUBSET Pending, Deliver(I)
  PROVE  IInv'
<1>1. TypeOK'
  BY DEF IInv, TypeOK, Deliver
<1>2. \A i \in Item : got[i] \in Nat /\ got'[i] = IF i \in I THEN got[i] + 1 ELSE got[i]
  BY DEF IInv, TypeOK, Deliver
<1>3. lost' = lost /\ sent' = sent
  BY DEF Deliver
<1>4. \A i \in I : i \in Item /\ got[i] = 0 /\ i \notin lost
  <2>1. \A i \in I : i \in Item /\ ~(got[i] > 0) /\ i \notin lost
    BY DEF IInv, TypeOK, Pending, Handled
  <2> QED BY <1>2, <2>1
<1>5. AtMostOnce'
  <2> SUFFICES ASSUME NEW i \in Item
               PROVE  got'[i] <= 1 /\ (i \in lost' => got'[i] = 0)
    BY DEF AtMostOnce
  <2>1. CASE i \in I
    BY <1>2, <1>3, <1>4, <2>1
  <2>2. CASE i \notin I
    BY <1>2, <1>3, <2>2 DEF IInv, AtMostOnce
  <2> QED BY <2>1, <2>2
<1>6. \A i \in Item : Handled(i)' <=> (Handled(i) \/ i \in I)
  BY <1>2, <1>3 DEF Handled
<1>7. HandledWasSent' /\ NoOvertaking'
  BY <1>3, <1>6, HandlingInOrder DEF Deliver
<1> QED BY <1>1, <1>5, <1>7 DEF IInv

\* Neither does a loss touch what the framework has received.
LEMMA DropInv ==
  ASSUME IInv, NEW I \in SUBSET Pending, Drop(I)
  PROVE  IInv'
<1>1. lost' = lost \cup I /\ sent' = sent /\ got' = got
  BY DEF Drop
<1>2. \A i \in I : i \in Item /\ got[i] = 0
  <2>1. \A i \in I : i \in Item /\ ~(got[i] > 0)
    BY DEF IInv, TypeOK, Pending, Handled
  <2>2. \A i \in Item : got[i] \in Nat
    BY DEF IInv, TypeOK
  <2> QED BY <2>1, <2>2
<1>3. TypeOK'
  BY <1>1, <1>2 DEF IInv, TypeOK
<1>4. AtMostOnce'
  BY <1>1, <1>2 DEF IInv, AtMostOnce
<1>5. \A i \in Item : Handled(i)' <=> (Handled(i) \/ i \in I)
  BY <1>1 DEF Handled
<1>6. HandledWasSent' /\ NoOvertaking'
  BY <1>1, <1>5, HandlingInOrder DEF Drop
<1> QED BY <1>3, <1>4, <1>6 DEF IInv

\* The invariant is inductive.
LEMMA StepInv == IInv /\ [Next]_vars => IInv'
<1> SUFFICES ASSUME IInv, [Next]_vars PROVE IInv'
  OBVIOUS
<1>1. CASE Send
  BY <1>1, SendInv
<1>2. CASE \E I \in SUBSET Pending : Deliver(I) \/ Drop(I)
  BY <1>2, DeliverInv, DropInv
<1>3. CASE UNCHANGED vars
  BY <1>3 DEF vars, IInv, TypeOK, HandledWasSent, AtMostOnce, NoOvertaking, Handled
<1> QED BY <1>1, <1>2, <1>3 DEF Next

---------------------------------------------------------------------------
\* Whatever implements the contract hands no piece to the framework twice, hands
\* over no piece it has thrown away, and lets no piece of a lane overtake another.
THEOREM DeliveryIsSafe == Spec => [](AtMostOnce /\ NoOvertaking)
<1>1. IInv => AtMostOnce /\ NoOvertaking
  BY DEF IInv
<1> QED BY InitInv, StepInv, <1>1, PTL DEF Spec
=============================================================================
