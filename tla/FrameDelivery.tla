--------------------------- MODULE FrameDelivery ---------------------------
(***************************************************************************)
(* What a camera session promises about the pieces of its answers,         *)
(* whatever it does in between (batching, flushing a batch on an error):   *)
(* each piece the HAL produced reaches the framework at most once, under   *)
(* its own frame number, and never overtakes an earlier piece of its kind  *)
(* if that kind is an ordered one.                                         *)
(*                                                                         *)
(* A piece is <<lane, frame>>.  The lanes are the shutters, the metadata   *)
(* of each partial result, and the buffers of each stream; the HAL         *)
(* produces the pieces of one lane in the order of their frames.           *)
(***************************************************************************)
EXTENDS Integers

CONSTANTS
  Lanes,
  Loose,         (* lanes whose order is not promised *)
  MaxFrames      (* bound: frame numbers in use *)

Frames == 1..MaxFrames
Item   == Lanes \X Frames

VARIABLES
  sent,          \* pieces the HAL has handed to the session
  got,           \* how often the framework has received each piece
  lost           \* pieces thrown away: the result callback was busy for a second

vars == <<sent, got, lost>>

Handled(i) == got[i] > 0 \/ i \in lost
Pending    == {i \in sent : ~Handled(i)}

\* Every piece of an ordered lane that was sent before one of I is handled, or in I too.
InOrder(I) ==
  \A i \in I, j \in Pending : i[1] \notin Loose /\ j[1] = i[1] /\ j[2] < i[2] => j \in I

Init ==
  /\ sent = {}
  /\ got = [i \in Item |-> 0]
  /\ lost = {}

Send ==
  /\ sent' \in SUBSET Item
  /\ sent \subseteq sent'
  /\ \A i \in sent' \ sent, j \in sent : j[1] = i[1] => j[2] < i[2]
  /\ UNCHANGED <<got, lost>>

Deliver(I) ==
  /\ UNCHANGED <<sent, lost>>
  /\ got' = [i \in Item |-> IF i \in I THEN got[i] + 1 ELSE got[i]]
  /\ InOrder(I)

Drop(I) ==
  /\ UNCHANGED <<sent, got>>
  /\ lost' = lost \cup I
  /\ InOrder(I)

Next == Send \/ \E I \in SUBSET Pending : Deliver(I) \/ Drop(I)

Spec == Init /\ [][Next]_vars

---------------------------------------------------------------------------
TypeOK ==
  /\ sent \subseteq Item
  /\ got \in [Item -> Nat]
  /\ lost \subseteq Item

\* No piece comes twice, and a piece that was thrown away does not come at all:
\* the framework would release a buffer, or close a request, a second time.
AtMostOnce ==
  \A i \in Item : got[i] <= 1 /\ (i \in lost => got[i] = 0)

\* The pieces of an ordered lane are handled in the order in which the HAL produced
\* them: a handled piece has no unhandled one before it.
NoOvertaking ==
  \A i, j \in sent :
    i[1] \notin Loose /\ i[1] = j[1] /\ i[2] < j[2] /\ Handled(j) => Handled(i)
=============================================================================
