-------------------------- MODULE MCExtCamSession --------------------------
(* A small instance of ExtCamSession: two rates with their own buffer counts. *)
EXTENDS ExtCamSession, TLC

MCBufferCount == [r \in Rates |-> IF r = DefaultRate THEN 2 ELSE 1]

MCStreamSymmetry == Permutations(Streams)
=============================================================================
