-------------------------- MODULE MCResultBatcher --------------------------
(* Values for the constants of ResultBatcher.  Stream ids are above the    *)
(* numbers of the partial results.                                         *)
EXTENDS ResultBatcher

OneStream  == {11}
TwoStreams == {11, 12}
=============================================================================
