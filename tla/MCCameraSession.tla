-------------------------- MODULE MCCameraSession --------------------------
(***************************************************************************)
(* Sessions of CameraSession for TLC: an old device, and newer ones that   *)
(* ask for their buffers or leave the post-RAW boost to the session.       *)
(***************************************************************************)
EXTENDS CameraSession, TLC

Trait(early, mgr, boost, old, partials) ==
  [freeBufEarly |-> early, bufMgr |-> mgr, deriveBoost |-> boost, version32 |-> old, partials |-> partials]
OldDevice == Trait(FALSE, FALSE, TRUE, TRUE, 2)
V == {OldDevice, Trait(TRUE, TRUE, FALSE, FALSE, 1), Trait(TRUE, FALSE, TRUE, FALSE, 1)}

Symm == Permutations(Streams)
=============================================================================
