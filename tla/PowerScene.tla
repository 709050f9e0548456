----------------------------- MODULE PowerScene -----------------------------
(***************************************************************************)
(* The client's side of a scene hint: class PowerHintScene of              *)
(* power/power_api/java/android/os/PowerHALManager.java.  It counts its    *)
(* holds, some of which end by a message to a Handler, and tells the       *)
(* service (PowerHint) of the first and of the last.  A method runs inside *)
(* the object's monitor, but mService is set to null outside it, by the    *)
(* notice of the service's death.                                          *)
(***************************************************************************)
EXTENDS Integers

CONSTANT MaxAcquires   \* bound: calls of acquire

VARIABLES
  mCount, mService, mHandler,     \* mService, mHandler: is there one?
  monitor,       \* "free", or the method that has found mService and is to call it
  posted,        \* mReleaser messages in the Handler's queue
  dispatched,    \* the Handler runs mReleaser, which waits for the monitor
  server,        \* the service process: "first", "dead", or "next", which knows nobody
  holding,       \* the service holds the scene for this object
  scene,         \* "used", "finalized", or "crashed" with its process
  untimed, timed,  \* history: holds that acquire() and acquire(timeout) began and nobody ended
  crossed,       \* history: a release ended a timed hold, and its timer another
  acquires

sceneVars == <<mCount, mService, mHandler, monitor, posted, dispatched, server, holding, scene,
               untimed, timed, crossed, acquires>>
holdVars  == <<untimed, timed, crossed>>

\* createPowerHintScene needs a service.
Init ==
  /\ mCount = 0 /\ mService = TRUE /\ mHandler \in BOOLEAN
  /\ monitor = "free" /\ posted = 0 /\ dispatched = FALSE
  /\ server = "first" /\ holding = FALSE /\ scene = "used"
  /\ untimed = 0 /\ timed = 0 /\ crossed = FALSE /\ acquires = 0

Called == scene = "used" /\ monitor = "free"

\* The two methods tell the service of the first hold and of the last, if there is a service.
Tells(call) == monitor' = IF mService THEN call ELSE "free"

---------------------------------------------------------------------------
\* acquire() and acquire(timeout).  The message of a timed hold is posted after the call, but
\* inside the monitor; without a Handler there are no timed holds.
Acquire(isTimed) ==
  /\ Called /\ acquires < MaxAcquires /\ acquires' = acquires + 1
  /\ isTimed => mHandler
  /\ mCount' = mCount + 1
  /\ LET kept == IF mCount = 0 THEN 0 ELSE posted
     IN  posted' = IF isTimed THEN kept + 1 ELSE kept
  /\ IF mCount = 0 THEN Tells("acquire") ELSE UNCHANGED monitor
  /\ IF isTimed THEN timed' = timed + 1 /\ UNCHANGED untimed
                ELSE untimed' = untimed + 1 /\ UNCHANGED timed
  /\ UNCHANGED <<mService, mHandler, dispatched, server, holding, scene, crossed>>

\* Mutant: the messages stay when the last hold is gone.
LeftPosted == posted
NonePosted == 0

ReleaseLocked ==
  /\ mCount' = mCount - 1
  /\ IF mCount = 1 THEN posted' = NonePosted /\ Tells("release") ELSE UNCHANGED <<posted, monitor>>

\* release() for a hold without a timer, or for one whose timer has not gone off.
Release ==
  /\ Called
  /\ ReleaseLocked
  /\ \/ /\ untimed > 0 /\ untimed' = untimed - 1
        /\ UNCHANGED <<timed, crossed>>
     \/ /\ timed > 0 /\ timed' = timed - 1
        /\ crossed' = (crossed \/ untimed + timed > 1 \/ dispatched)
        /\ UNCHANGED untimed
  /\ UNCHANGED <<mService, mHandler, dispatched, server, holding, scene, acquires>>

\* The Handler takes a message, which nobody can remove any more, ...
Dispatch ==
  /\ scene = "used" /\ posted > 0 /\ ~dispatched
  /\ posted' = posted - 1 /\ dispatched' = TRUE
  /\ UNCHANGED <<mCount, mService, mHandler, monitor, server, holding, scene, holdVars, acquires>>

\* ... and mReleaser gets the monitor.
Releaser ==
  /\ Called /\ dispatched
  /\ dispatched' = FALSE
  /\ ReleaseLocked
  /\ timed' = IF timed > 0 THEN timed - 1 ELSE 0
  /\ UNCHANGED <<mService, mHandler, server, holding, scene, untimed, crossed, acquires>>

\* The call of the service.  A dead one throws a RemoteException, which is caught; a field that
\* is null by now throws an exception that is not.
CallService ==
  /\ scene = "used" /\ monitor # "free" /\ monitor' = "free"
  /\ scene' = IF mService THEN "used" ELSE "crashed"
  /\ holding' = IF mService /\ server = "first" THEN monitor = "acquire" ELSE holding
  /\ UNCHANGED <<mCount, mService, mHandler, posted, dispatched, server, holdVars, acquires>>

\* finalize: nothing refers to the object, no message either.  It looks for a new service,
\* and tells the one it has.
Finalize ==
  /\ Called /\ posted = 0 /\ ~dispatched
  /\ scene' = "finalized"
  /\ holding' = (holding /\ ~(mCount > 0 /\ server = "first" /\ mService))
  /\ mService' \in IF mCount > 0 /\ server = "next" THEN {mService, TRUE} ELSE {mService}
  /\ UNCHANGED <<mCount, mHandler, monitor, posted, dispatched, server, holdVars, acquires>>

---------------------------------------------------------------------------
(* The service (external), and the notice of its death. *)

ServiceDies ==
  /\ server = "first" /\ server' = "dead" /\ holding' = FALSE
  /\ UNCHANGED <<mCount, mService, mHandler, monitor, posted, dispatched, scene, holdVars, acquires>>

ServiceRestarts ==
  /\ server = "dead" /\ server' = "next"
  /\ UNCHANGED <<mCount, mService, mHandler, monitor, posted, dispatched, holding, scene, holdVars,
                 acquires>>

serviceDied ==
  /\ server # "first" /\ mService /\ scene = "used" /\ mService' = FALSE
  /\ UNCHANGED <<mCount, mHandler, monitor, posted, dispatched, server, holding, scene, holdVars,
                 acquires>>

Next ==
  \/ \E isTimed \in BOOLEAN : Acquire(isTimed)
  \/ Release \/ Dispatch \/ Releaser \/ CallService \/ Finalize
  \/ ServiceDies \/ ServiceRestarts \/ serviceDied

Spec == Init /\ [][Next]_sceneVars

---------------------------------------------------------------------------
TypeOK ==
  /\ mCount \in Int
  /\ mService \in BOOLEAN /\ mHandler \in BOOLEAN /\ dispatched \in BOOLEAN
  /\ holding \in BOOLEAN /\ crossed \in BOOLEAN
  /\ monitor \in {"free", "acquire", "release"}
  /\ posted \in Nat /\ untimed \in Nat /\ timed \in Nat /\ acquires \in Nat
  /\ server \in {"first", "dead", "next"} /\ scene \in {"used", "finalized", "crashed"}

\* The service holds the scene exactly while the count is positive, and no longer than the
\* object exists.  Until an early release of a timed hold meets its timer, the count is that
\* of the holds, and each timed hold has its message.
HoldsKept ==
  /\ Called /\ mService /\ server = "first" => (holding <=> mCount > 0)
  /\ scene = "finalized" => ~holding
  /\ Called /\ ~crossed =>
       /\ mCount = untimed + timed
       /\ timed = posted + (IF dispatched THEN 1 ELSE 0)
=============================================================================
