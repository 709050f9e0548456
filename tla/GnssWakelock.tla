--------------------------- MODULE GnssWakelock ---------------------------
(***************************************************************************)
(* The wakelock of the GNSS services (Gnss::updateWakelock of 2.0, and     *)
(* GnssExt::updateWakelock of 1.0): the GNSS and the fused location thread *)
(* of the HAL each ask for it, and the framework is to hold it while       *)
(* either does.  The two threads run updateWakelock without a lock, so     *)
(* each read and write of the shared flags is a step of its own; the       *)
(* binder thread sets the framework's callback, and forgets it when the    *)
(* framework has died.                                                     *)
(***************************************************************************)
EXTENDS Naturals

CONSTANTS
  MaxRequests,  (* bound: requests of the two threads                       *)
  MaxCallbacks, (* bound: callbacks set                                     *)
  Repeats       (* does the HAL repeat a request?                           *)

Threads == {"gnss", "fused"}

VARIABLES
  release,         \* "1.0" (GnssExt) or "2.0" (Gnss)
  sGnssCbIface,    \* "none", "alive", or "dead": of a framework that has died
  callbacks,       \* callbacks set so far
  wants,           \* sWakelockHeldGnss, sWakelockHeldFused
  sWakelockHeld,   \* "the state of the last request"
  pc,              \* where each thread is in updateWakelock
  held,            \* the framework of the callback holds its wakelock
  alone,           \* history: the request under way has not met another
  disturbed,       \* history: requests met, or the callback changed under one or under
                   \* a lock in force, and no release has run alone since
  requests

wakeVars == <<release, sGnssCbIface, callbacks, wants, sWakelockHeld, pc, held, alone, disturbed,
              requests>>
historyVars  == <<alone, disturbed>>
callbackVars == <<release, sGnssCbIface, callbacks>>

Init ==
  /\ release \in {"1.0", "2.0"} /\ sGnssCbIface = "none" /\ callbacks = 0
  /\ wants = [t \in Threads |-> FALSE] /\ sWakelockHeld = FALSE
  /\ pc = [t \in Threads |-> "idle"] /\ held = FALSE
  /\ alone = FALSE /\ disturbed = FALSE /\ requests = 0

---------------------------------------------------------------------------
(* The binder thread: the static flag of updateWakelock stays as it is. *)

CallbackChanges ==
  /\ disturbed' = (disturbed \/ sWakelockHeld \/ \E t \in Threads : wants[t] \/ pc[t] # "idle")
  /\ UNCHANGED <<release, wants, sWakelockHeld, pc, alone, requests>>

\* setCallback, of a framework that may be the one there was.
SetCallback ==
  /\ callbacks < MaxCallbacks /\ callbacks' = callbacks + 1
  /\ sGnssCbIface' = "alive" /\ held' \in {held, FALSE}
  /\ CallbackChanges

\* External: the framework dies, and with it its wakelock.
Die ==
  /\ sGnssCbIface = "alive"
  /\ sGnssCbIface' = "dead" /\ held' = FALSE
  /\ UNCHANGED callbacks /\ CallbackChanges

HandleHidlDeath ==
  /\ sGnssCbIface = "dead"
  /\ sGnssCbIface' = "none"
  /\ UNCHANGED <<callbacks, held>> /\ CallbackChanges

---------------------------------------------------------------------------
(* The threads of the HAL. *)

\* acquireWakelockGnss, releaseWakelockGnss and those of the fused thread.
Ask(t) ==
  /\ pc[t] = "idle" /\ requests < MaxRequests /\ requests' = requests + 1
  /\ \E want \in BOOLEAN : (Repeats \/ want # wants[t]) /\ wants' = [wants EXCEPT ![t] = want]
  /\ pc' = [pc EXCEPT ![t] = "check"]
  /\ alone' = (\A u \in Threads : pc[u] = "idle") /\ disturbed' = (disturbed \/ ~alone')
  /\ UNCHANGED <<callbackVars, sWakelockHeld, held>>

\* GnssExt does nothing without a callback.
Check(t) ==
  /\ pc[t] = "check"
  /\ pc' = [pc EXCEPT ![t] = IF release = "1.0" /\ sGnssCbIface = "none" THEN "idle" ELSE "decide"]
  /\ UNCHANGED <<callbackVars, wants, sWakelockHeld, held, historyVars, requests>>

\* The first condition of updateWakelock.
Decide(t) ==
  /\ pc[t] = "decide"
  /\ pc' = [pc EXCEPT ![t] = IF \E u \in Threads : wants[u] THEN "test" ELSE "drop"]
  /\ UNCHANGED <<callbackVars, wants, sWakelockHeld, held, historyVars, requests>>

\* One of them wants it: the framework is asked for it unless it was already.
Test(t) ==
  /\ pc[t] = "test"
  /\ pc' = [pc EXCEPT ![t] = IF sWakelockHeld THEN "idle" ELSE "take"]
  /\ UNCHANGED <<callbackVars, wants, sWakelockHeld, held, historyVars, requests>>

Take(t) ==
  /\ pc[t] = "take" /\ sWakelockHeld' = TRUE /\ pc' = [pc EXCEPT ![t] = "acquire"]
  /\ UNCHANGED <<callbackVars, wants, held, historyVars, requests>>

\* gnssAcquireWakelockCb, if there is a callback; a dead framework does not hear it.
\* (GnssExt has looked before, and would use a callback that is gone by now.)
Acquire(t) ==
  /\ pc[t] = "acquire" /\ held' = (sGnssCbIface = "alive") /\ pc' = [pc EXCEPT ![t] = "idle"]
  /\ UNCHANGED <<callbackVars, wants, sWakelockHeld, historyVars, requests>>

\* Nobody wants it: "to avoid burning power, always release".
Drop(t) ==
  /\ pc[t] = "drop" /\ sWakelockHeld' = FALSE
  /\ pc' = [pc EXCEPT ![t] = "release"]
  /\ disturbed' = (disturbed /\ ~alone)
  /\ UNCHANGED <<callbackVars, wants, held, alone, requests>>

\* gnssReleaseWakelockCb
Release(t) ==
  /\ pc[t] = "release" /\ held' = FALSE /\ pc' = [pc EXCEPT ![t] = "idle"]
  /\ UNCHANGED <<callbackVars, wants, sWakelockHeld, historyVars, requests>>

Update(t) == Ask(t) \/ Check(t) \/ Decide(t) \/ Test(t) \/ Take(t) \/ Acquire(t) \/ Drop(t)
             \/ Release(t)

Next == SetCallback \/ Die \/ HandleHidlDeath \/ \E t \in Threads : Update(t)

Spec == Init /\ [][Next]_wakeVars

---------------------------------------------------------------------------
TypeOK ==
  /\ release \in {"1.0", "2.0"} /\ sGnssCbIface \in {"none", "alive", "dead"}
  /\ wants \in [Threads -> BOOLEAN] /\ sWakelockHeld \in BOOLEAN /\ held \in BOOLEAN
  /\ pc \in [Threads -> {"idle", "check", "decide", "test", "take", "acquire", "drop", "release"}]

\* Requests that do not meet are consolidated: the framework holds its wakelock exactly
\* while a thread wants it, whatever the HAL repeats and however frameworks come and go
\* while no lock is in force; and a release that runs alone puts right whatever requests
\* that met, or a framework that came or went under a lock, have left.
WakelockFollows ==
  (\A t \in Threads : pc[t] = "idle") /\ sGnssCbIface = "alive" /\ ~disturbed =>
    (held <=> \E t \in Threads : wants[t])
=============================================================================
