---------------------------- MODULE GnssService ----------------------------
(***************************************************************************)
(* The GNSS services: class Gnss of gnss/2.0/default and class GnssExt of  *)
(* gnss/1.0/default, with their measurement, navigation message and       *)
(* batching extensions.  They pass the calls of the framework to the       *)
(* vendor's HAL and keep the callbacks the HAL reports to.  What the       *)
(* reports carry is in GnssReports, the wakelock in GnssWakelock.          *)
(*                                                                         *)
(* defaultPassthroughServiceImplementation gives the service one binder    *)
(* thread: the calls and the notices of death run one after the other, and *)
(* interleave only with the threads of the HAL.  A framework uses the      *)
(* newest callback interface it knows, "1.0", "1.1" or "2.0".              *)
(***************************************************************************)
EXTENDS Naturals

CONSTANTS
  Clients,     (* processes of the framework, one after the other           *)
  MaxCalls     (* bound: calls of the framework                             *)

Nobody   == 0                    \* clients are numbered from 1
Versions == {"1.0", "1.1", "2.0"}
Activities == {"navigating", "measuring", "messages", "batching"}

VARIABLES
  release,         \* "1.0" (GnssExt) or "2.0" (Gnss)
  version,         \* the callback interface this framework uses
  alive, handled,  \* clients that run; clients whose death was handled
  linked,          \* clients mDeathRecipient is linked to
  dropping,        \* the dead client handleHidlDeath has still to forget
  sGnssCbIface,    \* the callbacks of each version (sGnssCbIface, _1_1, _2_0)
  extensions,      \* the extension objects that exist
  extensionCb,     \* the callback of each of them
  mIsActive,
  hal,             \* what the HAL is doing, and for which client
  sCapabilitiesCached, told,     \* told: who has been told of the capabilities
  reporting,       \* the HAL's thread is between the callbacks and the cache
  sFlpSupportsBatching,
  calls

gnssVars == <<release, version, alive, handled, linked, dropping, sGnssCbIface, extensions,
              extensionCb, mIsActive, hal, sCapabilitiesCached, told, reporting,
              sFlpSupportsBatching, calls>>
sessionVars == <<linked, sGnssCbIface, told, sCapabilitiesCached, reporting>>
worldVars   == <<release, version, alive, handled>>

\* The constructors.
Init ==
  /\ release \in {"1.0", "2.0"}
  /\ version \in IF release = "1.0" THEN {"1.0"} ELSE Versions
  /\ alive = Clients /\ handled = {} /\ linked = {} /\ dropping = Nobody
  /\ sGnssCbIface = [v \in Versions |-> Nobody]
  /\ extensions = {} /\ extensionCb = [x \in Activities |-> Nobody]
  /\ mIsActive = FALSE /\ hal = [x \in Activities |-> Nobody]
  /\ sCapabilitiesCached = FALSE /\ told = {} /\ reporting = FALSE
  /\ sFlpSupportsBatching = FALSE
  /\ calls = 0

Callbacks == {sGnssCbIface[v] : v \in Versions} \ {Nobody}

\* A call of client c reaches the binder thread.
Called(c) ==
  /\ c \in alive /\ dropping = Nobody /\ calls < MaxCalls
  /\ calls' = calls + 1

---------------------------------------------------------------------------
(* The callback of the service *)

Unlinked == linked \ {sGnssCbIface["1.0"]}

\* setCallback of 1.0: the old client is unlinked, the new one linked, and told again
\* what the HAL once reported, as are the callbacks of other versions.
SetCallback(c) ==
  /\ Called(c) /\ version = "1.0"
  /\ sGnssCbIface' = [sGnssCbIface EXCEPT !["1.0"] = c]
  /\ linked' = Unlinked \cup {c}
  /\ told' = IF sCapabilitiesCached THEN told \cup Callbacks \cup {c} ELSE told
  /\ UNCHANGED <<worldVars, dropping, extensions, extensionCb, mIsActive, hal,
                 sCapabilitiesCached, reporting, sFlpSupportsBatching>>

\* setCallback_1_1: the cached capabilities are sent, none reported yet or not; nothing is
\* linked.
SetCallback_1_1(c) ==
  /\ Called(c) /\ version = "1.1"
  /\ sGnssCbIface' = [sGnssCbIface EXCEPT !["1.1"] = c]
  /\ told' = told \cup {d \in {c} : sCapabilitiesCached}
  /\ UNCHANGED <<worldVars, dropping, linked, extensions, extensionCb, mIsActive, hal,
                 sCapabilitiesCached, reporting, sFlpSupportsBatching>>

\* setCallback_2_0: the same for its own callback.
SetCallback_2_0(c) ==
  /\ Called(c) /\ version = "2.0"
  /\ sGnssCbIface' = [sGnssCbIface EXCEPT !["2.0"] = c]
  /\ told' = told \cup {d \in {c} : sCapabilitiesCached}
  /\ UNCHANGED <<worldVars, dropping, linked, extensions, extensionCb, mIsActive, hal,
                 sCapabilitiesCached, reporting, sFlpSupportsBatching>>

\* setCapabilitiesCb, on a thread of the HAL: the callbacks, then the cache.  GnssExt
\* ignores a report that finds no callback.
SetCapabilitiesCb ==
  /\ ~reporting /\ ~sCapabilitiesCached
  /\ release = "1.0" => Callbacks # {}
  /\ told' = told \cup Callbacks /\ reporting' = TRUE
  /\ UNCHANGED <<worldVars, dropping, linked, sGnssCbIface, sCapabilitiesCached, extensions,
                 extensionCb, mIsActive, hal, sFlpSupportsBatching,
                 calls>>

CapabilitiesCached ==
  /\ reporting /\ reporting' = FALSE /\ sCapabilitiesCached' = TRUE
  /\ UNCHANGED <<worldVars, dropping, linked, sGnssCbIface, told, extensions, extensionCb,
                 mIsActive, hal, sFlpSupportsBatching,
                 calls>>

---------------------------------------------------------------------------
(* Navigation *)

\* start: Gnss stops a running session first, GnssExt starts over it; the HAL may refuse,
\* and Gnss counts itself as active all the same.
Start(c) ==
  /\ Called(c)
  /\ \E ok \in BOOLEAN :
       hal' = [hal EXCEPT !["navigating"] =
                 IF ok THEN c ELSE IF release = "2.0" /\ mIsActive THEN Nobody ELSE @]
  /\ mIsActive' = (release = "2.0")
  /\ UNCHANGED <<worldVars, dropping, sessionVars, extensions, extensionCb,
                 sFlpSupportsBatching>>

Stop(c) ==
  /\ Called(c)
  /\ mIsActive' = FALSE /\ hal' = [hal EXCEPT !["navigating"] = Nobody]
  /\ UNCHANGED <<worldVars, dropping, sessionVars, extensions, extensionCb,
                 sFlpSupportsBatching>>

\* cleanup: the HAL ends what runs through its main interface; mIsActive stays.
Cleanup(c) ==
  /\ Called(c)
  /\ hal' = [hal EXCEPT !["navigating"] = Nobody]
  /\ UNCHANGED <<worldVars, dropping, sessionVars, extensions, extensionCb, mIsActive,
                 sFlpSupportsBatching>>

---------------------------------------------------------------------------
(* Extensions *)

\* getExtension...: an extension is created at the first request, if the HAL has it.
GetExtension(c, x) ==
  /\ c \in alive /\ dropping = Nobody
  /\ \E implemented \in BOOLEAN :
       extensions' = extensions \cup {y \in {x} : implemented}
  /\ UNCHANGED <<worldVars, dropping, sessionVars, extensionCb, mIsActive, hal,
                 sFlpSupportsBatching, calls>>

GetExtensionGnssMeasurement(c)       == GetExtension(c, "measuring")
GetExtensionGnssNavigationMessage(c) == GetExtension(c, "messages")

\* Batching is a module of its own, which is looked for at every request until it is found.
GetExtensionGnssBatching(c) == GetExtension(c, "batching")
GetExtensionGnssBatching_2_0(c) ==
  release = "2.0" /\ version = "2.0" /\ GetExtension(c, "batching")

\* GnssMeasurement::setCallback, _1_1 and _2_0: the new callback replaces the one of its
\* version, and the HAL reports to it from now on.
SetMeasurementCallback(c) ==
  /\ Called(c) /\ "measuring" \in extensions
  /\ extensionCb' = [extensionCb EXCEPT !["measuring"] = c]
  /\ \E ok \in BOOLEAN : hal' = [hal EXCEPT !["measuring"] = IF ok THEN c ELSE @]
  /\ UNCHANGED <<worldVars, dropping, sessionVars, extensions, mIsActive,
                 sFlpSupportsBatching>>

CloseMeasurement(c) ==
  /\ Called(c) /\ "measuring" \in extensions
  /\ hal' = [hal EXCEPT !["measuring"] = Nobody]
  /\ UNCHANGED <<worldVars, dropping, sessionVars, extensions, extensionCb, mIsActive,
                 sFlpSupportsBatching>>

\* GnssNavigationMessage::setCallback and close.
SetMessageCallback(c) ==
  /\ Called(c) /\ "messages" \in extensions
  /\ extensionCb' = [extensionCb EXCEPT !["messages"] = c]
  /\ \E ok \in BOOLEAN : hal' = [hal EXCEPT !["messages"] = IF ok THEN c ELSE @]
  /\ UNCHANGED <<worldVars, dropping, sessionVars, extensions, mIsActive,
                 sFlpSupportsBatching>>

CloseMessages(c) ==
  /\ Called(c) /\ "messages" \in extensions
  /\ hal' = [hal EXCEPT !["messages"] = Nobody]
  /\ UNCHANGED <<worldVars, dropping, sessionVars, extensions, extensionCb, mIsActive,
                 sFlpSupportsBatching>>

\* GnssBatching::init_2_0, and init of the 1.0 service; the 2.0 service refuses the init
\* of 1.0.
InitBatching(c) ==
  /\ Called(c) /\ "batching" \in extensions
  /\ release = "1.0" \/ version = "2.0"
  /\ extensionCb' = [extensionCb EXCEPT !["batching"] = c]
  /\ UNCHANGED <<worldVars, dropping, sessionVars, extensions, mIsActive, hal,
                 sFlpSupportsBatching>>

\* flpCapabilitiesCb, on a thread of the HAL once it is initialized.
FlpCapabilitiesCb ==
  /\ ~sFlpSupportsBatching /\ extensionCb["batching"] # Nobody
  /\ sFlpSupportsBatching' = TRUE
  /\ UNCHANGED <<worldVars, dropping, sessionVars, extensions, extensionCb, mIsActive, hal,
                 calls>>

StartBatching(c) ==
  /\ Called(c) /\ "batching" \in extensions /\ sFlpSupportsBatching
  /\ \E ok \in BOOLEAN : hal' = [hal EXCEPT !["batching"] = IF ok THEN c ELSE @]
  /\ UNCHANGED <<worldVars, dropping, sessionVars, extensions, extensionCb, mIsActive,
                 sFlpSupportsBatching>>

StopBatching(c) ==
  /\ Called(c) /\ "batching" \in extensions
  /\ hal' = [hal EXCEPT !["batching"] = Nobody]
  /\ UNCHANGED <<worldVars, dropping, sessionVars, extensions, extensionCb, mIsActive,
                 sFlpSupportsBatching>>

---------------------------------------------------------------------------
(* Death of the framework *)

Die(c) ==
  /\ c \in alive /\ alive' = alive \ {c} /\ alive' # {}
  /\ UNCHANGED <<release, version, handled, dropping, sessionVars, extensions, extensionCb,
                 mIsActive, hal, sFlpSupportsBatching,
                 calls>>

\* The HAL is told to stop everything that has an extension...
Closed == extensions

HandleHidlDeath(c) ==
  /\ c \in linked \ alive /\ dropping = Nobody
  /\ mIsActive' = FALSE
  /\ hal' = [x \in Activities |-> IF x \in Closed \cup {"navigating"} THEN Nobody ELSE hal[x]]
  /\ dropping' = c /\ linked' = linked \ {c}
  /\ UNCHANGED <<worldVars, sGnssCbIface, told, sCapabilitiesCached, reporting, extensions,
                 extensionCb, sFlpSupportsBatching,
                 calls>>

\* ... and the callbacks of all versions are forgotten.
ForgetCallbacks ==
  /\ dropping # Nobody
  /\ sGnssCbIface' = [v \in Versions |-> Nobody]
  /\ handled' = handled \cup {dropping} /\ dropping' = Nobody
  /\ UNCHANGED <<release, version, alive, linked, told, sCapabilitiesCached, reporting,
                 extensions, extensionCb, mIsActive, hal, sFlpSupportsBatching, calls>>

Next ==
  \/ SetCapabilitiesCb \/ CapabilitiesCached \/ FlpCapabilitiesCb \/ ForgetCallbacks
  \/ \E c \in Clients :
       \/ SetCallback(c) \/ SetCallback_1_1(c) \/ SetCallback_2_0(c)
       \/ Start(c) \/ Stop(c) \/ Cleanup(c)
       \/ GetExtensionGnssMeasurement(c) \/ GetExtensionGnssNavigationMessage(c)
       \/ GetExtensionGnssBatching(c) \/ GetExtensionGnssBatching_2_0(c)
       \/ SetMeasurementCallback(c) \/ CloseMeasurement(c)
       \/ SetMessageCallback(c) \/ CloseMessages(c)
       \/ InitBatching(c) \/ StartBatching(c) \/ StopBatching(c)
       \/ Die(c) \/ HandleHidlDeath(c)

Spec == Init /\ [][Next]_gnssVars

---------------------------------------------------------------------------
TypeOK ==
  /\ alive \subseteq Clients /\ handled \subseteq Clients \ alive
  /\ linked \subseteq Clients
  /\ {dropping} \cup {hal[x] : x \in Activities} \subseteq Clients \cup {Nobody}
  /\ extensions \subseteq Activities /\ told \subseteq Clients

\* Once the death of a client has been handled nothing is left of it: no callback of the
\* service is its own, and the HAL neither navigates, measures nor batches for it.
DeadClientForgotten ==
  /\ handled \cap Callbacks = {}
  /\ \A x \in Activities : hal[x] \notin handled

\* A notice of death that comes late does not take the callback of the client that has
\* replaced the dead one, and what is linked is the client in place.
LiveClientKept ==
  /\ linked \subseteq {sGnssCbIface["1.0"]}
  /\ dropping # Nobody => Callbacks \subseteq {dropping}

\* Batches run only with a callback that can take them.
BatchesTaken == hal["batching"] # Nobody => extensionCb["batching"] # Nobody

GnssClients == DeadClientForgotten /\ LiveClientKept /\ BatchesTaken
=============================================================================
