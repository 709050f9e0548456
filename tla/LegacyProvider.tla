--------------------------- MODULE LegacyProvider ---------------------------
(***************************************************************************)
(* The camera provider that wraps a vendor's camera module: class          *)
(* LegacyCameraProviderImpl_2_4 of camera/provider/2.4/default.  It keeps  *)
(* the status and the names of the cameras of the module, built in (ids    *)
(* below mNumberOfLegacyCameras) and hot-pluggable, and tells the camera   *)
(* service of them.  A camera of device version 3 has a second name, of    *)
(* version 1, while open_legacy works for it.                              *)
(*                                                                         *)
(* The module's callbacks and setCallback hold mCbLock throughout, so each *)
(* is one step.                                                            *)
(***************************************************************************)
EXTENDS Integers, FiniteSets

CONSTANTS
  BuiltIn,      (* cameras the module counts                                *)
  HotPlugged,   (* cameras it may report later                              *)
  MaxChanges    (* bound: status changes and deaths of the service          *)

Cameras  == BuiltIn \cup HotPlugged
Statuses == {"NOT_PRESENT", "PRESENT", "ENUMERATING"}
Names    == Cameras \X {"v3", "v1"}         \* getHidlDeviceName

VARIABLES
  mCameraStatusMap, mCameraIds, mCameraDeviceNames, mOpenLegacySupported,
  mCallbacks,             \* "none", "alive", or "dead": nobody takes a dead one back
  view,                   \* the service's last news of each name
  listed,                 \* the service has asked for the list of built-in cameras
  unsure,                 \* cameras whose open_legacy has had two different answers
  changes

providerVars == <<mCameraStatusMap, mCameraIds, mCameraDeviceNames, mOpenLegacySupported,
                  mCallbacks, view, listed, unsure, changes>>

Told(f, S, s) == IF mCallbacks = "alive" THEN [n \in DOMAIN f \cup S |-> IF n \in S THEN s ELSE f[n]] ELSE f
NamesOf(c)    == {n \in mCameraDeviceNames : n[1] = c}
Opened(c, works) == {<<c, "v3">>} \cup {n \in {<<c, "v1">>} : works}

\* initialize: every built-in camera has a supported version and is taken as present.
Init ==
  \E works \in [BuiltIn -> BOOLEAN] :
    /\ mCameraStatusMap = [c \in BuiltIn |-> "PRESENT"]
    /\ mCameraIds = BuiltIn /\ mOpenLegacySupported = works
    /\ mCameraDeviceNames = UNION {Opened(c, works[c]) : c \in BuiltIn}
    /\ mCallbacks = "none" /\ view = <<>> /\ listed = FALSE /\ unsure = {} /\ changes = 0

---------------------------------------------------------------------------
\* addDeviceNames: the first name, and the second if open_legacy succeeds; it may not,
\* with the camera in use.
AddDeviceNames(S, works) ==
  /\ mCameraIds' = mCameraIds \cup S
  /\ mOpenLegacySupported' =
       [c \in DOMAIN mOpenLegacySupported \cup S |->
          IF c \in S THEN works[c] ELSE mOpenLegacySupported[c]]
  /\ mCameraDeviceNames' = mCameraDeviceNames \cup UNION {Opened(c, works[c]) : c \in S}
  /\ unsure' = unsure \cup {c \in S : <<c, "v1">> \in mCameraDeviceNames /\ ~works[c]}

\* removeDeviceNames
SecondName(c) == {n \in {<<c, "v1">>} : mOpenLegacySupported[c]}

NamesRemoved(c) == {<<c, "v3">>} \cup SecondName(c)

\* sCameraDeviceStatusChange
CameraDeviceStatusChange(c, s) ==
  /\ changes < MaxChanges /\ changes' = changes + 1
  /\ mCameraStatusMap' = [d \in DOMAIN mCameraStatusMap \cup {c} |->
                            IF d = c THEN s ELSE mCameraStatusMap[d]]
  /\ LET found == NamesOf(c) # {}
     IN  CASE mCallbacks = "none" ->
                UNCHANGED <<mCameraIds, mCameraDeviceNames, mOpenLegacySupported, unsure, view>>
           [] mCallbacks # "none" /\ s # "NOT_PRESENT" /\ ~found ->
                \E works \in [{c} -> BOOLEAN] :
                  AddDeviceNames({c}, works) /\ view' = Told(view, Opened(c, works[c]), s)
           [] mCallbacks # "none" /\ s = "NOT_PRESENT" /\ found ->
                /\ mCameraIds' = mCameraIds \ {c}
                /\ mCameraDeviceNames' = mCameraDeviceNames \ NamesRemoved(c)
                /\ view' = Told(view, NamesOf(c) \cup NamesRemoved(c), s)
                /\ UNCHANGED <<mOpenLegacySupported, unsure>>
           [] OTHER ->
                /\ view' = Told(view, NamesOf(c), s)
                /\ UNCHANGED <<mCameraIds, mCameraDeviceNames, mOpenLegacySupported, unsure>>
  /\ UNCHANGED <<mCallbacks, listed>>

\* The module reports what changes: a camera it has not reported yet is not there.
StatusOf(c) == IF c \in DOMAIN mCameraStatusMap THEN mCameraStatusMap[c] ELSE "NOT_PRESENT"

StatusChange ==
  \E c \in Cameras, s \in Statuses : s # StatusOf(c) /\ CameraDeviceStatusChange(c, s)

\* setCallback: hot-plugged cameras that are there are added and reported (again).
SetCallback ==
  /\ mCallbacks # "alive"
  /\ mCallbacks' = "alive"
  /\ LET S == {c \in DOMAIN mCameraStatusMap \ BuiltIn : mCameraStatusMap[c] # "NOT_PRESENT"}
     IN  \E works \in [S -> BOOLEAN] :
           /\ AddDeviceNames(S, works)
           /\ view' = [n \in UNION {Opened(c, works[c]) : c \in S} |-> mCameraStatusMap[n[1]]]
  /\ UNCHANGED <<mCameraStatusMap, listed, changes>>

\* getCameraIdList: the built-in cameras that are present.
GetCameraIdList ==
  /\ mCallbacks = "alive" /\ ~listed /\ listed' = TRUE
  /\ view' = Told(view, {n \in mCameraDeviceNames : n[1] \in BuiltIn /\ StatusOf(n[1]) = "PRESENT"},
                  "PRESENT")
  /\ UNCHANGED <<mCameraStatusMap, mCameraIds, mCameraDeviceNames, mOpenLegacySupported, mCallbacks,
                 unsure, changes>>

\* External: the camera service dies; its successor starts with nothing.
ServiceDies ==
  /\ mCallbacks = "alive" /\ changes < MaxChanges
  /\ mCallbacks' = "dead" /\ view' = <<>> /\ listed' = FALSE /\ changes' = changes + 1
  /\ UNCHANGED <<mCameraStatusMap, mCameraIds, mCameraDeviceNames, mOpenLegacySupported, unsure>>

\* getCameraDeviceInterface_V3_x: the name must be known, and its camera present.
DeviceInterface(n) ==
  IF n \notin mCameraDeviceNames
    THEN IF n[1] \notin mCameraIds THEN "ILLEGAL_ARGUMENT" ELSE "OPERATION_NOT_SUPPORTED"
  ELSE IF StatusOf(n[1]) # "PRESENT" THEN "ILLEGAL_ARGUMENT" ELSE "OK"

Next == StatusChange \/ SetCallback \/ GetCameraIdList \/ ServiceDies

Spec == Init /\ [][Next]_providerVars

---------------------------------------------------------------------------
TypeOK ==
  /\ DOMAIN mCameraStatusMap \subseteq Cameras /\ mCameraIds \subseteq Cameras
  /\ mCameraDeviceNames \subseteq Names /\ DOMAIN view \subseteq Names
  /\ DOMAIN mOpenLegacySupported \subseteq Cameras

\* Whatever order plugging, unplugging, listing and restarts of the camera service come
\* in, a service that has set its callback and taken the list can open every name it
\* believes present, believes present every name that could be opened, and can open every
\* camera that is present by its first name.  (Cameras whose open_legacy has answered both
\* ways are left out: the list of names then keeps a name that removeDeviceNames does not
\* know of.)
ServiceAgrees ==
  mCallbacks = "alive" /\ listed =>
    \A n \in Names : n[1] \notin unsure =>
      /\ DeviceInterface(n) = "OK" <=> n \in DOMAIN view /\ view[n] = "PRESENT"
      /\ n[2] = "v3" /\ StatusOf(n[1]) = "PRESENT" => n \in mCameraDeviceNames
=============================================================================
