-------------------------- MODULE ExternalProvider --------------------------
(***************************************************************************)
(* The provider of USB cameras, ExternalCameraProviderImpl_2_4 of          *)
(* camera/provider/2.4/default: its hot-plug thread adds the nodes it      *)
(* finds in /dev, then those that inotify reports, and removes the nodes   *)
(* that go; the camera service may set its callback at any time.           *)
(***************************************************************************)
EXTENDS Naturals, Sequences, FiniteSets

CONSTANTS
  Nodes,        (* names in /dev that start with "video"                    *)
  Internal,     (* those that the configuration excludes                    *)
  MaxPlugs      (* bound: nodes created and deleted                         *)

External == Nodes \ Internal

VARIABLES
  dev,                    \* the nodes in /dev
  events,                 \* what inotify has to report
  thread,                 \* HotplugThread: where it is, and the node it works on
  mCameraStatusMap,       \* the names that are PRESENT
  mCallbacks,
  setter,                 \* setCallback: names to report, and the one it holds
  view,                   \* what the camera service believes present
  gap, unopened, raced,   \* nodes changed before the watch; whose probe failed;
                          \* removed under setCallback's iteration
  plugs

hotplugVars == <<dev, events, thread, mCameraStatusMap, mCallbacks, setter, view, gap, unopened,
                 raced, plugs>>
historyVars == <<gap, unopened, raced, plugs>>

Waiting == [pc |-> "read"]
NoSetter == [todo |-> {}, held |-> {}]

Init ==
  /\ dev \in SUBSET Nodes
  /\ events = <<>> /\ thread = [pc |-> "open"]
  /\ mCameraStatusMap = {} /\ mCallbacks = FALSE /\ setter = NoSetter /\ view = {}
  /\ gap = {} /\ unopened = {} /\ raced = {} /\ plugs = 0

---------------------------------------------------------------------------
\* External: a node comes or goes; inotify reports it once the watch is set.
Watched == thread.pc \notin {"open", "scan", "watch"} /\ ~("scanning" \in DOMAIN thread)

Plug ==
  /\ plugs < MaxPlugs /\ plugs' = plugs + 1
  /\ \E n \in Nodes :
       /\ dev' = IF n \in dev THEN dev \ {n} ELSE dev \cup {n}
       /\ events' = IF Watched THEN Append(events, <<IF n \in dev THEN "delete" ELSE "create", n>>)
                               ELSE events
       /\ gap' = IF Watched THEN gap \ {n} ELSE gap \cup {n}
       /\ unopened' = unopened \ {n}
  /\ UNCHANGED <<thread, mCameraStatusMap, mCallbacks, setter, view, raced>>

---------------------------------------------------------------------------
(* HotplugThread::threadLoop *)

OpenDir ==
  /\ thread.pc = "open"
  /\ thread' = [pc |-> "scan", left |-> dev \ Internal]
  /\ UNCHANGED <<dev, events, mCameraStatusMap, mCallbacks, setter, view, historyVars>>

\* The nodes of the directory one by one, then inotify_init and inotify_add_watch; when
\* they fail the loop starts again.
ScanNext ==
  /\ thread.pc = "scan"
  /\ IF thread.left = {} THEN thread' = [pc |-> "watch"]
     ELSE \E n \in thread.left :
            thread' = [pc |-> "probe", node |-> n, scanning |-> thread.left \ {n}]
  /\ UNCHANGED <<dev, events, mCameraStatusMap, mCallbacks, setter, view, historyVars>>

Watch ==
  /\ thread.pc = "watch"
  /\ thread' \in {Waiting, [pc |-> "open"]}
  /\ UNCHANGED <<dev, events, mCameraStatusMap, mCallbacks, setter, view, historyVars>>

ReadEvent ==
  /\ thread.pc = "read" /\ events # <<>>
  /\ events' = Tail(events)
  /\ LET n == Head(events)[2]
     IN  thread' = IF n \in Internal THEN thread
                   ELSE [pc |-> IF Head(events)[1] = "create" THEN "probe" ELSE "remove", node |-> n]
  /\ UNCHANGED <<dev, mCameraStatusMap, mCallbacks, setter, view, historyVars>>

Resume == IF "scanning" \in DOMAIN thread THEN [pc |-> "scan", left |-> thread.scanning] ELSE Waiting

\* deviceAdded opens the node and makes a device of it, without the lock; a node that
\* cannot be opened (yet) is not tried again.
DeviceAdded ==
  /\ thread.pc = "probe"
  /\ \/ /\ thread.node \in dev
        /\ thread' = [thread EXCEPT !.pc = "add"] /\ UNCHANGED unopened
     \/ thread' = Resume /\ unopened' = unopened \cup ({thread.node} \cap dev)
  /\ UNCHANGED <<dev, events, mCameraStatusMap, mCallbacks, setter, view, gap, raced, plugs>>

\* addExternalCamera, under mLock
AddExternalCamera ==
  /\ thread.pc = "add"
  /\ mCameraStatusMap' = mCameraStatusMap \cup {thread.node}
  /\ view' = IF mCallbacks THEN view \cup {thread.node} ELSE view
  /\ raced' = raced \ {thread.node}
  /\ thread' = Resume
  /\ UNCHANGED <<dev, events, mCallbacks, setter, gap, unopened, plugs>>

\* deviceRemoved, under mLock; a node that is not known is left alone.

\* Mutant: the service is not told.
MapOnly(v, n)   == v
ToldGone(v, n)  == v \ {n}

DeviceRemoved ==
  /\ thread.pc = "remove"
  /\ LET known == thread.node \in mCameraStatusMap
     IN  /\ mCameraStatusMap' = mCameraStatusMap \ {thread.node}
         /\ view' = IF known /\ mCallbacks THEN ToldGone(view, thread.node) ELSE view
         /\ raced' = raced \cup (setter.held \cap {thread.node})
  /\ thread' = Waiting
  /\ UNCHANGED <<dev, events, mCallbacks, setter, gap, unopened, plugs>>

---------------------------------------------------------------------------
\* setCallback stores the callback under mLock, and walks the map without it.
SetCallback ==
  /\ ~mCallbacks /\ setter = NoSetter
  /\ mCallbacks' = TRUE
  /\ setter' = [todo |-> mCameraStatusMap, held |-> {}]
  /\ UNCHANGED <<dev, events, thread, mCameraStatusMap, view, historyVars>>

SetterReads ==
  /\ setter.held = {} /\ setter.todo # {}
  /\ \E n \in setter.todo :
       setter' = [todo |-> setter.todo \ {n}, held |-> {n} \cap mCameraStatusMap]
  /\ UNCHANGED <<dev, events, thread, mCameraStatusMap, mCallbacks, view, historyVars>>

SetterReports ==
  /\ setter.held # {}
  /\ view' = IF mCallbacks THEN view \cup setter.held ELSE view
  /\ setter' = [setter EXCEPT !.held = {}]
  /\ UNCHANGED <<dev, events, thread, mCameraStatusMap, mCallbacks, historyVars>>

\* External: the service that set the callback has died; another will set its own.
ServiceDies ==
  /\ mCallbacks /\ setter = NoSetter /\ plugs < MaxPlugs /\ plugs' = plugs + 1
  /\ mCallbacks' = FALSE /\ view' = {} /\ raced' = {}
  /\ UNCHANGED <<dev, events, thread, mCameraStatusMap, setter, gap, unopened>>

Next == \/ Plug \/ ServiceDies
        \/ OpenDir \/ ScanNext \/ Watch \/ ReadEvent \/ DeviceAdded \/ AddExternalCamera
        \/ DeviceRemoved \/ SetCallback \/ SetterReads \/ SetterReports

Spec == Init /\ [][Next]_hotplugVars

---------------------------------------------------------------------------
TypeOK ==
  /\ dev \subseteq Nodes /\ mCameraStatusMap \subseteq External /\ view \subseteq External
  /\ setter.todo \cup setter.held \subseteq External

\* When every event has been worked off, the map holds the USB nodes that are there and
\* nothing else, however quickly a node came and went; and the service believes what
\* the map says.  Left out are a node that changed between the scan and the watch, one
\* whose probe failed, and one removed while setCallback was about to report it.
SettledViewExact ==
  thread = Waiting /\ events = <<>> /\ setter = NoSetter =>
    /\ (mCameraStatusMap \ gap) \ unopened = ((dev \cap External) \ gap) \ unopened
    /\ mCallbacks => view \ raced = mCameraStatusMap \ raced
=============================================================================
