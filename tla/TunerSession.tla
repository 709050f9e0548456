---------------------------- MODULE TunerSession ----------------------------
(***************************************************************************)
(* The FM tuner service: broadcastradio/2.0/default (BroadcastRadio,       *)
(* TunerSession, fm_hal_bridge, fmr_core) over one radio chip.             *)
(*                                                                         *)
(* Four kinds of threads meet: binder threads (Callers) that open sessions *)
(* and call their methods, the WorkerThread of each session, which runs    *)
(* scheduled tasks one by one, the RDS thread of each session, and the     *)
(* binder thread that destroys a session nobody refers to.  A step is the  *)
(* code between two points where another of them can come in: a lock, a    *)
(* driver call that a stop request may overtake, a racy read or write.     *)
(*                                                                         *)
(* The locks are read off the control points: mMut of a session is held    *)
(* by a caller inside a method or by a worker that tunes, mRdsMut by the   *)
(* RDS thread while it compares, the module's mMut by a caller that opens. *)
(* RDS texts are left out: whether they changed is an open choice.         *)
(***************************************************************************)
EXTENDS Integers, Sequences, FiniteSets

CONSTANTS
  Sessions,      (* session objects, in the order they may be opened         *)
  Callers,       (* binder threads                                           *)
  Freqs,         (* programs, in channels from the bottom of the band        *)
  Home,          (* the program a new session starts with (87500)            *)
  InRange,       (* programs inside one of the configured AM/FM ranges       *)
  Fm,            (* programs a hardware seek accepts as its start            *)
  Operations,    (* what the clients do                                      *)
  OpenMayFail, SeekMayFail, \* whether open("/dev/fm") and a seek can fail
  MaxCalls,      (* bound: calls begun                                       *)
  MaxTasks,      (* bound: tasks may wait when the RDS thread wakes, fewer than this        *)
  None

ASSUME TunerAssumption ==
  /\ Freqs \subseteq Nat /\ \E f \in Freqs : \A g \in Freqs : g <= f
  /\ Home \in Freqs \cap InRange \cap Fm
  /\ InRange \subseteq Freqs /\ Fm \subseteq Freqs
  /\ None \notin Freqs \cup Sessions
  /\ OpenMayFail \in BOOLEAN /\ SeekMayFail \in BOOLEAN
  /\ MaxCalls \in Nat /\ MaxTasks \in Nat

VARIABLES
  obj,             \* the fields of each TunerSession, and who refers to it
  tasks,           \* the queue of each mThread
  worker,          \* the thread that runs it
  rds,             \* mRdsUpdateThread and its local newInfo
  call,            \* what each binder thread executes
  mSession,        \* BroadcastRadio's weak reference
  g_idx,           \* the bridge's device index, -1 or 0
  drv,             \* the chip behind the file descriptor, and whether that is open
  fmr,             \* fmr_data.cur_freq and fmr_data.scan_stop
  sprdrds_state,
  sprdtune_state,
  calls,
  \* for the properties only
  told,            \* the program last reported to each session's client
  stray,           \* who has called the driver through index -1
  late             \* hardware seeks since a stop request reached a search, or -1

vars == <<obj, tasks, worker, rds, call, mSession, g_idx, drv, fmr,
          sprdrds_state, sprdtune_state, calls, told, stray, late>>
device  == <<mSession, g_idx, drv, fmr>>
statics == <<sprdrds_state, sprdtune_state>>

SessionOps == Operations \cap {"tune", "scan", "step", "cancel", "list", "close"}
ParamOps   == Operations \cap {"stopScan", "rdsOn", "rdsOff"}

Task == [kind : {"tune", "rds", "list"}, sel : Freqs \cup {None}]
Idle == [pc |-> "idle", s |-> None, op |-> None, arg |-> Home, pos |-> 0, found |-> FALSE]
Top  == 1 + CHOOSE f \in Freqs : \A g \in Freqs : g <= f

Init ==
  /\ obj = [s \in Sessions |->
       [ref |-> "unborn", mIsClosed |-> TRUE, mIsTerminating |-> FALSE,
        mIsRdsSupported |-> FALSE, mIsTuneCompleted |-> FALSE,
        mCurrentProgram |-> None, mCurrentProgramInfo |-> None]]
  /\ tasks = [s \in Sessions |-> <<>>]
  /\ worker = [s \in Sessions |-> [pc |-> "idle", sel |-> None, kind |-> None]]
  /\ rds = [s \in Sessions |-> [pc |-> "none", newInfo |-> None]]
  /\ call = [c \in Callers |-> Idle]
  /\ mSession = None
  /\ g_idx = -1
  /\ drv = [open |-> FALSE, freq |-> Home, rds |-> FALSE, muted |-> FALSE, searching |-> FALSE,
             searched |-> FALSE]          \* history: a band search has run
  /\ fmr = [cur_freq |-> Home, scan_stop |-> FALSE]
  /\ sprdrds_state = 0 /\ sprdtune_state = 0
  /\ calls = 0
  /\ told = [s \in Sessions |-> None]
  /\ stray = {}
  /\ late = -1

---------------------------------------------------------------------------
(* Locks. *)

InMethod == {"tune1", "scan1", "scan2", "scan3", "scan4", "step1",
             "list1", "list2", "list3", "list3s", "list4", "list5", "close1"}

MutFree(s) ==
  /\ worker[s].pc # "tuning"
  /\ \A c \in Callers : call[c].s = s => call[c].pc \notin InMethod
RdsMutFree(s) == rds[s].pc # "compare"
ModuleMutFree == \A c \in Callers : call[c].op = "open" => call[c].pc = "open"

---------------------------------------------------------------------------
(* The driver, as the bridge reaches it. *)

Usable == g_idx = 0 /\ drv.open

\* What a call does to the chip; on a descriptor that is not open it only fails.
Driver(new) == IF Usable THEN new ELSE drv

RdsSet(s, on) == IF obj[s].mIsRdsSupported THEN on ELSE drv.rds

\* FMR_fd(-1) reads in front of pfmr_data.
Strays(who) == IF g_idx = -1 THEN stray \cup {who} ELSE stray

\* A session whose last reference is gone was never told to close.
By(s, thread) == IF obj[s].ref = "held" THEN thread ELSE "orphan"

AtSearch(c) == call[c].pc \in {"list2", "list3", "list3s", "list4"}

---------------------------------------------------------------------------
(* Calls begin and end. *)

Go(c, pc)     == call' = [call EXCEPT ![c].pc = pc]
Return(c)     == call' = [call EXCEPT ![c] = Idle]
Schedule(s, kind, sel) ==
  tasks' = [tasks EXCEPT ![s] = Append(@, [kind |-> kind, sel |-> sel])]

Begin(c) ==
  /\ call[c] = Idle /\ calls < MaxCalls
  /\ calls' = calls + 1
  /\ \/ \E s \in Sessions, op \in SessionOps \cup ParamOps, f \in Freqs :
          /\ obj[s].ref = "held"
          /\ op # "tune" => f = Home
          /\ call' = [call EXCEPT ![c] = [Idle EXCEPT
               !.pc = IF op \in ParamOps THEN "param" ELSE "lock", !.s = s, !.op = op, !.arg = f]]
     \/ /\ "open" \in Operations
        /\ Cardinality({s \in Sessions : obj[s].ref = "unborn"})
             > Cardinality({d \in Callers : call[d].op = "open"})
        /\ call' = [call EXCEPT ![c] = [Idle EXCEPT !.pc = "open", !.op = "open"]]
  /\ UNCHANGED <<obj, tasks, worker, rds, device, statics, told, stray, late>>

\* Every method first takes mMut; a closed session refuses it or has nothing to do.
NeverRefused(s) == FALSE
Refused(s)      == obj[s].mIsClosed

CancelLocked(s) ==
  /\ tasks' = [tasks EXCEPT ![s] = <<>>]
  /\ obj' = [obj EXCEPT ![s].mIsTuneCompleted = TRUE]

Enter(c) ==
  LET s == call[c].s  op == call[c].op
  IN
  /\ call[c].pc = "lock" /\ op # "open" /\ MutFree(s)
  /\ \/ /\ Refused(s)
        /\ Return(c) /\ UNCHANGED <<tasks, obj>>
     \/ /\ ~Refused(s) /\ op \in {"tune", "scan", "step"}
        /\ CancelLocked(s)
        /\ Go(c, CASE op = "tune" -> "tune1" [] op = "scan" -> "scan1" [] op = "step" -> "step1")
     \/ /\ ~Refused(s) /\ op = "cancel"
        /\ CancelLocked(s) /\ Return(c)
     \/ /\ ~Refused(s) /\ op \in {"list", "close"}
        /\ Go(c, IF op = "list" THEN "list1" ELSE "close1")
        /\ UNCHANGED <<tasks, obj>>
  /\ UNCHANGED <<worker, rds, device, statics, calls, told, stray, late>>

---------------------------------------------------------------------------
(* tune and step. *)

tune(c) ==
  LET s == call[c].s
  IN
  /\ call[c].pc = "tune1"
  /\ drv' = Driver([drv EXCEPT !.rds = RdsSet(s, FALSE)])
  /\ stray' = Strays("method")
  /\ obj' = [obj EXCEPT ![s].mIsTuneCompleted = FALSE]
  /\ Schedule(s, "tune", call[c].arg)
  /\ Return(c)
  /\ UNCHANGED <<worker, rds, mSession, g_idx, fmr, statics, calls, told, late>>

\* getAmFmRangeLocked asks the module for its ranges, under the module's lock.
RangeKnown(s) == obj[s].mIsTuneCompleted /\ obj[s].mCurrentProgram \in InRange

step(c) ==
  LET s == call[c].s
  IN
  /\ call[c].pc = "step1" /\ ModuleMutFree
  /\ \/ /\ ~RangeKnown(s)
        /\ UNCHANGED <<drv, stray, obj, tasks>>
     \/ /\ RangeKnown(s)
        /\ drv' = Driver([drv EXCEPT !.rds = RdsSet(s, FALSE)])
        /\ stray' = Strays("method")
        /\ obj' = [obj EXCEPT ![s].mIsTuneCompleted = FALSE]
        /\ \E f \in InRange : Schedule(s, "tune", f)
  /\ Return(c)
  /\ UNCHANGED <<worker, rds, mSession, g_idx, fmr, statics, calls, told, late>>

---------------------------------------------------------------------------
(* scan: a hardware seek, and a task that tunes to what it found. *)

ScanMute(c) ==
  /\ call[c].pc = "scan1"
  /\ drv' = Driver([drv EXCEPT !.rds = RdsSet(call[c].s, FALSE), !.muted = TRUE])
  /\ stray' = Strays("method")
  /\ call' = [call EXCEPT ![c].pc = "scan2", ![c].arg = obj[call[c].s].mCurrentProgram]
  /\ UNCHANGED <<obj, tasks, worker, rds, mSession, g_idx, fmr, statics, calls, told, late>>

SeekStart(c) ==
  /\ call[c].pc = "scan2"
  /\ \/ /\ call[c].arg \in Fm
        /\ fmr' = [fmr EXCEPT !.scan_stop = FALSE]
        /\ Go(c, "scan3")
     \/ /\ call[c].arg \notin Fm
        /\ Go(c, "scan4") /\ UNCHANGED fmr
  /\ UNCHANGED <<obj, tasks, worker, rds, mSession, g_idx, drv, statics, calls, told, stray, late>>

\* Failing, or finding no channel, the seek gives back where it started.
NoFallback(c)   == 0
SeekFallback(c) == call[c].arg

HardwareSeek(c) ==
  /\ call[c].pc = "scan3"
  /\ stray' = Strays("method")
  /\ \/ /\ Usable
        /\ \E f \in Fm :
             /\ drv' = [drv EXCEPT !.freq = f]
             /\ call' = [call EXCEPT ![c].pc = "scan4", ![c].arg = f]
     \/ /\ call' = [call EXCEPT ![c].pc = "scan4", ![c].arg = SeekFallback(c)]
        /\ UNCHANGED drv
  /\ UNCHANGED <<obj, tasks, worker, rds, mSession, g_idx, fmr, statics, calls, told, late>>

ScanRefusedIfClear == sprdtune_state # 1
ScanRefused        == sprdtune_state = 1

scan(c) ==
  LET s == call[c].s
  IN
  /\ call[c].pc = "scan4"
  /\ drv' = Driver([drv EXCEPT !.muted = FALSE])
  /\ stray' = Strays("method")
  /\ obj' = [obj EXCEPT ![s].mIsTuneCompleted = FALSE]
  /\ \/ ScanRefused /\ UNCHANGED tasks
     \/ ~ScanRefused /\ Schedule(s, "tune", call[c].arg)
  /\ Return(c)
  /\ UNCHANGED <<worker, rds, mSession, g_idx, fmr, statics, calls, told, late>>

---------------------------------------------------------------------------
(* startProgramListUpdates: the whole band is searched under mMut. *)

ListStart(c) ==
  /\ call[c].pc = "list1"
  /\ drv' = Driver([drv EXCEPT !.rds = RdsSet(call[c].s, FALSE)])
  /\ stray' = Strays("method")
  /\ fmr' = [fmr EXCEPT !.scan_stop = FALSE]
  /\ late' = -1
  /\ Go(c, "list2")
  /\ UNCHANGED <<obj, tasks, worker, rds, mSession, g_idx, statics, calls, told>>

ResetAgain         == FALSE
StopAfterPreSearch == fmr.scan_stop

FMR_Pre_Search(c) ==
  /\ call[c].pc = "list2"
  /\ drv' = Driver([drv EXCEPT !.searching = TRUE, !.searched = TRUE])
  /\ fmr' = [fmr EXCEPT !.scan_stop = StopAfterPreSearch]
  /\ stray' = Strays("method")
  /\ Go(c, "list3")
  /\ UNCHANGED <<obj, tasks, worker, rds, mSession, g_idx, statics, calls, told, late>>

\* A stop request ends the loop; the program tuned before comes back.
StopCheck(c) ==
  /\ call[c].pc = "list3"
  /\ \/ /\ fmr.scan_stop
        /\ drv' = Driver([drv EXCEPT !.searching = FALSE, !.freq = fmr.cur_freq])
        /\ Go(c, "list4")
     \/ /\ ~fmr.scan_stop
        /\ Go(c, "list3s") /\ UNCHANGED drv
  /\ stray' = Strays("method")
  /\ UNCHANGED <<obj, tasks, worker, rds, mSession, g_idx, fmr, statics, calls, told, late>>

SearchOn   == "list3"
AfterLast  == "list4"
AfterError == "list3"     \* the position moves up one channel, the loop goes on

\* The position of a 32-bit counter that has left the band is cut at Top.
SearchSeek(c) ==
  LET here == call[c].pos
  IN
  /\ call[c].pc = "list3s"
  /\ \/ /\ Usable
        /\ Go(c, AfterLast)                   \* nothing above the position
        /\ UNCHANGED drv
     \/ \E f \in Freqs, kept \in BOOLEAN :    \* kept: it passes the desense checks
          /\ Usable /\ f > here
          /\ drv' = [drv EXCEPT !.freq = f]
          /\ call' = [call EXCEPT ![c].pc = "list3", ![c].pos = f, ![c].found = @ \/ kept]
     \/ /\ SeekMayFail \/ ~Usable
        /\ call' = [call EXCEPT ![c].pc = AfterError,
                                ![c].pos = IF here < Top THEN here + 1 ELSE Top]
        /\ UNCHANGED drv
  /\ stray' = Strays("method")
  /\ late' = IF late >= 0 THEN late + 1 ELSE late
  /\ UNCHANGED <<obj, tasks, worker, rds, mSession, g_idx, fmr, statics, calls, told>>

\* With channels autoScan restores, without any FMR_seek_Channels has done it.
LeftSearching  == drv.searching
RestoredIfNone == FALSE

FMR_Restore_Search(c) ==
  /\ call[c].pc = "list4"
  /\ LET found == call[c].found
     IN  drv' = Driver([drv EXCEPT
           !.searching = IF found THEN FALSE ELSE RestoredIfNone,
           !.freq = IF found /\ fmr.scan_stop THEN fmr.cur_freq ELSE @])
  /\ stray' = Strays("method")
  /\ Go(c, "list5")
  /\ UNCHANGED <<obj, tasks, worker, rds, mSession, g_idx, fmr, statics, calls, told, late>>

startProgramListUpdates(c) ==
  LET s == call[c].s
  IN
  /\ call[c].pc = "list5"
  /\ drv' = Driver([drv EXCEPT !.rds = RdsSet(s, TRUE)])
  /\ stray' = Strays("method")
  /\ Schedule(s, "list", None)
  /\ Return(c)
  /\ UNCHANGED <<obj, worker, rds, mSession, g_idx, fmr, statics, calls, told, late>>

---------------------------------------------------------------------------
(* close and openSession. *)

\* Also called by openSession for the session it replaces.
close(c) ==
  LET s == call[c].s
  IN
  /\ call[c].pc = "close1" /\ RdsMutFree(s)
  /\ obj' = [obj EXCEPT ![s].mIsClosed = TRUE]
  /\ drv' = [Driver([drv EXCEPT !.rds = RdsSet(s, FALSE)]) EXCEPT !.open = IF Usable THEN FALSE ELSE @]
  /\ stray' = Strays("method")
  /\ g_idx' = -1
  /\ tasks' = [tasks EXCEPT ![s] = <<>>]
  /\ IF call[c].op = "open"
       THEN call' = [call EXCEPT ![c].pc = "new", ![c].s = None] /\ mSession' = None
       ELSE Return(c) /\ UNCHANGED mSession
  /\ UNCHANGED <<worker, rds, fmr, statics, calls, told, late>>

\* The weak reference can be promoted until the last strong one is gone; the
\* promoted one keeps the old session during its close().
Promotable == mSession # None /\ obj[mSession].ref = "held"

openSession(c) ==
  /\ call[c].pc = "open" /\ ModuleMutFree
  /\ call' = [call EXCEPT ![c].pc = IF Promotable THEN "old" ELSE "new",
                          ![c].s = IF Promotable THEN mSession ELSE None]
  /\ UNCHANGED <<obj, tasks, worker, rds, device, statics, calls, told, stray, late>>

CloseOld(c) ==
  LET s == call[c].s
  IN
  /\ call[c].pc = "old" /\ MutFree(s)
  /\ \/ /\ Refused(s)
        /\ call' = [call EXCEPT ![c].pc = "new", ![c].s = None]
        /\ mSession' = None
     \/ /\ ~Refused(s)
        /\ Go(c, "close1") /\ UNCHANGED mSession
  /\ UNCHANGED <<obj, tasks, worker, rds, g_idx, drv, fmr, statics, calls, told, stray, late>>

\* openDev answers at once when the index is set; else FMR_init() < 0, which is
\* 0, becomes the index, whatever FMR_open_dev answers then.
IndexSet == g_idx > -1

NewSession(c) ==
  /\ call[c].pc = "new"
  /\ \E s \in Sessions, opens \in BOOLEAN, supported \in BOOLEAN :
       LET result == IndexSet \/ opens
           fd     == IF IndexSet THEN drv.open ELSE opens
       IN
       /\ obj[s].ref = "unborn"
       /\ IF IndexSet THEN opens ELSE opens \/ OpenMayFail
       /\ supported => result /\ fd        \* asked through a descriptor that works
       /\ g_idx' = 0
       /\ mSession' = s
       /\ drv' = IF result /\ fd
                   THEN [drv EXCEPT !.open = TRUE, !.freq = Home,
                                    !.rds = IF supported THEN TRUE ELSE @]
                   ELSE [drv EXCEPT !.open = fd]
       /\ fmr' = [cur_freq |-> IF result THEN Home ELSE 0,
                  scan_stop |-> IF IndexSet THEN fmr.scan_stop ELSE FALSE]
       /\ obj' = [obj EXCEPT ![s].ref = "held", ![s].mIsClosed = ~result,
                    ![s].mIsRdsSupported = supported, ![s].mIsTuneCompleted = result,
                    ![s].mCurrentProgram = IF result THEN Home ELSE None,
                    ![s].mCurrentProgramInfo = IF result THEN Home ELSE None]
       /\ told' = [told EXCEPT ![s] = IF result THEN Home ELSE None]
       /\ rds' = [rds EXCEPT ![s].pc = IF supported THEN "loop" ELSE "none"]
  /\ Return(c)
  /\ UNCHANGED <<tasks, worker, statics, calls, stray, late>>

---------------------------------------------------------------------------
(* setParameters: neither mMut nor mIsClosed is looked at. *)

setParameters(c) ==
  LET s == call[c].s  op == call[c].op
  IN
  /\ call[c].pc = "param"
  /\ stray' = Strays("param")
  /\ \/ /\ op = "stopScan"
        /\ fmr' = [fmr EXCEPT !.scan_stop = TRUE]
        /\ late' = IF late = -1 /\ \E d \in Callers : AtSearch(d) THEN 0 ELSE late
        /\ UNCHANGED <<drv, sprdrds_state>>
     \/ /\ op \in {"rdsOn", "rdsOff"}
        /\ drv' = Driver([drv EXCEPT !.rds = op = "rdsOn"])
        /\ sprdrds_state' = IF op = "rdsOn" THEN 0 ELSE 1
        /\ UNCHANGED <<fmr, late>>
  /\ Return(c)
  /\ UNCHANGED <<obj, tasks, worker, rds, mSession, g_idx, sprdtune_state, calls, told>>

---------------------------------------------------------------------------
(* The worker of a session. *)

TakeTask(s) ==
  /\ worker[s].pc = "idle" /\ tasks[s] # <<>>
  /\ worker' = [worker EXCEPT ![s] = [pc |-> "taken", kind |-> Head(tasks[s]).kind,
                                                     sel |-> Head(tasks[s]).sel]]
  /\ tasks' = [tasks EXCEPT ![s] = Tail(@)]
  /\ UNCHANGED <<obj, rds, call, device, statics, calls, told, stray, late>>

\* A task that was taken before close() had mMut finds the session closed.
TaskNotRefused(s) == FALSE
TaskRefused(s)    == obj[s].mIsClosed

TuneTask(s) ==
  /\ worker[s].pc = "taken" /\ worker[s].kind = "tune" /\ MutFree(s)
  /\ obj' = [obj EXCEPT ![s].mCurrentProgram = worker[s].sel]
  /\ \/ /\ TaskRefused(s)
        /\ sprdtune_state' = 1
        /\ worker' = [worker EXCEPT ![s].pc = "idle"]
     \/ /\ ~TaskRefused(s)
        /\ worker' = [worker EXCEPT ![s].pc = "tuning"]
        /\ UNCHANGED sprdtune_state
  /\ UNCHANGED <<tasks, rds, call, device, sprdrds_state, calls, told, stray, late>>

tuneInternalLocked(s) ==
  LET sel == worker[s].sel
  IN
  /\ worker[s].pc = "tuning"
  /\ drv' = Driver([drv EXCEPT !.freq = sel, !.rds = RdsSet(s, TRUE)])
  /\ fmr' = [fmr EXCEPT !.cur_freq = sel]
  /\ stray' = Strays(By(s, "task"))
  /\ obj' = [obj EXCEPT ![s].mCurrentProgramInfo = sel, ![s].mIsTuneCompleted = TRUE]
  /\ told' = [told EXCEPT ![s] = sel]
  /\ worker' = [worker EXCEPT ![s].pc = "idle"]
  /\ UNCHANGED <<tasks, rds, call, mSession, g_idx, statics, calls, late>>

\* onProgramListUpdated, and the report the RDS thread asked for.
ReportTask(s) ==
  /\ worker[s].pc = "taken" /\ worker[s].kind \in {"rds", "list"} /\ MutFree(s)
  /\ told' = IF worker[s].kind = "rds" THEN [told EXCEPT ![s] = worker[s].sel] ELSE told
  /\ worker' = [worker EXCEPT ![s].pc = "idle"]
  /\ UNCHANGED <<obj, tasks, rds, call, device, statics, calls, stray, late>>

---------------------------------------------------------------------------
(* The RDS thread of a session.  It takes mRdsMut, never mMut. *)

\* The program is read as it stands, whatever a tune task is writing.
RdsRead(s) ==
  /\ rds[s].pc = "loop" /\ ~obj[s].mIsTerminating
  /\ Len(tasks[s]) < MaxTasks
  /\ \/ /\ obj[s].mIsClosed
        /\ rds' = [rds EXCEPT ![s].pc = "wait"] /\ UNCHANGED stray
     \/ /\ ~obj[s].mIsClosed /\ sprdrds_state = 0
        /\ rds' = [rds EXCEPT ![s].pc = "compare", ![s].newInfo = obj[s].mCurrentProgram]
        /\ stray' = Strays(By(s, "rds"))
     \/ /\ ~obj[s].mIsClosed /\ sprdrds_state # 0
        /\ rds' = [rds EXCEPT ![s].pc = "compare"] /\ UNCHANGED stray
  /\ UNCHANGED <<obj, tasks, worker, call, device, statics, calls, told, late>>

\* Equal programs may still differ in their texts.
AnyInfo(s)  == TRUE
SameInfo(s) == rds[s].newInfo = obj[s].mCurrentProgramInfo

RdsCompare(s) ==
  /\ rds[s].pc = "compare"
  /\ rds' = [rds EXCEPT ![s].pc = "sleep"]
  /\ \/ /\ SameInfo(s) /\ UNCHANGED <<obj, tasks>>
     \/ /\ obj' = [obj EXCEPT ![s].mCurrentProgramInfo = rds[s].newInfo]
        /\ Schedule(s, "rds", rds[s].newInfo)
  /\ UNCHANGED <<worker, call, device, statics, calls, told, stray, late>>

\* wait_for ends by its timeout at any time; wait ends when its condition holds.
Reopened(s)   == ~obj[s].mIsClosed
WaitIsOver(s) == Reopened(s) \/ obj[s].mIsTerminating

RdsWake(s) ==
  /\ rds[s].pc = "sleep" \/ (rds[s].pc = "wait" /\ WaitIsOver(s))
  /\ rds' = [rds EXCEPT ![s].pc = "loop"]
  /\ UNCHANGED <<obj, tasks, worker, call, device, statics, calls, told, stray, late>>

RdsEnd(s) ==
  /\ rds[s].pc = "loop" /\ obj[s].mIsTerminating
  /\ rds' = [rds EXCEPT ![s].pc = "ended"]
  /\ UNCHANGED <<obj, tasks, worker, call, device, statics, calls, told, stray, late>>

---------------------------------------------------------------------------
(* A client lets go of its session, or dies; the session is destroyed. *)

LetGo(s) ==
  /\ "drop" \in Operations
  /\ obj[s].ref = "held" /\ \A c \in Callers : call[c].s # s
  /\ obj' = [obj EXCEPT ![s].ref = "dying"]
  /\ UNCHANGED <<tasks, worker, rds, call, device, statics, calls, told, stray, late>>

DestructorStart(s) ==
  /\ obj[s].ref = "dying" /\ RdsMutFree(s)
  /\ obj' = [obj EXCEPT ![s].ref = "joining", ![s].mIsClosed = TRUE, ![s].mIsTerminating = TRUE]
  /\ UNCHANGED <<tasks, worker, rds, call, device, statics, calls, told, stray, late>>

\* The RDS thread is joined, then ~WorkerThread joins its own; what is queued is lost.
DestructorEnd(s) ==
  /\ obj[s].ref = "joining" /\ rds[s].pc \in {"none", "ended"} /\ worker[s].pc = "idle"
  /\ obj' = [obj EXCEPT ![s].ref = "gone"]
  /\ tasks' = [tasks EXCEPT ![s] = <<>>]
  /\ UNCHANGED <<worker, rds, call, device, statics, calls, told, stray, late>>

---------------------------------------------------------------------------
CallStep(c) ==
  \/ tune(c) \/ step(c)
  \/ ScanMute(c) \/ SeekStart(c) \/ HardwareSeek(c) \/ scan(c)
  \/ ListStart(c) \/ FMR_Pre_Search(c) \/ StopCheck(c) \/ SearchSeek(c)
  \/ FMR_Restore_Search(c) \/ startProgramListUpdates(c)
  \/ close(c) \/ NewSession(c) \/ setParameters(c)

CallerStep(c) == Enter(c) \/ openSession(c) \/ CloseOld(c) \/ CallStep(c)
WorkerStep(s) == TakeTask(s) \/ TuneTask(s) \/ tuneInternalLocked(s) \/ ReportTask(s)
RdsStep(s)    == RdsRead(s) \/ RdsCompare(s) \/ RdsWake(s) \/ RdsEnd(s)
Destructor(s) == DestructorStart(s) \/ DestructorEnd(s)

\* The clients have no call left to make, and every task has run.  (Whether the
\* destructors are through is what DestructorReturns asks.)
Quiet ==
  /\ calls = MaxCalls \/ \A s \in Sessions : obj[s].ref # "held"
  /\ \A c \in Callers : call[c] = Idle
  /\ \A s \in Sessions : worker[s].pc = "idle" /\ tasks[s] = <<>>
  /\ UNCHANGED vars

Next ==
  \/ \E c \in Callers : Begin(c) \/ CallerStep(c)
  \/ \E s \in Sessions : WorkerStep(s) \/ RdsStep(s) \/ LetGo(s) \/ Destructor(s)
  \/ Quiet

Spec == Init /\ [][Next]_vars

\* Threads run; one that waits for a mutex gets it if it is free again and again.
FairSpec ==
  /\ Spec
  /\ \A c \in Callers : SF_vars(CallerStep(c))
  /\ \A s \in Sessions : SF_vars(WorkerStep(s)) /\ WF_vars(RdsStep(s)) /\ SF_vars(Destructor(s))

---------------------------------------------------------------------------
TypeOK ==
  /\ obj \in [Sessions -> [ref : {"unborn", "held", "dying", "joining", "gone"},
       mIsClosed : BOOLEAN, mIsTerminating : BOOLEAN, mIsRdsSupported : BOOLEAN,
       mIsTuneCompleted : BOOLEAN, mCurrentProgram : Freqs \cup {None},
       mCurrentProgramInfo : Freqs \cup {None}]]
  /\ tasks \in [Sessions -> Seq(Task)]
  /\ worker \in [Sessions -> [pc : {"idle", "taken", "tuning"},
       kind : {"tune", "rds", "list", None}, sel : Freqs \cup {None}]]
  /\ rds \in [Sessions -> [pc : {"none", "loop", "compare", "sleep", "wait", "ended"},
       newInfo : Freqs \cup {None}]]
  /\ call \in [Callers -> [pc : InMethod \cup {"idle", "lock", "param", "open", "old", "new"},
       s : Sessions \cup {None}, op : Operations \cup {None}, arg : Freqs,
       pos : 0..Top, found : BOOLEAN]]
  /\ mSession \in Sessions \cup {None}
  /\ g_idx \in {-1, 0}
  /\ drv \in [open : BOOLEAN, freq : Freqs, rds : BOOLEAN, muted : BOOLEAN, searching : BOOLEAN,
               searched : BOOLEAN]
  /\ fmr \in [cur_freq : Freqs \cup {0}, scan_stop : BOOLEAN]
  /\ sprdrds_state \in {0, 1} /\ sprdtune_state \in {0, 1}
  /\ calls \in 0..MaxCalls
  /\ told \in [Sessions -> Freqs \cup {None}]
  /\ stray \subseteq {"method", "task", "orphan", "rds", "param"}
  /\ late \in Nat \cup {-1}

Open(s) == obj[s].ref = "held" /\ ~obj[s].mIsClosed

\* Neither a method, nor a task already taken from the queue, nor the RDS thread
\* calls the driver once its session's close() has given the device index back.  (The
\* threads of a session that was dropped unclosed may: "orphan" in the model.)
ClosedDeviceLeftAlone == stray \cap {"method", "task", "rds"} = {}

\* One session at most is open, and it has the device: closing an old session again,
\* or late, never takes the device from the one that replaced it.
OpenSessionOwnsDevice ==
  \A s \in Sessions : Open(s) =>
    /\ g_idx = 0 /\ drv.open
    /\ \A t \in Sessions : Open(t) => t = s

\* Between calls the chip is neither muted nor in search mode, however a seek or
\* a search ended: found something, found nothing, failed or was stopped.
ChipReleased ==
  drv.open => /\ drv.searching => \E c \in Callers : AtSearch(c)
              /\ drv.muted => \E c \in Callers : call[c].pc \in {"scan2", "scan3", "scan4"}

\* A stop request that comes once the search is being prepared is not forgotten: at
\* most the seek already under way follows it.
StopEndsSearch == late <= 1

\* In the end the client of an open session has been told the program it is on,
\* though reports come from two threads by one queue.
ReportsSettle ==
  \A s \in Sessions : <>[](Open(s) => told[s] = obj[s].mCurrentProgram)

\* What the filter of RDS reports takes for the current program, which two threads
\* write under different locks, becomes the current program again.
FilterSettles ==
  \A s \in Sessions :
    <>[](Open(s) => obj[s].mCurrentProgramInfo = obj[s].mCurrentProgram)

\* When the calls are over the chip is on the program of the open session too, with
\* RDS on again; a band search may leave the chip elsewhere, and a session on a program
\* outside the ranges loses a tune that step() cancels without another in its place.
ChipFollows ==
  \A s \in Sessions :
    <>[](Open(s) /\ obj[s].mCurrentProgram \in InRange =>
           /\ drv.searched \/ drv.freq = obj[s].mCurrentProgram
           /\ obj[s].mIsRdsSupported => drv.rds)

\* Every call returns, also one that waits for a search to end, and the destructor of
\* a session, which joins the threads of both queues, gets to its end.
CallsReturn ==
  /\ \A c \in Callers : call[c].pc # "idle" ~> call[c].pc = "idle"
  /\ \A s \in Sessions : obj[s].ref = "dying" ~> obj[s].ref = "gone"

\* A scan of an open session is refused only if that session was closed under a tune.
ScanRefusedForOwnClose ==
  \A c \in Callers : call[c].pc = "scan4" => ~ScanRefused

\* openSession comes to its end.
OpenReturns == \A c \in Callers : call[c].op = "open" ~> call[c].pc = "idle"

\* A search ends, also when the hardware seeks fail.
SearchEnds == \A c \in Callers : AtSearch(c) ~> ~AtSearch(c)
=============================================================================
