------------------------- MODULE TunerSessionProofs -------------------------
(***************************************************************************)
(* Theorems about TunerSession, for any number of sessions, callers,       *)
(* programs and calls: who may call the driver, who has the device, and    *)
(* that the chip is released.                                              *)
(*                                                                         *)
(* A lemma <Action>Step says of an action that it keeps the invariant.     *)
(***************************************************************************)
EXTENDS TunerSession, TLAPS

---------------------------------------------------------------------------
(* The invariant. *)

Inside(c) == call[c].pc \in InMethod

\* The caller is in openSession, past the module's mutex.
HoldsModule(c) ==
  call[c].pc \in {"old", "new"} \/ (call[c].pc = "close1" /\ call[c].op = "open")

\* The records of TypeOK.
Object ==
  [ref : {"unborn", "held", "dying", "joining", "gone"},
   mIsClosed : BOOLEAN, mIsTerminating : BOOLEAN, mIsRdsSupported : BOOLEAN,
   mIsTuneCompleted : BOOLEAN, mCurrentProgram : Freqs \cup {None},
   mCurrentProgramInfo : Freqs \cup {None}]
Call ==
  [pc : InMethod \cup {"idle", "lock", "param", "open", "old", "new"},
   s : Sessions \cup {None}, op : Operations \cup {None}, arg : Freqs,
   pos : 0..Top, found : BOOLEAN]
Chips ==
  [open : BOOLEAN, freq : Freqs, rds : BOOLEAN, muted : BOOLEAN, searching : BOOLEAN,
   searched : BOOLEAN]

\* What is to be tuned is a program.
Programs ==
  /\ \A s \in Sessions : \A k \in DOMAIN tasks[s] :
       tasks[s][k].kind = "tune" => tasks[s][k].sel \in Freqs
  /\ \A s \in Sessions :
       /\ worker[s].pc = "taken" /\ worker[s].kind = "tune" => worker[s].sel \in Freqs
       /\ worker[s].pc = "tuning" => worker[s].sel \in Freqs
       /\ ~obj[s].mIsClosed => obj[s].mCurrentProgram \in Freqs

\* A caller refers to a session that is held; inside a method it is open too.
Referred ==
  \A c \in Callers :
    /\ call[c].s # None => obj[call[c].s].ref = "held"
    /\ call[c].pc \in InMethod \cup {"lock", "param", "old"} => call[c].s \in Sessions
    /\ Inside(c) => Open(call[c].s)

\* The mutexes: mMut of a session, and the module's.
Exclusive ==
  /\ \A c, d \in Callers : Inside(c) /\ Inside(d) => c = d
  /\ \A c \in Callers : Inside(c) => worker[call[c].s].pc # "tuning"
  /\ \A c, d \in Callers : HoldsModule(c) /\ HoldsModule(d) => c = d

\* openSession replaces the session the module refers to, and goes on without an open one.
Replacing ==
  \A c \in Callers :
    /\ call[c].pc \in {"open", "old", "new"} => call[c].op = "open"
    /\ call[c].pc = "old" \/ (call[c].pc = "close1" /\ call[c].op = "open") => call[c].s = mSession
    /\ call[c].pc = "new" => \A s \in Sessions : ~Open(s)

\* An open session is the module's, and the device index is set for it.
Device ==
  /\ \A s \in Sessions : Open(s) => mSession = s /\ g_idx = 0 /\ fmr.cur_freq \in Freqs
  /\ \A s \in Sessions : worker[s].pc = "tuning" /\ obj[s].ref = "held" => ~obj[s].mIsClosed
  /\ g_idx = -1 => ~drv.open
  /\ ClosedDeviceLeftAlone

\* The chip is muted or searching for the caller that made it so.
Chip ==
  /\ drv.searching => drv.open /\ \E c \in Callers : AtSearch(c)
  /\ drv.muted => drv.open /\ \E c \in Callers : call[c].pc \in {"scan2", "scan3", "scan4"}

\* A stop that reached a search is remembered until the search has ended.
Stopped ==
  /\ late <= 1
  /\ late >= 0 => \A c \in Callers : AtSearch(c) => fmr.scan_stop
  /\ late = 1 => \A c \in Callers : call[c].pc # "list3s"

\* A session nobody has opened yet has no task, and its threads have not begun.
Fresh ==
  \A s \in Sessions :
    obj[s].ref = "unborn" => tasks[s] = <<>> /\ worker[s].pc = "idle" /\ rds[s].pc = "none"

IInv == TypeOK /\ Programs /\ Referred /\ Exclusive /\ Replacing /\ Device /\ Chip /\ Stopped

---------------------------------------------------------------------------
(* What the invariant says of a caller inside a method, and of the driver it calls. *)

LEMMA TopBounds == Top \in Nat /\ \A f \in Freqs : f \in 0..Top
<1> DEFINE m == CHOOSE f \in Freqs : \A g \in Freqs : g <= f
<1>1. m \in Freqs /\ \A g \in Freqs : g <= m
  BY TunerAssumption
<1>2. Top = 1 + m
  BY DEF Top
<1> HIDE DEF m
<1> QED
  BY <1>1, <1>2, TunerAssumption

\* The session of a caller inside a method is open and has the device index.
LEMMA InsideFacts ==
  ASSUME IInv, NEW c \in Callers, Inside(c)
  PROVE  /\ call[c].s \in Sessions /\ call[c].s # None
         /\ obj[call[c].s].ref = "held" /\ ~obj[call[c].s].mIsClosed
         /\ obj[call[c].s].mCurrentProgram \in Freqs
         /\ mSession = call[c].s /\ g_idx = 0 /\ fmr.cur_freq \in Freqs
         /\ worker[call[c].s].pc # "tuning"
         /\ \A d \in Callers : d # c => ~Inside(d)
         /\ Usable <=> drv.open
<1>1. call[c].s \in Sessions /\ Open(call[c].s)
  BY DEF IInv, Referred, Inside
<1>2. call[c].s # None
  BY <1>1, TunerAssumption
<1> QED
  BY <1>1, <1>2 DEF IInv, Programs, Exclusive, Device, Open, Usable, TypeOK

\* It never calls the driver through index -1.
LEMMA InsideStrays ==
  ASSUME IInv, NEW c \in Callers, Inside(c), NEW who
  PROVE  Strays(who) = stray
BY InsideFacts DEF Strays

\* Nobody is inside a method while openSession makes a session.
LEMMA NewFacts ==
  ASSUME IInv, NEW c \in Callers, call[c].pc = "new"
  PROVE  /\ \A s \in Sessions : ~Open(s)
         /\ \A d \in Callers : ~Inside(d) /\ ~AtSearch(d)
         /\ ~drv.searching /\ ~drv.muted
         /\ \A d \in Callers : d # c => ~HoldsModule(d)
<1>1. \A s \in Sessions : ~Open(s)
  BY DEF IInv, Replacing
<1>2. \A d \in Callers : ~Inside(d)
  BY <1>1 DEF IInv, Referred, Inside
<1>3. \A d \in Callers : ~AtSearch(d) /\ call[d].pc \notin {"scan2", "scan3", "scan4"}
  BY <1>2 DEF Inside, InMethod, AtSearch
<1>4. ~drv.searching /\ ~drv.muted
  BY <1>3 DEF IInv, Chip
<1>5. HoldsModule(c)
  BY DEF HoldsModule
<1> QED
  BY <1>1, <1>2, <1>3, <1>4, <1>5 DEF IInv, Exclusive

LEMMA SessionOfCall ==
  ASSUME TypeOK, NEW c \in Callers, call[c].s # None
  PROVE  call[c].s \in Sessions
BY DEF TypeOK

---------------------------------------------------------------------------
(* What keeps parts of the invariant. *)

\* A step of a caller inside its method, up to the end of the method.
LEMMA MethodKeeps ==
  ASSUME IInv, TypeOK', NEW c \in Callers, Inside(c),
         \A d \in Callers : d # c => call'[d] = call[d],
         \/ call'[c] = Idle
         \/ /\ call'[c].pc \in InMethod \ {"close1"}
            /\ call'[c].s = call[c].s /\ call'[c].op = call[c].op,
         \A s \in Sessions : /\ obj'[s].ref = obj[s].ref
                             /\ obj'[s].mIsClosed = obj[s].mIsClosed,
         UNCHANGED <<worker, mSession, g_idx, stray>>,
         fmr'.cur_freq = fmr.cur_freq, drv'.open = drv.open
  PROVE  Referred' /\ Exclusive' /\ Replacing' /\ Device'
<1>1. Idle.pc = "idle" /\ Idle.s = None
  BY DEF Idle
<1>2. call'[c].pc \in InMethod \cup {"idle"} /\ call'[c].pc # "close1"
  BY <1>1
<1>3. call'[c].s # None => call'[c].s = call[c].s
  BY <1>1
<1>4. call'[c].pc \in InMethod => call'[c].s = call[c].s
  BY <1>1 DEF InMethod
<1>5. \A s \in Sessions : (Open(s))' <=> Open(s)
  BY DEF Open
<1>6. Referred'
  <2>1. ASSUME NEW d \in Callers, call'[d].s # None
        PROVE  obj'[call'[d].s].ref = "held"
    <3>1. call'[d].s = call[d].s
      BY <2>1, <1>3
    <3>2. call[d].s \in Sessions
      BY <2>1, <3>1, SessionOfCall DEF IInv
    <3> QED
      BY <2>1, <3>1, <3>2 DEF IInv, Referred
  <2>2. ASSUME NEW d \in Callers, call'[d].pc \in InMethod \cup {"lock", "param", "old"}
        PROVE  call'[d].s \in Sessions
    BY <2>2, <1>2, <1>4, InsideFacts DEF IInv, Referred
  <2>3. ASSUME NEW d \in Callers, (Inside(d))'
        PROVE  (Open(call[d].s))' /\ call'[d].s = call[d].s
    <3>1. call'[d].s = call[d].s /\ Inside(d)
      BY <2>3, <1>4 DEF Inside
    <3> QED
      BY <3>1, <1>5 DEF IInv, Referred, Inside
  <2> QED
    BY <2>1, <2>2, <2>3 DEF Referred, Open
<1>7. Exclusive'
  <2>1. \A d \in Callers : (Inside(d))' => d = c
    BY InsideFacts DEF Inside
  <2>2. (Inside(c))' => worker'[call'[c].s].pc # "tuning"
    BY <1>4, InsideFacts DEF Inside
  <2>3. \A d \in Callers : (HoldsModule(d))' => HoldsModule(d)
    BY <1>2 DEF HoldsModule, InMethod
  <2> QED
    BY <2>1, <2>2, <2>3 DEF IInv, Exclusive
<1>8. Replacing'
  BY <1>2, <1>5 DEF IInv, Replacing, InMethod
<1>9. Device'
  BY <1>5 DEF IInv, Device, ClosedDeviceLeftAlone
<1> QED
  BY <1>6, <1>7, <1>8, <1>9

\* A step of a thread that calls no driver and moves no caller.
LEMMA ThreadKeeps ==
  ASSUME IInv, UNCHANGED <<call, mSession, g_idx, late>>,
         \A s \in Sessions : obj'[s].ref = obj[s].ref /\ obj'[s].mIsClosed = obj[s].mIsClosed,
         drv'.open = drv.open, drv'.searching = drv.searching, drv'.muted = drv.muted,
         fmr'.scan_stop = fmr.scan_stop
  PROVE  Referred' /\ Replacing' /\ Chip' /\ Stopped'
<1>1. \A s \in Sessions : (Open(s))' <=> Open(s)
  BY DEF Open
<1>2. Referred'
  <2>1. \A c \in Callers : call[c].s # None => call[c].s \in Sessions
    BY SessionOfCall DEF IInv
  <2> QED
    BY <1>1, <2>1 DEF IInv, Referred, Inside, Open
<1>3. Replacing'
  BY <1>1 DEF IInv, Replacing
<1>4. Chip' /\ Stopped'
  BY DEF IInv, Chip, Stopped, AtSearch
<1> QED
  BY <1>2, <1>3, <1>4

\* No step opens a session but NewSession, nor works for one that is not open yet.
LEMMA FreshKeeps ==
  ASSUME Fresh,
         \A s \in Sessions : obj'[s].ref = "unborn" =>
           obj[s].ref = "unborn" /\ tasks'[s] = tasks[s] /\ worker'[s] = worker[s] /\ rds'[s] = rds[s]
  PROVE  Fresh'
BY DEF Fresh

---------------------------------------------------------------------------
(* The methods, inside mMut. *)

LEMMA IdleType == Idle \in Call
BY TunerAssumption, TopBounds DEF Idle, Call

LEMMA ReturnMoves ==
  ASSUME TypeOK, NEW c \in Callers, Return(c)
  PROVE  /\ call' \in [Callers -> Call]
         /\ call'[c] = Idle
         /\ \A d \in Callers : d # c => call'[d] = call[d]
BY IdleType DEF TypeOK, Return, Call

LEMMA GoMoves ==
  ASSUME TypeOK, NEW c \in Callers,
         NEW pc \in InMethod \cup {"idle", "lock", "param", "open", "old", "new"}, Go(c, pc)
  PROVE  /\ call' \in [Callers -> Call]
         /\ call'[c].pc = pc /\ call'[c].s = call[c].s /\ call'[c].op = call[c].op
         /\ call'[c] = [call[c] EXCEPT !.pc = pc]
         /\ \A d \in Callers : d # c => call'[d] = call[d]
<1>1. call \in [Callers -> Call]
  BY DEF TypeOK, Call
<1>2. [call[c] EXCEPT !.pc = pc] \in Call
  BY <1>1 DEF Call
<1> QED
  BY <1>1, <1>2 DEF Go, Call

LEMMA CallIs == TypeOK => call \in [Callers -> Call]
BY DEF TypeOK, Call

LEMMA DriverKeeps ==
  ASSUME TypeOK, NEW on \in BOOLEAN, drv' = Driver([drv EXCEPT !.rds = on])
  PROVE  /\ drv' \in Chips
         /\ drv'.open = drv.open /\ drv'.muted = drv.muted
         /\ drv'.searching = drv.searching /\ drv'.freq = drv.freq
BY DEF TypeOK, Driver, Chips

LEMMA RdsSetType ==
  ASSUME TypeOK, NEW s \in Sessions, NEW on \in BOOLEAN
  PROVE  RdsSet(s, on) \in BOOLEAN
BY DEF TypeOK, RdsSet

LEMMA FlagMoves ==
  ASSUME TypeOK, NEW s \in Sessions, NEW b \in BOOLEAN,
         obj' = [obj EXCEPT ![s].mIsTuneCompleted = b]
  PROVE  /\ obj' \in [Sessions -> Object]
         /\ \A t \in Sessions :
              /\ obj'[t].ref = obj[t].ref /\ obj'[t].mIsClosed = obj[t].mIsClosed
              /\ obj'[t].mCurrentProgram = obj[t].mCurrentProgram
<1>1. obj \in [Sessions -> Object]
  BY DEF TypeOK, Object
<1>2. [obj[s] EXCEPT !.mIsTuneCompleted = b] \in Object
  BY <1>1 DEF Object
<1> QED
  BY <1>1, <1>2 DEF Object

\* A method that ends with a scheduled task.
LEMMA ScheduleType ==
  ASSUME TypeOK, NEW s \in Sessions, NEW kind \in {"tune", "rds", "list"},
         NEW sel \in Freqs \cup {None}, Schedule(s, kind, sel)
  PROVE  /\ tasks' \in [Sessions -> Seq(Task)]
         /\ tasks'[s] = Append(tasks[s], [kind |-> kind, sel |-> sel])
         /\ \A t \in Sessions : t # s => tasks'[t] = tasks[t]
<1>1. [kind |-> kind, sel |-> sel] \in Task
  BY DEF Task
<1>2. tasks[s] \in Seq(Task)
  BY DEF TypeOK
<1>3. Append(tasks[s], [kind |-> kind, sel |-> sel]) \in Seq(Task)
  BY <1>1, <1>2
<1> QED
  BY <1>3 DEF TypeOK, Schedule

LEMMA ScheduleKeeps ==
  ASSUME TypeOK, Programs, NEW s \in Sessions, NEW kind \in {"tune", "rds", "list"},
         NEW sel \in Freqs \cup {None}, Schedule(s, kind, sel), kind = "tune" => sel \in Freqs,
         UNCHANGED worker,
         \A t \in Sessions : ~obj'[t].mIsClosed =>
            ~obj[t].mIsClosed /\ obj'[t].mCurrentProgram = obj[t].mCurrentProgram
  PROVE  Programs'
<1> DEFINE task == [kind |-> kind, sel |-> sel]
<1>1. \A t \in Sessions : t # s => tasks'[t] = tasks[t]
  BY ScheduleType
<1>2. tasks'[s] = Append(tasks[s], task)
  BY ScheduleType
<1>3. tasks[s] \in Seq(Task)
  BY DEF TypeOK
<1>4. ASSUME NEW k \in DOMAIN tasks'[s], tasks'[s][k].kind = "tune"
      PROVE  tasks'[s][k].sel \in Freqs
  <2>1. k \in 1..Len(tasks[s]) + 1
    BY <1>2, <1>3
  <2>2. CASE k = Len(tasks[s]) + 1
    <3>1. tasks'[s][k] = task
      BY <1>2, <1>3, <2>2
    <3> QED
      BY <3>1, <1>4
  <2>3. CASE k \in 1..Len(tasks[s])
    <3>1. tasks'[s][k] = tasks[s][k] /\ k \in DOMAIN tasks[s]
      BY <1>2, <1>3, <2>3
    <3> QED
      BY <3>1, <1>4 DEF Programs
  <2> QED
    BY <2>1, <2>2, <2>3, <1>3
<1> QED
  BY <1>1, <1>4 DEF Programs

LEMMA tuneStep ==
  ASSUME IInv, NEW c \in Callers, tune(c)
  PROVE  IInv'
<1> DEFINE s == call[c].s
<1>1. Inside(c) /\ TypeOK /\ Programs
  BY DEF tune, Inside, InMethod, IInv
<1>2. stray' = stray
  BY <1>1, InsideStrays DEF tune
<1>3. s \in Sessions /\ call[c].arg \in Freqs
  BY <1>1, InsideFacts DEF TypeOK
<1>4. RdsSet(s, FALSE) \in BOOLEAN
  BY <1>1, <1>3, RdsSetType
<1>5. /\ drv' \in Chips
      /\ drv'.open = drv.open /\ drv'.muted = drv.muted /\ drv'.searching = drv.searching
  BY <1>1, <1>4, DriverKeeps DEF tune
<1>6. /\ obj' \in [Sessions -> Object]
      /\ \A t \in Sessions :
           /\ obj'[t].ref = obj[t].ref /\ obj'[t].mIsClosed = obj[t].mIsClosed
           /\ obj'[t].mCurrentProgram = obj[t].mCurrentProgram
  BY <1>1, <1>3, FlagMoves DEF tune
<1>7. Schedule(s, "tune", call[c].arg) /\ worker' = worker
  BY DEF tune
<1>8. tasks' \in [Sessions -> Seq(Task)]
  BY <1>1, <1>3, <1>7, ScheduleType
<1>9. /\ call' \in [Callers -> Call] /\ call'[c] = Idle
      /\ \A d \in Callers : d # c => call'[d] = call[d]
  BY <1>1, ReturnMoves DEF tune
<1>10. TypeOK'
  BY <1>1, <1>2, <1>5, <1>6, <1>8, <1>9 DEF tune, TypeOK, statics, Object, Call, Chips
<1>11. Referred' /\ Exclusive' /\ Replacing' /\ Device'
  <2>1. UNCHANGED <<worker, mSession, g_idx, stray>> /\ fmr' = fmr
    BY <1>2 DEF tune
  <2> QED
    BY <1>1, <1>5, <1>6, <1>9, <1>10, <2>1, MethodKeeps
<1>12. Programs'
  BY <1>1, <1>3, <1>6, <1>7, ScheduleKeeps
<1>13. Chip' /\ Stopped'
  BY <1>5, <1>9 DEF tune, Idle, IInv, Chip, Stopped, AtSearch
<1> QED
  BY <1>10, <1>11, <1>12, <1>13 DEF IInv

\* A method that asked for a tune task, or for none.
LEMMA TuneAsked ==
  ASSUME IInv, NEW c \in Callers, Inside(c), NEW f \in Freqs,
         obj' = [obj EXCEPT ![call[c].s].mIsTuneCompleted = FALSE],
         UNCHANGED worker, UNCHANGED tasks \/ Schedule(call[c].s, "tune", f)
  PROVE  /\ obj' \in [Sessions -> Object]
         /\ \A t \in Sessions :
              /\ obj'[t].ref = obj[t].ref /\ obj'[t].mIsClosed = obj[t].mIsClosed
              /\ obj'[t].mCurrentProgram = obj[t].mCurrentProgram
         /\ tasks' \in [Sessions -> Seq(Task)]
         /\ Programs'
<1>1. TypeOK /\ Programs /\ call[c].s \in Sessions
  BY InsideFacts DEF IInv
<1>2. /\ obj' \in [Sessions -> Object]
      /\ \A t \in Sessions :
           /\ obj'[t].ref = obj[t].ref /\ obj'[t].mIsClosed = obj[t].mIsClosed
           /\ obj'[t].mCurrentProgram = obj[t].mCurrentProgram
  BY <1>1, FlagMoves
<1>3. CASE UNCHANGED tasks
  BY <1>1, <1>2, <1>3 DEF TypeOK, Programs
<1>4. CASE Schedule(call[c].s, "tune", f)
  <2>1. tasks' \in [Sessions -> Seq(Task)]
    BY <1>1, <1>4, ScheduleType
  <2>2. Programs'
    BY <1>1, <1>2, <1>4, ScheduleKeeps
  <2> QED
    BY <1>2, <2>1, <2>2
<1> QED
  BY <1>3, <1>4

LEMMA stepStep ==
  ASSUME IInv, NEW c \in Callers, step(c)
  PROVE  IInv'
<1> DEFINE s == call[c].s
<1>1. Inside(c) /\ TypeOK /\ Programs
  BY DEF step, Inside, InMethod, IInv
<1>2. stray' = stray
  BY <1>1, InsideStrays DEF step
<1>3. s \in Sessions
  BY <1>1, InsideFacts
<1>4. /\ call' \in [Callers -> Call] /\ call'[c] = Idle
      /\ \A d \in Callers : d # c => call'[d] = call[d]
  BY <1>1, ReturnMoves DEF step
<1>5. /\ drv' \in Chips
      /\ drv'.open = drv.open /\ drv'.muted = drv.muted /\ drv'.searching = drv.searching
  <2>1. RdsSet(s, FALSE) \in BOOLEAN
    BY <1>1, <1>3, RdsSetType
  <2>2. CASE UNCHANGED drv
    BY <1>1, <2>2 DEF TypeOK, Chips
  <2>3. CASE drv' = Driver([drv EXCEPT !.rds = RdsSet(s, FALSE)])
    BY <1>1, <2>1, <2>3, DriverKeeps
  <2> QED
    BY <2>2, <2>3 DEF step
<1>6. /\ obj' \in [Sessions -> Object]
      /\ \A t \in Sessions : obj'[t].ref = obj[t].ref /\ obj'[t].mIsClosed = obj[t].mIsClosed
      /\ tasks' \in [Sessions -> Seq(Task)]
      /\ Programs'
  <2>1. worker' = worker
    BY DEF step
  <2>2. CASE UNCHANGED <<obj, tasks>>
    BY <1>1, <2>1, <2>2 DEF TypeOK, Object, Programs
  <2>3. ASSUME NEW f \in InRange, Schedule(s, "tune", f),
               obj' = [obj EXCEPT ![s].mIsTuneCompleted = FALSE]
        PROVE  <1>6
    <3>1. f \in Freqs
      BY TunerAssumption
    <3> QED
      BY <1>1, <2>1, <2>3, <3>1, TuneAsked
  <2> QED
    BY <2>2, <2>3 DEF step
<1>7. TypeOK'
  BY <1>1, <1>2, <1>4, <1>5, <1>6 DEF step, TypeOK, statics, Object, Call, Chips
<1>8. Referred' /\ Exclusive' /\ Replacing' /\ Device'
  <2>1. UNCHANGED <<worker, mSession, g_idx, stray>> /\ fmr' = fmr
    BY <1>2 DEF step
  <2> QED
    BY <1>1, <1>4, <1>5, <1>6, <1>7, <2>1, MethodKeeps
<1>9. Chip' /\ Stopped'
  BY <1>4, <1>5 DEF step, Idle, IInv, Chip, Stopped, AtSearch
<1> QED
  BY <1>6, <1>7, <1>8, <1>9 DEF IInv

LEMMA ScanMuteStep ==
  ASSUME IInv, NEW c \in Callers, ScanMute(c)
  PROVE  IInv'
<1> DEFINE s == call[c].s
<1>1. Inside(c) /\ TypeOK /\ Programs /\ call[c].pc = "scan1"
  BY DEF ScanMute, Inside, InMethod, IInv
<1>2. stray' = stray
  BY <1>1, InsideStrays DEF ScanMute
<1>3. s \in Sessions /\ obj[s].mCurrentProgram \in Freqs
  BY <1>1, InsideFacts
<1>4. /\ call' \in [Callers -> Call]
      /\ call'[c].pc = "scan2" /\ call'[c].s = s /\ call'[c].op = call[c].op
      /\ \A d \in Callers : d # c => call'[d] = call[d]
  <2> DEFINE r == [call[c] EXCEPT !.pc = "scan2", !.arg = obj[s].mCurrentProgram]
  <2>1. call \in [Callers -> Call]
    BY <1>1, CallIs
  <2>2. r \in Call /\ r.pc = "scan2" /\ r.s = s /\ r.op = call[c].op
    BY <1>3, <2>1 DEF Call, InMethod
  <2>3. call' = [call EXCEPT ![c] = r]
    BY <2>1 DEF ScanMute
  <2> QED
    BY <2>1, <2>2, <2>3
<1>5. /\ drv' \in Chips
      /\ drv'.open = drv.open /\ drv'.searching = drv.searching
      /\ drv'.muted => drv.muted \/ drv.open
  BY <1>1, <1>3, RdsSetType DEF ScanMute, Driver, Usable, TypeOK, Chips
<1>6. TypeOK'
  BY <1>1, <1>2, <1>4, <1>5 DEF ScanMute, TypeOK, statics, Call, Chips
<1>7. Referred' /\ Exclusive' /\ Replacing' /\ Device'
  <2>1. UNCHANGED <<worker, mSession, g_idx, stray>> /\ fmr' = fmr /\ obj' = obj
    BY <1>2 DEF ScanMute
  <2>2. call'[c].pc \in InMethod \ {"close1"}
    BY <1>4 DEF InMethod
  <2> QED
    BY <1>1, <1>4, <1>5, <1>6, <2>1, <2>2, MethodKeeps
<1>8. Programs'
  BY <1>1 DEF ScanMute, Programs
<1>9. Chip' /\ Stopped'
  BY <1>1, <1>4, <1>5 DEF ScanMute, IInv, Chip, Stopped, AtSearch
<1> QED
  BY <1>6, <1>7, <1>8, <1>9 DEF IInv

\* A caller in a scan or about to make one: nobody searches.
LEMMA NobodySearches ==
  ASSUME IInv, NEW c \in Callers, Inside(c), ~AtSearch(c)
  PROVE  ~drv.searching /\ \A d \in Callers : ~AtSearch(d)
<1>1. \A d \in Callers : AtSearch(d) => Inside(d)
  BY DEF AtSearch, Inside, InMethod
<1>2. \A d \in Callers : ~AtSearch(d)
  BY <1>1, InsideFacts
<1> QED
  BY <1>2 DEF IInv, Chip

LEMMA SeekStartStep ==
  ASSUME IInv, NEW c \in Callers, SeekStart(c)
  PROVE  IInv'
<1>1. Inside(c) /\ TypeOK /\ Programs /\ call[c].pc = "scan2"
  BY DEF SeekStart, Inside, InMethod, IInv
<1>2. PICK pc \in {"scan3", "scan4"} : Go(c, pc)
  BY DEF SeekStart
<1>3. /\ call' \in [Callers -> Call]
      /\ call'[c].pc = pc /\ call'[c].s = call[c].s /\ call'[c].op = call[c].op
      /\ \A d \in Callers : d # c => call'[d] = call[d]
  <2>1. pc \in InMethod
    BY DEF InMethod
  <2> QED
    BY <1>1, <1>2, <2>1, GoMoves
<1>4. fmr' \in [cur_freq : Freqs \cup {0}, scan_stop : BOOLEAN] /\ fmr'.cur_freq = fmr.cur_freq
  BY <1>1, ZenonT(60) DEF SeekStart, TypeOK
<1>5. TypeOK'
  BY <1>1, <1>3, <1>4 DEF SeekStart, TypeOK, statics, Call
<1>6. Referred' /\ Exclusive' /\ Replacing' /\ Device'
  <2>1. UNCHANGED <<worker, mSession, g_idx, stray>> /\ drv' = drv /\ obj' = obj
    BY DEF SeekStart
  <2>2. call'[c].pc \in InMethod \ {"close1"}
    BY <1>3 DEF InMethod
  <2> QED
    BY <1>1, <1>3, <1>4, <1>5, <2>1, <2>2, MethodKeeps
<1>7. Programs'
  BY <1>1 DEF SeekStart, Programs
<1>8. Chip' /\ Stopped'
  <2>1. ~AtSearch(c)
    BY <1>1 DEF AtSearch
  <2>2. ~drv.searching /\ \A d \in Callers : ~AtSearch(d)
    BY <1>1, <2>1, NobodySearches
  <2>3. \A d \in Callers : ~(AtSearch(d))'
    BY <1>3, <2>2 DEF AtSearch
  <2>4. Chip'
    BY <1>1, <1>3, <2>2 DEF SeekStart, IInv, Chip
  <2>5. Stopped'
    BY <2>3 DEF SeekStart, IInv, Stopped, AtSearch
  <2> QED
    BY <2>4, <2>5
<1> QED
  BY <1>5, <1>6, <1>7, <1>8 DEF IInv

LEMMA HardwareSeekStep ==
  ASSUME IInv, NEW c \in Callers, HardwareSeek(c)
  PROVE  IInv'
<1>1. Inside(c) /\ TypeOK /\ Programs /\ call[c].pc = "scan3"
  BY DEF HardwareSeek, Inside, InMethod, IInv
<1>2. stray' = stray
  BY <1>1, InsideStrays DEF HardwareSeek
<1>3. /\ call' \in [Callers -> Call]
      /\ call'[c].pc = "scan4" /\ call'[c].s = call[c].s /\ call'[c].op = call[c].op
      /\ \A d \in Callers : d # c => call'[d] = call[d]
  BY <1>1, CallIs, TunerAssumption DEF HardwareSeek, SeekFallback, Call, InMethod
<1>4. /\ drv' \in Chips
      /\ drv'.open = drv.open /\ drv'.searching = drv.searching /\ drv'.muted = drv.muted
  <2>1. drv \in Chips
    BY <1>1 DEF TypeOK, Chips
  <2>2. ASSUME NEW f \in Fm, drv' = [drv EXCEPT !.freq = f]
        PROVE  <1>4
    <3>1. f \in Freqs
      BY TunerAssumption
    <3> QED
      BY <2>1, <2>2, <3>1 DEF Chips
  <2>3. CASE drv' = drv
    BY <2>1, <2>3
  <2> QED
    BY <2>2, <2>3 DEF HardwareSeek
<1>5. TypeOK'
  BY <1>1, <1>2, <1>3, <1>4 DEF HardwareSeek, TypeOK, statics, Call, Chips
<1>6. Referred' /\ Exclusive' /\ Replacing' /\ Device'
  <2>1. UNCHANGED <<worker, mSession, g_idx, stray>> /\ fmr' = fmr /\ obj' = obj
    BY <1>2 DEF HardwareSeek
  <2>2. call'[c].pc \in InMethod \ {"close1"}
    BY <1>3 DEF InMethod
  <2> QED
    BY <1>1, <1>3, <1>4, <1>5, <2>1, <2>2, MethodKeeps
<1>7. Programs'
  BY <1>1 DEF HardwareSeek, Programs
<1>8. Chip' /\ Stopped'
  BY <1>1, <1>3, <1>4 DEF HardwareSeek, IInv, Chip, Stopped, AtSearch
<1> QED
  BY <1>5, <1>6, <1>7, <1>8 DEF IInv

LEMMA scanStep ==
  ASSUME IInv, NEW c \in Callers, scan(c)
  PROVE  IInv'
<1> DEFINE s == call[c].s
<1>1. Inside(c) /\ TypeOK /\ Programs /\ call[c].pc = "scan4"
  BY DEF scan, Inside, InMethod, IInv
<1>2. stray' = stray
  BY <1>1, InsideStrays DEF scan
<1>3. s \in Sessions /\ call[c].arg \in Freqs
  BY <1>1, InsideFacts DEF TypeOK
<1>4. /\ call' \in [Callers -> Call] /\ call'[c] = Idle
      /\ \A d \in Callers : d # c => call'[d] = call[d]
  BY <1>1, ReturnMoves DEF scan
<1>5. /\ drv' \in Chips
      /\ drv'.open = drv.open /\ drv'.searching = drv.searching /\ ~drv'.muted
  BY <1>1, InsideFacts DEF scan, Driver, IInv, Chip, TypeOK, Chips
<1>6. /\ obj' \in [Sessions -> Object]
      /\ \A t \in Sessions : obj'[t].ref = obj[t].ref /\ obj'[t].mIsClosed = obj[t].mIsClosed
      /\ tasks' \in [Sessions -> Seq(Task)]
      /\ Programs'
  <2>1. UNCHANGED tasks \/ Schedule(s, "tune", call[c].arg)
    BY DEF scan
  <2>2. worker' = worker /\ obj' = [obj EXCEPT ![s].mIsTuneCompleted = FALSE]
    BY DEF scan
  <2> QED
    BY <1>1, <1>3, <2>1, <2>2, TuneAsked
<1>7. TypeOK'
  BY <1>1, <1>2, <1>4, <1>5, <1>6 DEF scan, TypeOK, statics, Object, Call, Chips
<1>8. Referred' /\ Exclusive' /\ Replacing' /\ Device'
  <2>1. UNCHANGED <<worker, mSession, g_idx, stray>> /\ fmr' = fmr
    BY <1>2 DEF scan
  <2> QED
    BY <1>1, <1>4, <1>5, <1>6, <1>7, <2>1, MethodKeeps
<1>9. Chip' /\ Stopped'
  BY <1>1, <1>4, <1>5 DEF scan, Idle, IInv, Chip, Stopped, AtSearch
<1> QED
  BY <1>6, <1>7, <1>8, <1>9 DEF IInv

---------------------------------------------------------------------------
(* A band search. *)

LEMMA ListStartStep ==
  ASSUME IInv, NEW c \in Callers, ListStart(c)
  PROVE  IInv'
<1> DEFINE s == call[c].s
<1>1. Inside(c) /\ TypeOK /\ Programs /\ call[c].pc = "list1"
  BY DEF ListStart, Inside, InMethod, IInv
<1>2. stray' = stray
  BY <1>1, InsideStrays DEF ListStart
<1>3. s \in Sessions
  BY <1>1, InsideFacts
<1>4. /\ call' \in [Callers -> Call]
      /\ call'[c].pc = "list2" /\ call'[c].s = s /\ call'[c].op = call[c].op
      /\ \A d \in Callers : d # c => call'[d] = call[d]
  BY <1>1, GoMoves DEF ListStart, InMethod
<1>5. /\ drv' \in Chips
      /\ drv'.open = drv.open /\ drv'.searching = drv.searching /\ drv'.muted = drv.muted
  <2>1. RdsSet(s, FALSE) \in BOOLEAN
    BY <1>1, <1>3, RdsSetType
  <2> QED
    BY <1>1, <2>1, DriverKeeps DEF ListStart
<1>6. fmr' \in [cur_freq : Freqs \cup {0}, scan_stop : BOOLEAN] /\ fmr'.cur_freq = fmr.cur_freq
  BY <1>1 DEF ListStart, TypeOK
<1>7. TypeOK'
  BY <1>1, <1>2, <1>4, <1>5, <1>6 DEF ListStart, TypeOK, statics, Call, Chips
<1>8. Referred' /\ Exclusive' /\ Replacing' /\ Device'
  <2>1. UNCHANGED <<worker, mSession, g_idx, stray>> /\ obj' = obj
    BY <1>2 DEF ListStart
  <2>2. call'[c].pc \in InMethod \ {"close1"}
    BY <1>4 DEF InMethod
  <2> QED
    BY <1>1, <1>4, <1>5, <1>6, <1>7, <2>1, <2>2, MethodKeeps
<1>9. Programs'
  BY <1>1 DEF ListStart, Programs
<1>10. Chip' /\ Stopped'
  BY <1>1, <1>4, <1>5 DEF ListStart, IInv, Chip, Stopped, AtSearch
<1> QED
  BY <1>7, <1>8, <1>9, <1>10 DEF IInv

\* A step of a search: the chip stays in search mode or leaves it, no program changes.
LEMMA SearchKeeps ==
  ASSUME IInv, NEW c \in Callers, Inside(c), AtSearch(c) \/ call[c].pc = "list2",
         NEW pc \in {"list3", "list3s", "list4", "list5"}, call' \in [Callers -> Call],
         call'[c].pc = pc, call'[c].s = call[c].s, call'[c].op = call[c].op,
         \A d \in Callers : d # c => call'[d] = call[d],
         UNCHANGED <<obj, tasks, worker, rds, mSession, g_idx, statics, calls, told, stray>>,
         drv' \in Chips, drv'.open = drv.open, drv'.muted = drv.muted,
         drv'.searching => drv.open /\ pc # "list5",
         fmr' = fmr, late' \in Nat \cup {-1}
  PROVE  TypeOK' /\ Programs' /\ Referred' /\ Exclusive' /\ Replacing' /\ Device' /\ Chip'
<1>1. TypeOK /\ Programs /\ Chip
  BY DEF IInv
<1>2. TypeOK'
  BY <1>1 DEF TypeOK, statics, Call, Chips
<1>3. Referred' /\ Exclusive' /\ Replacing' /\ Device'
  <2>1. call'[c].pc \in InMethod \ {"close1"}
    BY DEF InMethod
  <2>2. UNCHANGED <<worker, mSession, g_idx, stray>>
    OBVIOUS
  <2> QED
    BY <1>2, <2>1, <2>2, MethodKeeps
<1>4. Programs'
  BY <1>1 DEF Programs
<1>5. Chip'
  <2>1. drv'.searching => (AtSearch(c))'
    BY DEF AtSearch
  <2>2. call[c].pc \notin {"scan2", "scan3", "scan4"}
    BY DEF AtSearch
  <2> QED
    BY <1>1, <2>1, <2>2 DEF Chip
<1> QED
  BY <1>2, <1>3, <1>4, <1>5

\* A stop request, once it has reached a search, is seen by the caller in it.
LEMMA StopSeen ==
  ASSUME IInv, NEW c \in Callers, AtSearch(c)
  PROVE  /\ late = -1 \/ fmr.scan_stop
         /\ late \in {-1, 0, 1}
         /\ call[c].pc = "list3s" => late \in {-1, 0}
         /\ Inside(c)
<1>1. late \in Nat \cup {-1} /\ late <= 1
  BY DEF IInv, TypeOK, Stopped
<1>2. late = -1 \/ late = 0 \/ late = 1
  BY <1>1
<1> QED
  BY <1>2 DEF IInv, Stopped, AtSearch, Inside, InMethod

\* The others are not in a search.
LEMMA OthersSearchNot ==
  ASSUME IInv, NEW c \in Callers, Inside(c), NEW d \in Callers, d # c
  PROVE  ~AtSearch(d)
BY InsideFacts DEF AtSearch, Inside, InMethod

LEMMA FMR_Pre_SearchStep ==
  ASSUME IInv, NEW c \in Callers, FMR_Pre_Search(c)
  PROVE  IInv'
<1>1. Inside(c) /\ TypeOK /\ AtSearch(c)
  BY DEF FMR_Pre_Search, Inside, InMethod, IInv, AtSearch
<1>2. stray' = stray
  BY <1>1, InsideStrays DEF FMR_Pre_Search
<1>3. /\ call' \in [Callers -> Call]
      /\ call'[c].pc = "list3" /\ call'[c].s = call[c].s /\ call'[c].op = call[c].op
      /\ \A d \in Callers : d # c => call'[d] = call[d]
  BY <1>1, GoMoves DEF FMR_Pre_Search, InMethod
<1>4. /\ drv' \in Chips
      /\ drv'.open = drv.open /\ drv'.muted = drv.muted
      /\ drv'.searching => drv.open
  BY <1>1 DEF FMR_Pre_Search, Driver, Usable, TypeOK, Chips, IInv, Chip
<1>5. fmr' = fmr
  BY <1>1 DEF FMR_Pre_Search, StopAfterPreSearch, TypeOK
<1>6. UNCHANGED <<obj, tasks, worker, rds, mSession, g_idx, statics, calls, told>> /\ late' = late
  BY DEF FMR_Pre_Search
<1>7. late' \in Nat \cup {-1}
  BY <1>1, <1>6 DEF TypeOK
<1>8. TypeOK' /\ Programs' /\ Referred' /\ Exclusive' /\ Replacing' /\ Device' /\ Chip'
  BY <1>1, <1>2, <1>3, <1>4, <1>5, <1>6, <1>7, SearchKeeps
<1>9. Stopped'
  BY <1>1, <1>3, <1>5, <1>6, StopSeen, OthersSearchNot DEF IInv, Stopped, AtSearch
<1> QED
  BY <1>8, <1>9 DEF IInv

LEMMA StopCheckStep ==
  ASSUME IInv, NEW c \in Callers, StopCheck(c)
  PROVE  IInv'
<1>1. Inside(c) /\ TypeOK /\ AtSearch(c) /\ call[c].pc = "list3"
  BY DEF StopCheck, Inside, InMethod, IInv, AtSearch
<1>2. stray' = stray
  BY <1>1, InsideStrays DEF StopCheck
<1>3. PICK pc \in {"list4", "list3s"} : Go(c, pc) /\ (pc = "list3s" => ~fmr.scan_stop)
  BY DEF StopCheck
<1>4. /\ call' \in [Callers -> Call]
      /\ call'[c].pc = pc /\ call'[c].s = call[c].s /\ call'[c].op = call[c].op
      /\ \A d \in Callers : d # c => call'[d] = call[d]
  <2>1. pc \in InMethod
    BY DEF InMethod
  <2> QED
    BY <1>1, <1>3, <2>1, GoMoves
<1>5. /\ drv' \in Chips
      /\ drv'.open = drv.open /\ drv'.muted = drv.muted
      /\ drv'.searching => drv.open
  <2>1. drv \in Chips /\ (drv.searching => drv.open)
    BY <1>1 DEF TypeOK, Chips, IInv, Chip
  <2>2. fmr.cur_freq \in Freqs
    BY <1>1, InsideFacts
  <2>3. CASE drv' = drv
    BY <2>1, <2>3
  <2>4. CASE drv' = [drv EXCEPT !.searching = FALSE, !.freq = fmr.cur_freq]
    BY <2>1, <2>2, <2>4 DEF Chips
  <2>5. drv' = drv \/ drv' = [drv EXCEPT !.searching = FALSE, !.freq = fmr.cur_freq]
    BY DEF StopCheck, Driver
  <2> QED
    BY <2>3, <2>4, <2>5
<1>6. UNCHANGED <<obj, tasks, worker, rds, mSession, g_idx, statics, calls, told>>
      /\ fmr' = fmr /\ late' = late
  BY DEF StopCheck
<1>7. late' \in Nat \cup {-1}
  BY <1>1, <1>6 DEF TypeOK
<1>8. TypeOK' /\ Programs' /\ Referred' /\ Exclusive' /\ Replacing' /\ Device' /\ Chip'
  BY <1>1, <1>2, <1>4, <1>5, <1>6, <1>7, SearchKeeps
<1>9. Stopped'
  <2>1. \A d \in Callers : d # c => ~(AtSearch(d))'
    BY <1>1, <1>4, OthersSearchNot DEF AtSearch
  <2>2. pc = "list3s" => late' = -1
    BY <1>1, <1>3, <1>6, StopSeen
  <2>3. late' <= 1 /\ (late' >= 0 => fmr'.scan_stop)
    BY <1>1, <1>6, StopSeen DEF IInv, Stopped
  <2>4. \A d \in Callers : d # c => call'[d].pc # "list3s"
    BY <2>1 DEF AtSearch
  <2> QED
    BY <1>4, <2>1, <2>2, <2>3, <2>4 DEF Stopped
<1> QED
  BY <1>8, <1>9 DEF IInv

LEMMA SearchSeekStep ==
  ASSUME IInv, NEW c \in Callers, SearchSeek(c)
  PROVE  IInv'
<1>1. Inside(c) /\ TypeOK /\ AtSearch(c) /\ call[c].pc = "list3s"
  BY DEF SearchSeek, Inside, InMethod, IInv, AtSearch
<1>2. stray' = stray
  BY <1>1, InsideStrays DEF SearchSeek
<1>3. call \in [Callers -> Call] /\ drv \in Chips /\ (drv.searching => drv.open)
  BY <1>1, CallIs DEF TypeOK, Chips, IInv, Chip
<1>4. /\ call' \in [Callers -> Call]
      /\ call'[c].pc \in {"list3", "list4"}
      /\ call'[c].s = call[c].s /\ call'[c].op = call[c].op
      /\ \A d \in Callers : d # c => call'[d] = call[d]
      /\ drv' \in Chips
      /\ drv'.open = drv.open /\ drv'.muted = drv.muted
      /\ drv'.searching => drv.open
  <2>1. CASE Go(c, AfterLast) /\ drv' = drv
    BY <1>1, <1>3, <2>1, GoMoves DEF AfterLast, InMethod
  <2>2. ASSUME NEW f \in Freqs, NEW kept \in BOOLEAN,
               drv' = [drv EXCEPT !.freq = f],
               call' = [call EXCEPT ![c].pc = "list3", ![c].pos = f, ![c].found = @ \/ kept]
        PROVE  <1>4
    <3> DEFINE r == [call[c] EXCEPT !.pc = "list3", !.pos = f, !.found = call[c].found \/ kept]
    <3>1. r \in Call /\ r.pc = "list3" /\ r.s = call[c].s /\ r.op = call[c].op
      BY <1>3, TopBounds, ZenonT(60) DEF Call, InMethod
    <3>2. call' = [call EXCEPT ![c] = r]
      BY <1>3, <2>2
    <3>3. /\ drv' \in Chips
          /\ drv'.open = drv.open /\ drv'.muted = drv.muted /\ drv'.searching = drv.searching
      BY <1>3, <2>2 DEF Chips
    <3> HIDE DEF r
    <3> QED
      BY <1>3, <3>1, <3>2, <3>3
  <2>3. CASE /\ call' = [call EXCEPT ![c].pc = AfterError,
                          ![c].pos = IF call[c].pos < Top THEN call[c].pos + 1 ELSE Top]
             /\ drv' = drv
    <3> DEFINE p == IF call[c].pos < Top THEN call[c].pos + 1 ELSE Top
               r == [call[c] EXCEPT !.pc = "list3", !.pos = p]
    <3>1. p \in 0..Top
      BY <1>3, TopBounds DEF Call
    <3>2. r \in Call /\ r.pc = "list3" /\ r.s = call[c].s /\ r.op = call[c].op
      BY <1>3, <3>1, ZenonT(60) DEF Call, InMethod
    <3>3. call' = [call EXCEPT ![c] = r]
      BY <1>3, <2>3 DEF AfterError
    <3> HIDE DEF r
    <3> QED
      BY <1>3, <2>3, <3>2, <3>3
  <2> QED
    BY <2>1, <2>2, <2>3 DEF SearchSeek
<1>5. UNCHANGED <<obj, tasks, worker, rds, mSession, g_idx, statics, calls, told>> /\ fmr' = fmr
  BY DEF SearchSeek
<1>6. /\ late' \in {-1, 1}
      /\ late' = 1 => fmr.scan_stop
  <2>1. late = -1 \/ (late = 0 /\ fmr.scan_stop)
    BY <1>1, StopSeen
  <2>2. late' = IF late >= 0 THEN late + 1 ELSE late
    BY DEF SearchSeek
  <2> QED
    BY <2>1, <2>2
<1>7. late' \in Nat \cup {-1}
  BY <1>6
<1>8. TypeOK' /\ Programs' /\ Referred' /\ Exclusive' /\ Replacing' /\ Device' /\ Chip'
  BY <1>1, <1>2, <1>4, <1>5, <1>7, SearchKeeps
<1>9. Stopped'
  <2>1. \A d \in Callers : d # c => ~(AtSearch(d))'
    BY <1>1, <1>4, OthersSearchNot DEF AtSearch
  <2>2. \A d \in Callers : call'[d].pc # "list3s"
    BY <1>4, <2>1 DEF AtSearch
  <2>3. late' >= 0 => fmr'.scan_stop
    BY <1>5, <1>6
  <2>4. late' <= 1
    BY <1>6
  <2> QED
    BY <2>2, <2>3, <2>4 DEF Stopped
<1> QED
  BY <1>8, <1>9 DEF IInv

LEMMA FMR_Restore_SearchStep ==
  ASSUME IInv, NEW c \in Callers, FMR_Restore_Search(c)
  PROVE  IInv'
<1>1. Inside(c) /\ TypeOK /\ AtSearch(c) /\ call[c].pc = "list4"
  BY DEF FMR_Restore_Search, Inside, InMethod, IInv, AtSearch
<1>2. stray' = stray
  BY <1>1, InsideStrays DEF FMR_Restore_Search
<1>3. /\ call' \in [Callers -> Call]
      /\ call'[c].pc = "list5" /\ call'[c].s = call[c].s /\ call'[c].op = call[c].op
      /\ \A d \in Callers : d # c => call'[d] = call[d]
  BY <1>1, GoMoves DEF FMR_Restore_Search, InMethod
<1>4. drv' \in Chips /\ drv'.open = drv.open /\ drv'.muted = drv.muted
  <2>1. drv \in Chips /\ call[c].found \in BOOLEAN
    BY <1>1 DEF TypeOK, Chips
  <2>2. fmr.cur_freq \in Freqs
    BY <1>1, InsideFacts
  <2> QED
    BY <2>1, <2>2 DEF FMR_Restore_Search, Driver, RestoredIfNone, Chips
<1>5. ~drv'.searching
  BY <1>1, InsideFacts DEF FMR_Restore_Search, Driver, RestoredIfNone, IInv, Chip, TypeOK
<1>6. UNCHANGED <<obj, tasks, worker, rds, mSession, g_idx, statics, calls, told>>
      /\ fmr' = fmr /\ late' = late
  BY DEF FMR_Restore_Search
<1>7. late' \in Nat \cup {-1}
  BY <1>1, <1>6 DEF TypeOK
<1>8. TypeOK' /\ Programs' /\ Referred' /\ Exclusive' /\ Replacing' /\ Device' /\ Chip'
  BY <1>1, <1>2, <1>3, <1>4, <1>5, <1>6, <1>7, SearchKeeps
<1>9. Stopped'
  BY <1>3, <1>6 DEF IInv, Stopped, AtSearch
<1> QED
  BY <1>8, <1>9 DEF IInv

LEMMA startProgramListUpdatesStep ==
  ASSUME IInv, NEW c \in Callers, startProgramListUpdates(c)
  PROVE  IInv'
<1> DEFINE s == call[c].s
<1>1. Inside(c) /\ TypeOK /\ Programs /\ call[c].pc = "list5"
  BY DEF startProgramListUpdates, Inside, InMethod, IInv
<1>2. stray' = stray
  BY <1>1, InsideStrays DEF startProgramListUpdates
<1>3. s \in Sessions
  BY <1>1, InsideFacts
<1>4. /\ drv' \in Chips
      /\ drv'.open = drv.open /\ drv'.muted = drv.muted /\ drv'.searching = drv.searching
  <2>1. RdsSet(s, TRUE) \in BOOLEAN
    BY <1>1, <1>3, RdsSetType
  <2> QED
    BY <1>1, <2>1, DriverKeeps DEF startProgramListUpdates
<1>5. Schedule(s, "list", None) /\ worker' = worker /\ obj' = obj
  BY DEF startProgramListUpdates
<1>6. tasks' \in [Sessions -> Seq(Task)]
  BY <1>1, <1>3, <1>5, ScheduleType
<1>7. /\ call' \in [Callers -> Call] /\ call'[c] = Idle
      /\ \A d \in Callers : d # c => call'[d] = call[d]
  BY <1>1, ReturnMoves DEF startProgramListUpdates
<1>8. TypeOK'
  BY <1>1, <1>2, <1>4, <1>6, <1>7 DEF startProgramListUpdates, TypeOK, statics, Call, Chips
<1>9. Referred' /\ Exclusive' /\ Replacing' /\ Device'
  <2>1. UNCHANGED <<worker, mSession, g_idx, stray>> /\ fmr' = fmr /\ obj' = obj
    BY <1>2 DEF startProgramListUpdates
  <2> QED
    BY <1>1, <1>4, <1>7, <1>8, <2>1, MethodKeeps
<1>10. Programs'
  BY <1>1, <1>3, <1>5, ScheduleKeeps
<1>11. Chip' /\ Stopped'
  BY <1>1, <1>4, <1>7 DEF startProgramListUpdates, Idle, IInv, Chip, Stopped, AtSearch
<1> QED
  BY <1>8, <1>9, <1>10, <1>11 DEF IInv

---------------------------------------------------------------------------
(* Calls begin, and take mMut. *)

LEMMA BeginStep ==
  ASSUME IInv, NEW c \in Callers, Begin(c)
  PROVE  IInv'
<1>1. TypeOK /\ call \in [Callers -> Call] /\ call[c] = Idle
  BY CallIs DEF IInv, Begin
<1>2. calls' \in 0..MaxCalls
  <2>1. calls < MaxCalls /\ calls' = calls + 1
    BY DEF Begin
  <2>2. calls \in 0..MaxCalls
    BY <1>1, SMTT(30) DEF TypeOK
  <2> QED
    BY <2>1, <2>2, TunerAssumption
<1>3. /\ call' \in [Callers -> Call]
      /\ call'[c].pc \in {"lock", "param", "open"}
      /\ call'[c].pc \in {"lock", "param"} =>
           call'[c].s \in Sessions /\ obj[call'[c].s].ref = "held"
      /\ call'[c].pc = "open" => call'[c].s = None /\ call'[c].op = "open"
      /\ \A d \in Callers : d # c => call'[d] = call[d]
  <2>1. ASSUME NEW s \in Sessions, NEW op \in SessionOps \cup ParamOps, NEW f \in Freqs,
               obj[s].ref = "held",
               call' = [call EXCEPT ![c] = [Idle EXCEPT
                 !.pc = IF op \in ParamOps THEN "param" ELSE "lock", !.s = s, !.op = op, !.arg = f]]
        PROVE  <1>3
    <3> DEFINE r == [Idle EXCEPT
                 !.pc = IF op \in ParamOps THEN "param" ELSE "lock", !.s = s, !.op = op, !.arg = f]
    <3>1. op \in Operations
      BY DEF SessionOps, ParamOps
    <3>2. r \in Call /\ r.pc \in {"lock", "param"} /\ r.s = s
      BY <3>1, IdleType DEF Call
    <3>3. call' = [call EXCEPT ![c] = r]
      BY <2>1
    <3> HIDE DEF r
    <3> QED
      BY <1>1, <2>1, <3>2, <3>3
  <2>2. CASE /\ "open" \in Operations
             /\ call' = [call EXCEPT ![c] = [Idle EXCEPT !.pc = "open", !.op = "open"]]
    <3> DEFINE r == [Idle EXCEPT !.pc = "open", !.op = "open"]
    <3>1. r \in Call /\ r.pc = "open" /\ r.s = None /\ r.op = "open"
      BY <2>2, IdleType DEF Call, Idle
    <3>2. call' = [call EXCEPT ![c] = r]
      BY <2>2
    <3> HIDE DEF r
    <3> QED
      BY <1>1, <3>1, <3>2
  <2> QED
    BY <2>1, <2>2 DEF Begin
<1>4. UNCHANGED <<obj, tasks, worker, rds, mSession, g_idx, drv, fmr, sprdrds_state,
                  sprdtune_state, told, stray, late>>
  BY DEF Begin, device, statics
<1>5. TypeOK'
  BY <1>1, <1>2, <1>3, <1>4 DEF TypeOK, Call
<1>6. call[c].pc = "idle"
  BY <1>1 DEF Idle
<1>7. \A d \in Callers :
        /\ (Inside(d))' <=> Inside(d)
        /\ Inside(d) => call'[d] = call[d]
        /\ (HoldsModule(d))' <=> HoldsModule(d)
        /\ HoldsModule(d) => call'[d] = call[d]
        /\ (AtSearch(d))' <=> AtSearch(d)
  BY <1>3, <1>6 DEF Inside, InMethod, HoldsModule, AtSearch
<1>8. Referred'
  <2>1. \A d \in Callers : call[d].s # None => call[d].s \in Sessions
    BY <1>1, SessionOfCall
  <2>2. \A d \in Callers : call'[d].s # None => obj[call'[d].s].ref = "held"
    BY <1>3, <1>5, <2>1 DEF IInv, Referred
  <2>3. \A d \in Callers :
          call'[d].pc \in InMethod \cup {"lock", "param", "old"} => call'[d].s \in Sessions
    BY <1>3 DEF IInv, Referred, InMethod
  <2> QED
    BY <1>4, <1>7, <2>2, <2>3 DEF IInv, Referred, Open
<1>9. Exclusive' /\ Device' /\ Programs'
  BY <1>4, <1>7 DEF IInv, Exclusive, Device, Programs, Open, ClosedDeviceLeftAlone
<1>10. Replacing'
  BY <1>3, <1>4 DEF IInv, Replacing, Open
<1>11. Chip' /\ Stopped'
  BY <1>3, <1>4, <1>6 DEF IInv, Chip, Stopped, AtSearch
<1> QED
  BY <1>5, <1>8, <1>9, <1>10, <1>11 DEF IInv

\* The mutex of an open session is free: no caller is inside a method at all.
LEMMA NobodyInside ==
  ASSUME IInv, NEW s \in Sessions, Open(s), MutFree(s)
  PROVE  \A d \in Callers : ~Inside(d)
BY DEF IInv, Referred, Device, MutFree, Inside

\* A caller that comes in, or leaves at once.
LEMMA EnterKeeps ==
  ASSUME IInv, TypeOK', NEW c \in Callers, call[c].pc \in {"lock", "old"},
         \A d \in Callers : d # c => call'[d] = call[d],
         \/ call'[c] = Idle
         \/ /\ Open(call[c].s) /\ MutFree(call[c].s)
            /\ call'[c].pc \in {"tune1", "scan1", "step1", "list1", "close1"}
            /\ call'[c].s = call[c].s /\ call'[c].op = call[c].op
            /\ (call[c].pc = "old" => call'[c].pc = "close1")
            /\ (call[c].pc = "lock" => call[c].op # "open"),
         \A s \in Sessions : /\ obj'[s].ref = obj[s].ref
                             /\ obj'[s].mIsClosed = obj[s].mIsClosed
                             /\ obj'[s].mCurrentProgram = obj[s].mCurrentProgram,
         \A s \in Sessions : tasks'[s] = tasks[s] \/ tasks'[s] = <<>>,
         UNCHANGED <<worker, mSession, g_idx, stray, drv, fmr, late>>
  PROVE  Programs' /\ Referred' /\ Exclusive' /\ Replacing' /\ Device' /\ Chip' /\ Stopped'
<1>1. TypeOK /\ call[c].s \in Sessions /\ Idle.pc = "idle" /\ Idle.s = None
  BY DEF IInv, Referred, Idle
<1>2. \A s \in Sessions : (Open(s))' <=> Open(s)
  BY DEF Open
<1>3. call'[c].pc \in {"idle", "tune1", "scan1", "step1", "list1", "close1"}
  BY <1>1
<1>4. Programs'
  BY DEF IInv, Programs
<1>5. Referred'
  <2>1. ASSUME NEW d \in Callers, call'[d].s # None
        PROVE  obj'[call'[d].s].ref = "held"
    <3>1. call'[d].s = call[d].s
      BY <1>1, <2>1
    <3>2. call[d].s \in Sessions
      BY <1>1, <2>1, <3>1, SessionOfCall
    <3> QED
      BY <2>1, <3>1, <3>2 DEF IInv, Referred
  <2>2. ASSUME NEW d \in Callers, call'[d].pc \in InMethod \cup {"lock", "param", "old"}
        PROVE  call'[d].s \in Sessions
    BY <1>1, <2>2 DEF IInv, Referred, InMethod
  <2>3. ASSUME NEW d \in Callers, (Inside(d))'
        PROVE  (Open(call[d].s))' /\ call'[d].s = call[d].s
    <3>1. CASE d = c
      BY <1>1, <1>2, <2>3, <3>1 DEF Inside, InMethod
    <3>2. CASE d # c
      BY <1>2, <2>3, <3>2 DEF IInv, Referred, Inside
    <3> QED
      BY <3>1, <3>2
  <2> QED
    BY <2>1, <2>2, <2>3 DEF Referred, Open
<1>6. Exclusive'
  <2>1. CASE call'[c] = Idle
    <3>1. \A d \in Callers : (Inside(d))' => d # c /\ Inside(d) /\ call'[d] = call[d]
      BY <1>1, <2>1 DEF Inside, InMethod
    <3>2. \A d \in Callers : (HoldsModule(d))' => HoldsModule(d)
      BY <1>1, <2>1 DEF HoldsModule
    <3> QED
      BY <3>1, <3>2 DEF IInv, Exclusive
  <2>2. CASE call'[c] # Idle
    <3>1. \A d \in Callers : ~Inside(d)
      BY <1>1, <2>2, NobodyInside
    <3>2. \A d \in Callers : (Inside(d))' => d = c
      BY <3>1 DEF Inside
    <3>3. worker'[call'[c].s].pc # "tuning"
      BY <2>2 DEF MutFree
    <3>4. \A d \in Callers : (HoldsModule(d))' => HoldsModule(d)
      BY <2>2 DEF HoldsModule
    <3> QED
      BY <3>2, <3>3, <3>4 DEF IInv, Exclusive
  <2> QED
    BY <2>1, <2>2
<1>7. Replacing'
  BY <1>1, <1>2 DEF IInv, Replacing
<1>8. Device'
  BY <1>2 DEF IInv, Device, ClosedDeviceLeftAlone
<1>9. Chip' /\ Stopped'
  BY <1>3 DEF IInv, Chip, Stopped, AtSearch
<1> QED
  BY <1>4, <1>5, <1>6, <1>7, <1>8, <1>9

LEMMA CancelMoves ==
  ASSUME TypeOK, NEW s \in Sessions, CancelLocked(s)
  PROVE  /\ obj' \in [Sessions -> Object]
         /\ \A t \in Sessions :
              /\ obj'[t].ref = obj[t].ref /\ obj'[t].mIsClosed = obj[t].mIsClosed
              /\ obj'[t].mCurrentProgram = obj[t].mCurrentProgram
         /\ tasks' \in [Sessions -> Seq(Task)]
         /\ \A t \in Sessions : tasks'[t] = tasks[t] \/ tasks'[t] = <<>>
<1>1. <<>> \in Seq(Task)
  OBVIOUS
<1>2. obj' = [obj EXCEPT ![s].mIsTuneCompleted = TRUE]
  BY DEF CancelLocked
<1>3. tasks' = [tasks EXCEPT ![s] = <<>>] /\ tasks \in [Sessions -> Seq(Task)]
  BY DEF CancelLocked, TypeOK
<1> QED
  BY <1>1, <1>2, <1>3, FlagMoves

LEMMA EnterStep ==
  ASSUME IInv, NEW c \in Callers, Enter(c)
  PROVE  IInv'
<1> DEFINE s == call[c].s
<1>1. TypeOK /\ s \in Sessions /\ call[c].pc = "lock" /\ call[c].op # "open"
  BY DEF IInv, Enter, Referred
<1>2. s # None /\ obj[s].ref = "held"
  BY <1>1, TunerAssumption DEF IInv, Referred
<1>3. ASSUME CancelLocked(s) \/ UNCHANGED <<tasks, obj>>
      PROVE  /\ obj' \in [Sessions -> Object]
             /\ \A t \in Sessions :
                  /\ obj'[t].ref = obj[t].ref /\ obj'[t].mIsClosed = obj[t].mIsClosed
                  /\ obj'[t].mCurrentProgram = obj[t].mCurrentProgram
             /\ tasks' \in [Sessions -> Seq(Task)]
             /\ \A t \in Sessions : tasks'[t] = tasks[t] \/ tasks'[t] = <<>>
  BY <1>1, <1>3, CancelMoves DEF TypeOK, Object
<1>4. CancelLocked(s) \/ UNCHANGED <<tasks, obj>>
  BY DEF Enter
<1>5. /\ call' \in [Callers -> Call]
      /\ \A d \in Callers : d # c => call'[d] = call[d]
      /\ \/ call'[c] = Idle
         \/ /\ Open(s) /\ MutFree(s)
            /\ call'[c].pc \in {"tune1", "scan1", "step1", "list1", "close1"}
            /\ call'[c].s = s /\ call'[c].op = call[c].op
  <2>1. CASE Return(c)
    BY <1>1, <2>1, ReturnMoves
  <2>2. ASSUME NEW pc \in {"tune1", "scan1", "step1", "list1", "close1"}, Go(c, pc), ~Refused(s)
        PROVE  <1>5
    <3>1. pc \in InMethod
      BY DEF InMethod
    <3>2. Open(s) /\ MutFree(s)
      BY <1>2, <2>2 DEF Enter, Refused, Open
    <3> QED
      BY <1>1, <2>2, <3>1, <3>2, GoMoves
  <2>3. Return(c) \/ \E pc \in {"tune1", "scan1", "step1", "list1", "close1"} :
                       Go(c, pc) /\ ~Refused(s)
    BY DEF Enter
  <2> QED
    BY <2>1, <2>2, <2>3
<1>6. UNCHANGED <<worker, rds, mSession, g_idx, drv, fmr, sprdrds_state, sprdtune_state,
                  calls, told, stray, late>>
  BY DEF Enter, device, statics
<1>7. TypeOK'
  BY <1>1, <1>3, <1>4, <1>5, <1>6, SMTT(30) DEF TypeOK, Object, Call
<1>8. Programs' /\ Referred' /\ Exclusive' /\ Replacing' /\ Device' /\ Chip' /\ Stopped'
  BY <1>1, <1>3, <1>4, <1>5, <1>6, <1>7, EnterKeeps
<1> QED
  BY <1>7, <1>8 DEF IInv

---------------------------------------------------------------------------
(* close and openSession. *)

\* One session is closed; no caller was inside a method but the one that closes it.
LEMMA closeStep ==
  ASSUME IInv, NEW c \in Callers, close(c)
  PROVE  IInv'
<1> DEFINE s == call[c].s
<1>1. Inside(c) /\ TypeOK /\ Programs /\ call[c].pc = "close1"
  BY DEF close, Inside, InMethod, IInv
<1>2. stray' = stray
  BY <1>1, InsideStrays DEF close
<1>3. s \in Sessions /\ Open(s) /\ mSession = s
  BY <1>1, InsideFacts DEF Open
<1>4. \A d \in Callers : d # c => ~Inside(d)
  BY <1>1, InsideFacts
<1>5. /\ obj' \in [Sessions -> Object]
      /\ obj'[s].mIsClosed
      /\ \A t \in Sessions : obj'[t].ref = obj[t].ref
      /\ \A t \in Sessions : t # s => obj'[t] = obj[t]
  <2> DEFINE o == [obj[s] EXCEPT !.mIsClosed = TRUE]
  <2>1. obj \in [Sessions -> Object]
    BY <1>1 DEF TypeOK, Object
  <2>2. o \in Object /\ o.mIsClosed /\ o.ref = obj[s].ref
    BY <1>3, <2>1, ZenonT(60) DEF Object
  <2>3. obj' = [obj EXCEPT ![s] = o]
    BY <1>3, <2>1 DEF close
  <2> HIDE DEF o
  <2> QED
    BY <1>3, <2>1, <2>2, <2>3
<1>6. drv' \in Chips /\ ~drv'.open /\ drv'.searching = drv.searching /\ drv'.muted = drv.muted
  <2>1. RdsSet(s, FALSE) \in BOOLEAN
    BY <1>1, <1>3, RdsSetType
  <2>2. Usable <=> drv.open
    BY <1>1, InsideFacts
  <2> QED
    BY <1>1, <2>1, <2>2 DEF close, Driver, TypeOK, Chips
<1>7. ~drv.searching /\ ~drv.muted
  <2>1. \A d \in Callers : ~AtSearch(d) /\ call[d].pc \notin {"scan2", "scan3", "scan4"}
    BY <1>1, <1>4 DEF Inside, InMethod, AtSearch
  <2> QED
    BY <2>1 DEF IInv, Chip
<1>8. /\ tasks' \in [Sessions -> Seq(Task)]
      /\ \A t \in Sessions : tasks'[t] = tasks[t] \/ tasks'[t] = <<>>
  <2>1. <<>> \in Seq(Task)
    OBVIOUS
  <2> QED
    BY <1>1, <2>1 DEF close, TypeOK
<1>9. /\ call' \in [Callers -> Call]
      /\ \A d \in Callers : d # c => call'[d] = call[d]
      /\ call'[c].s = None /\ call'[c].pc \in {"new", "idle"}
      /\ call'[c].pc = "new" => call[c].op = "open" /\ call'[c].op = "open"
      /\ mSession' \in Sessions \cup {None}
  <2>1. CASE call[c].op = "open"
    <3> DEFINE r == [call[c] EXCEPT !.pc = "new", !.s = None]
    <3>1. call \in [Callers -> Call]
      BY <1>1, CallIs
    <3>2. r \in Call /\ r.pc = "new" /\ r.s = None /\ r.op = "open"
      BY <2>1, <3>1 DEF Call
    <3>3. call' = [call EXCEPT ![c] = r] /\ mSession' = None
      BY <2>1, <3>1 DEF close
    <3> HIDE DEF r
    <3> QED
      BY <2>1, <3>1, <3>2, <3>3
  <2>2. CASE call[c].op # "open"
    <3>1. Return(c) /\ mSession' = mSession
      BY <2>2 DEF close
    <3> QED
      BY <1>1, <3>1, ReturnMoves DEF Idle, TypeOK
  <2> QED
    BY <2>1, <2>2
<1>10. UNCHANGED <<worker, rds, fmr, statics, calls, told, late>> /\ g_idx' = -1
  BY DEF close
<1>11. TypeOK'
  BY <1>1, <1>2, <1>5, <1>6, <1>8, <1>9, <1>10 DEF TypeOK, statics, Object, Call, Chips
<1>12. \A t \in Sessions : ~(Open(t))'
  <2>1. \A t \in Sessions : Open(t) => t = s
    BY <1>3 DEF IInv, Device
  <2> QED
    BY <2>1, <1>5 DEF Open
<1>13. \A d \in Callers : ~(Inside(d))'
  BY <1>4, <1>9 DEF Inside, InMethod
<1>14. Programs'
  <2>1. \A t \in Sessions : ~obj'[t].mIsClosed => obj'[t].mCurrentProgram \in Freqs
    BY <1>1, <1>5 DEF Programs
  <2> QED
    BY <1>1, <1>8, <1>10, <2>1 DEF Programs
<1>15. Referred'
  <2>1. ASSUME NEW d \in Callers, call'[d].s # None
        PROVE  obj'[call'[d].s].ref = "held"
    <3>1. d # c /\ call'[d].s = call[d].s
      BY <1>9, <2>1
    <3>2. call[d].s \in Sessions
      BY <1>1, <2>1, <3>1, SessionOfCall
    <3> QED
      BY <1>5, <2>1, <3>1, <3>2 DEF IInv, Referred
  <2>2. \A d \in Callers :
          call'[d].pc \in InMethod \cup {"lock", "param", "old"} => call'[d].s \in Sessions
    BY <1>9 DEF IInv, Referred, InMethod
  <2> QED
    BY <1>13, <2>1, <2>2 DEF Referred
<1>16. Exclusive'
  <2>1. \A d \in Callers : (HoldsModule(d))' => HoldsModule(d)
    BY <1>1, <1>9 DEF HoldsModule
  <2> QED
    BY <1>13, <2>1 DEF IInv, Exclusive
<1>17. Replacing'
  <2>1. \A d \in Callers : call'[d].pc \in {"open", "old", "new"} => call'[d].op = "open"
    BY <1>9 DEF IInv, Replacing
  <2>2. ASSUME NEW d \in Callers, call'[d].pc = "old" \/ (call'[d].pc = "close1" /\ call'[d].op = "open")
        PROVE  call'[d].s = mSession'
    <3>1. d # c /\ call'[d] = call[d] /\ HoldsModule(d)
      BY <1>9, <2>2 DEF HoldsModule
    <3>2. ~HoldsModule(c)
      BY <3>1 DEF IInv, Exclusive
    <3>3. mSession' = mSession
      BY <1>1, <3>2 DEF HoldsModule, close
    <3> QED
      BY <2>2, <3>1, <3>3 DEF IInv, Replacing
  <2> QED
    BY <1>12, <2>1, <2>2 DEF Replacing
<1>18. Device'
  <2>1. \A t \in Sessions : worker[t].pc = "tuning" => t # s
    BY <1>1, InsideFacts
  <2> QED
    BY <1>2, <1>5, <1>6, <1>10, <1>12, <2>1 DEF IInv, Device, ClosedDeviceLeftAlone
<1>19. Chip' /\ Stopped'
  BY <1>6, <1>7, <1>9, <1>10 DEF IInv, Chip, Stopped, AtSearch
<1> QED
  BY <1>11, <1>14, <1>15, <1>16, <1>17, <1>18, <1>19 DEF IInv

\* openSession takes the module's mutex, or goes on without an old session.
LEMMA OpenKeeps ==
  ASSUME IInv, TypeOK', NEW c \in Callers, call[c].pc \in {"open", "old"}, call[c].op = "open",
         call[c].pc = "old" \/ \A d \in Callers : ~HoldsModule(d),
         \A d \in Callers : d # c => call'[d] = call[d],
         call'[c].pc \in {"old", "new"}, call'[c].op = "open",
         \/ /\ call'[c].pc = "old" /\ mSession \in Sessions /\ obj[mSession].ref = "held"
            /\ call'[c].s = mSession /\ mSession' = mSession
         \/ /\ call'[c].pc = "new" /\ call'[c].s = None
            /\ \A s \in Sessions : ~Open(s),
         UNCHANGED <<obj, tasks, worker, g_idx, drv, fmr, stray, late>>,
         mSession' # mSession => HoldsModule(c)
  PROVE  Programs' /\ Referred' /\ Exclusive' /\ Replacing' /\ Device' /\ Chip' /\ Stopped'
<1>1. TypeOK
  BY DEF IInv
<1>2. Programs'
  BY DEF IInv, Programs
<1>3. \A d \in Callers : (Inside(d))' => d # c /\ Inside(d) /\ call'[d] = call[d]
  BY DEF Inside, InMethod
<1>4. Referred'
  <2>1. ASSUME NEW d \in Callers, call'[d].s # None
        PROVE  obj'[call'[d].s].ref = "held"
    <3>1. CASE d = c
      BY <2>1, <3>1
    <3>2. CASE d # c
      <4>1. call'[d] = call[d] /\ call[d].s \in Sessions
        BY <1>1, <2>1, <3>2, SessionOfCall
      <4> QED
        BY <2>1, <4>1 DEF IInv, Referred
    <3> QED
      BY <3>1, <3>2
  <2>2. \A d \in Callers :
          call'[d].pc \in InMethod \cup {"lock", "param", "old"} => call'[d].s \in Sessions
    BY DEF IInv, Referred, InMethod
  <2> QED
    BY <1>3, <2>1, <2>2 DEF IInv, Referred, Open
<1>5. \A d \in Callers : d # c => ~HoldsModule(d)
  BY DEF IInv, Exclusive, HoldsModule
<1>6. Exclusive'
  <2>1. \A d \in Callers : (HoldsModule(d))' => d = c
    BY <1>5 DEF HoldsModule
  <2> QED
    BY <1>3, <2>1 DEF IInv, Exclusive
<1>7. Replacing'
  <2>1. \A d \in Callers : d # c => call'[d].pc \notin {"old", "new"}
                                    /\ ~(call'[d].pc = "close1" /\ call'[d].op = "open")
    BY <1>5 DEF HoldsModule
  <2>2. \A d \in Callers : call'[d].pc \in {"open", "old", "new"} => call'[d].op = "open"
    BY DEF IInv, Replacing
  <2>3. call'[c].pc = "old" => call'[c].s = mSession'
    OBVIOUS
  <2>4. call'[c].pc = "new" => \A s \in Sessions : ~(Open(s))'
    BY DEF Open
  <2> QED
    BY <2>1, <2>2, <2>3, <2>4 DEF Replacing
<1>8. Device'
  BY DEF IInv, Device, Open, ClosedDeviceLeftAlone
<1>9. Chip' /\ Stopped'
  BY DEF IInv, Chip, Stopped, AtSearch
<1> QED
  BY <1>2, <1>4, <1>6, <1>7, <1>8, <1>9

LEMMA openSessionStep ==
  ASSUME IInv, NEW c \in Callers, openSession(c)
  PROVE  IInv'
<1> DEFINE pc == IF Promotable THEN "old" ELSE "new"
           s == IF Promotable THEN mSession ELSE None
           r == [call[c] EXCEPT !.pc = pc, !.s = s]
<1>1. TypeOK /\ call \in [Callers -> Call] /\ call[c].pc = "open" /\ call[c].op = "open"
  BY CallIs DEF IInv, Replacing, openSession
<1>2. s \in Sessions \cup {None}
  BY <1>1 DEF TypeOK
<1>3. r \in Call /\ r.op = call[c].op /\ r.pc = pc /\ r.s = s
  BY <1>1, <1>2 DEF Call
<1>4. /\ call' = [call EXCEPT ![c] = r]
      /\ UNCHANGED <<obj, tasks, worker, rds, mSession, g_idx, drv, fmr, sprdrds_state,
                  sprdtune_state, calls, told, stray, late>>
  BY <1>1 DEF openSession, device, statics
<1> HIDE DEF r
<1>5. call' \in [Callers -> Call] /\ call'[c] = r /\ \A d \in Callers : d # c => call'[d] = call[d]
  BY <1>1, <1>3, <1>4
<1>6. TypeOK'
  BY <1>1, <1>4, <1>5 DEF TypeOK, Call
<1>7. \A d \in Callers : ~HoldsModule(d)
  BY DEF openSession, ModuleMutFree, HoldsModule, IInv, Replacing
<1>8. \/ /\ call'[c].pc = "old" /\ mSession \in Sessions /\ obj[mSession].ref = "held"
         /\ call'[c].s = mSession /\ mSession' = mSession
      \/ /\ call'[c].pc = "new" /\ call'[c].s = None
         /\ \A t \in Sessions : ~Open(t)
  <2>1. CASE Promotable
    BY <1>2, <1>3, <1>4, <1>5, <2>1 DEF Promotable
  <2>2. CASE ~Promotable
    <3>1. \A t \in Sessions : Open(t) => mSession = t
      BY DEF IInv, Device
    <3>2. \A t \in Sessions : ~Open(t)
      BY <2>2, <3>1, TunerAssumption DEF Promotable, Open
    <3> QED
      BY <1>3, <1>5, <2>2, <3>2
  <2> QED
    BY <2>1, <2>2
<1>9. Programs' /\ Referred' /\ Exclusive' /\ Replacing' /\ Device' /\ Chip' /\ Stopped'
  BY <1>1, <1>3, <1>4, <1>5, <1>6, <1>7, <1>8, OpenKeeps
<1> QED
  BY <1>6, <1>9 DEF IInv

LEMMA CloseOldStep ==
  ASSUME IInv, NEW c \in Callers, CloseOld(c)
  PROVE  IInv'
<1> DEFINE s == call[c].s
<1>1. /\ TypeOK /\ call \in [Callers -> Call] /\ call[c].pc = "old" /\ call[c].op = "open"
      /\ s \in Sessions /\ s = mSession /\ HoldsModule(c) /\ MutFree(s)
  BY CallIs DEF IInv, Replacing, Referred, CloseOld, HoldsModule
<1>2. s # None /\ obj[s].ref = "held"
  BY <1>1, TunerAssumption DEF IInv, Referred
<1>3. UNCHANGED <<obj, tasks, worker, rds, g_idx, drv, fmr, sprdrds_state,
                  sprdtune_state, calls, told, stray, late>>
  BY DEF CloseOld, statics
<1>4. CASE Refused(s)
  <2> DEFINE r == [call[c] EXCEPT !.pc = "new", !.s = None]
  <2>1. r \in Call /\ r.op = "open" /\ r.pc = "new" /\ r.s = None
    BY <1>1 DEF Call
  <2>2. call' = [call EXCEPT ![c] = r] /\ mSession' = None
    BY <1>1, <1>4 DEF CloseOld
  <2> HIDE DEF r
  <2>3. call' \in [Callers -> Call] /\ call'[c] = r /\ \A d \in Callers : d # c => call'[d] = call[d]
    BY <1>1, <2>1, <2>2
  <2>4. TypeOK'
    BY <1>1, <1>3, <2>2, <2>3 DEF TypeOK, Call
  <2>5. \A t \in Sessions : ~Open(t)
    BY <1>1, <1>4 DEF IInv, Device, Open, Refused
  <2>6. Programs' /\ Referred' /\ Exclusive' /\ Replacing' /\ Device' /\ Chip' /\ Stopped'
    BY <1>1, <1>3, <2>1, <2>3, <2>4, <2>5, OpenKeeps
  <2> QED
    BY <2>4, <2>6 DEF IInv
<1>5. CASE ~Refused(s)
  <2>1. Go(c, "close1") /\ mSession' = mSession
    BY <1>5 DEF CloseOld
  <2>2. /\ call' \in [Callers -> Call]
        /\ call'[c].pc = "close1" /\ call'[c].s = s /\ call'[c].op = call[c].op
        /\ \A d \in Callers : d # c => call'[d] = call[d]
    BY <1>1, <2>1, GoMoves DEF InMethod
  <2>3. TypeOK'
    BY <1>1, <1>3, <2>1, <2>2 DEF TypeOK, Call
  <2>4. Open(s)
    BY <1>2, <1>5 DEF Open, Refused
  <2>5. Programs' /\ Referred' /\ Exclusive' /\ Replacing' /\ Device' /\ Chip' /\ Stopped'
    BY <1>1, <1>3, <2>1, <2>2, <2>3, <2>4, EnterKeeps
  <2> QED
    BY <2>3, <2>5 DEF IInv
<1> QED
  BY <1>4, <1>5

\* The new session gets the device, open or not as the model's inputs say.
LEMMA NewSessionStep ==
  ASSUME IInv, Fresh, NEW c \in Callers, NewSession(c)
  PROVE  IInv' /\ Fresh'
<1>1. TypeOK /\ call[c].pc = "new"
  BY DEF IInv, NewSession
<1>2. /\ \A t \in Sessions : ~Open(t)
      /\ \A d \in Callers : ~Inside(d) /\ ~AtSearch(d)
      /\ ~drv.searching /\ ~drv.muted
      /\ \A d \in Callers : d # c => ~HoldsModule(d)
  BY <1>1, NewFacts
<1>3. PICK s \in Sessions, opens \in BOOLEAN, supported \in BOOLEAN :
       LET result == IndexSet \/ opens
           fd     == IF IndexSet THEN drv.open ELSE opens
       IN
       /\ obj[s].ref = "unborn"
       /\ IF IndexSet THEN opens ELSE opens \/ OpenMayFail
       /\ supported => result /\ fd
       /\ g_idx' = 0
       /\ mSession' = s
       /\ drv' = IF result /\ fd
                   THEN [drv EXCEPT !.open = TRUE, !.freq = Home,
                                    !.rds = IF supported THEN TRUE ELSE @]
                   ELSE [drv EXCEPT !.open = fd]
       /\ fmr' = [cur_freq |-> IF result THEN Home ELSE 0,
                  scan_stop |-> IF IndexSet THEN fmr.scan_stop ELSE FALSE]
       /\ obj' = [obj EXCEPT ![s].ref = "held", ![s].mIsClosed = ~result,
                    ![s].mIsRdsSupported = supported, ![s].mIsTuneCompleted = result,
                    ![s].mCurrentProgram = IF result THEN Home ELSE None,
                    ![s].mCurrentProgramInfo = IF result THEN Home ELSE None]
       /\ told' = [told EXCEPT ![s] = IF result THEN Home ELSE None]
       /\ rds' = [rds EXCEPT ![s].pc = IF supported THEN "loop" ELSE "none"]
  BY DEF NewSession
<1> DEFINE result == IndexSet \/ opens
           fd     == IF IndexSet THEN drv.open ELSE opens
<1>4. result \in BOOLEAN /\ fd \in BOOLEAN /\ Home \in Freqs
  BY <1>1, TunerAssumption DEF TypeOK, IndexSet
<1>5. /\ obj' \in [Sessions -> Object]
      /\ obj'[s].ref = "held" /\ (~obj'[s].mIsClosed => result /\ obj'[s].mCurrentProgram = Home)
      /\ \A t \in Sessions : t # s => obj'[t] = obj[t]
  <2> DEFINE o == [obj[s] EXCEPT !.ref = "held", !.mIsClosed = ~result,
                    !.mIsRdsSupported = supported, !.mIsTuneCompleted = result,
                    !.mCurrentProgram = IF result THEN Home ELSE None,
                    !.mCurrentProgramInfo = IF result THEN Home ELSE None]
  <2>1. obj \in [Sessions -> Object]
    BY <1>1 DEF TypeOK, Object
  <2> HIDE DEF result
  <2>2. o \in Object /\ o.ref = "held" /\ (~o.mIsClosed => result /\ o.mCurrentProgram = Home)
    BY <1>4, <2>1 DEF Object
  <2>3. obj' = [obj EXCEPT ![s] = o]
    BY <1>3, <2>1 DEF result
  <2> HIDE DEF o
  <2> QED
    BY <2>1, <2>2, <2>3
<1>6. /\ drv' \in Chips /\ drv'.searching = drv.searching /\ drv'.muted = drv.muted
      /\ drv'.open = fd
  BY <1>1, <1>3, <1>4 DEF TypeOK, Chips
<1>7. /\ fmr' \in [cur_freq : Freqs \cup {0}, scan_stop : BOOLEAN]
      /\ result => fmr'.cur_freq \in Freqs
  BY <1>1, <1>3, <1>4 DEF TypeOK
<1>8. told' \in [Sessions -> Freqs \cup {None}]
  BY <1>1, <1>3, <1>4 DEF TypeOK
<1>9. rds' \in [Sessions -> [pc : {"none", "loop", "compare", "sleep", "wait", "ended"},
                             newInfo : Freqs \cup {None}]]
  <2> DEFINE R == [pc : {"none", "loop", "compare", "sleep", "wait", "ended"},
                   newInfo : Freqs \cup {None}]
             r == [rds[s] EXCEPT !.pc = IF supported THEN "loop" ELSE "none"]
  <2>1. rds \in [Sessions -> R]
    BY <1>1 DEF TypeOK
  <2>2. r \in R
    BY <2>1
  <2>3. rds' = [rds EXCEPT ![s] = r]
    BY <1>3
  <2> HIDE DEF r, R
  <2>4. rds' \in [Sessions -> R]
    BY <2>1, <2>2, <2>3
  <2> QED
    BY <2>4 DEF R
<1>10. /\ call' \in [Callers -> Call] /\ call'[c] = Idle
       /\ \A d \in Callers : d # c => call'[d] = call[d]
  BY <1>1, ReturnMoves DEF NewSession
<1>11. UNCHANGED <<tasks, worker, statics, calls, stray, late>> /\ mSession' = s /\ g_idx' = 0
  BY <1>3 DEF NewSession
<1> HIDE DEF result, fd
<1>13. TypeOK'
  BY <1>1, <1>5, <1>6, <1>7, <1>8, <1>9, <1>10, <1>11 DEF TypeOK, statics, Object, Call, Chips
<1>14. Idle.pc = "idle" /\ Idle.s = None
  BY DEF Idle
<1>15. \A d \in Callers : ~(Inside(d))' /\ ~(HoldsModule(d))' /\ ~(AtSearch(d))'
  <2>1. call'[c].pc = "idle"
    BY <1>10, <1>14
  <2>2. \A d \in Callers : d # c => call'[d] = call[d]
    BY <1>10
  <2> QED
    BY <1>2, <2>1, <2>2 DEF Inside, InMethod, HoldsModule, AtSearch
<1>16. Programs'
  BY <1>4, <1>5, <1>11 DEF IInv, Programs
<1>17. Referred'
  <2>1. ASSUME NEW d \in Callers, call'[d].s # None
        PROVE  obj'[call'[d].s].ref = "held"
    <3>1. d # c /\ call'[d].s = call[d].s
      BY <1>10, <1>14, <2>1
    <3>2. call[d].s \in Sessions
      BY <1>1, <2>1, <3>1, SessionOfCall
    <3> QED
      BY <1>5, <2>1, <3>1, <3>2 DEF IInv, Referred
  <2>2. \A d \in Callers :
          call'[d].pc \in InMethod \cup {"lock", "param", "old"} => call'[d].s \in Sessions
    BY <1>10, <1>14 DEF IInv, Referred, InMethod
  <2> QED
    BY <1>15, <2>1, <2>2 DEF Referred
<1>18. Exclusive'
  BY <1>15 DEF Exclusive
<1>19. Replacing'
  BY <1>10, <1>14, <1>15 DEF IInv, Replacing, HoldsModule
<1>20. Device'
  <2>1. \A t \in Sessions : (Open(t))' => t = s /\ result
    BY <1>2, <1>5 DEF Open
  <2>2. ASSUME NEW t \in Sessions, worker'[t].pc = "tuning", obj'[t].ref = "held"
        PROVE  ~obj'[t].mIsClosed
    <3>1. t # s
      BY <1>3, <1>11, <2>2 DEF Fresh
    <3> QED
      BY <1>5, <1>11, <2>2, <3>1 DEF IInv, Device
  <2> QED
    BY <1>6, <1>7, <1>11, <2>1, <2>2 DEF IInv, Device, ClosedDeviceLeftAlone
<1>21. Chip' /\ Stopped'
  BY <1>2, <1>6, <1>11, <1>15 DEF IInv, Chip, Stopped, AtSearch
<1>22. Fresh'
  <2>1. \A t \in Sessions : t # s => rds'[t] = rds[t]
    BY <1>1, <1>3 DEF TypeOK
  <2> QED
    BY <1>5, <1>11, <2>1, FreshKeeps
<1> QED
  BY <1>13, <1>16, <1>17, <1>18, <1>19, <1>20, <1>21, <1>22 DEF IInv

---------------------------------------------------------------------------
(* setParameters, which takes no mutex. *)

LEMMA setParametersStep ==
  ASSUME IInv, NEW c \in Callers, setParameters(c)
  PROVE  IInv'
<1>1. TypeOK /\ call[c].pc = "param"
  BY DEF IInv, setParameters
<1>2. /\ call' \in [Callers -> Call] /\ call'[c] = Idle
      /\ \A d \in Callers : d # c => call'[d] = call[d]
  BY <1>1, ReturnMoves DEF setParameters
<1>3. Idle.pc = "idle" /\ Idle.s = None
  BY DEF Idle
<1>4. UNCHANGED <<obj, tasks, worker, rds, mSession, g_idx, sprdtune_state, calls, told>>
      /\ stray' = Strays("param")
  BY DEF setParameters
<1>5. /\ drv' \in Chips /\ drv'.open = drv.open
      /\ drv'.searching = drv.searching /\ drv'.muted = drv.muted
      /\ fmr' \in [cur_freq : Freqs \cup {0}, scan_stop : BOOLEAN]
      /\ fmr'.cur_freq = fmr.cur_freq /\ (fmr.scan_stop => fmr'.scan_stop)
      /\ sprdrds_state' \in {0, 1}
      /\ late' = late \/ (late = -1 /\ late' = 0 /\ fmr'.scan_stop)
  <2>1. CASE /\ fmr' = [fmr EXCEPT !.scan_stop = TRUE]
             /\ late' = IF late = -1 /\ \E d \in Callers : AtSearch(d) THEN 0 ELSE late
             /\ UNCHANGED <<drv, sprdrds_state>>
    BY <1>1, <2>1 DEF TypeOK, Chips
  <2>2. CASE /\ call[c].op \in {"rdsOn", "rdsOff"}
             /\ drv' = Driver([drv EXCEPT !.rds = (call[c].op = "rdsOn")])
             /\ sprdrds_state' = IF call[c].op = "rdsOn" THEN 0 ELSE 1
             /\ UNCHANGED <<fmr, late>>
    <3>1. (call[c].op = "rdsOn") \in BOOLEAN
      OBVIOUS
    <3>2. /\ drv' \in Chips /\ drv'.open = drv.open
          /\ drv'.searching = drv.searching /\ drv'.muted = drv.muted
      BY <1>1, <2>2, <3>1, DriverKeeps
    <3> QED
      BY <1>1, <2>2, <3>2 DEF TypeOK
  <2> QED
    BY <2>1, <2>2 DEF setParameters
<1>6. stray' \cap {"method", "task", "rds"} = stray \cap {"method", "task", "rds"}
      /\ stray' \subseteq {"method", "task", "orphan", "rds", "param"}
  BY <1>1, <1>4 DEF Strays, TypeOK
<1>7. TypeOK'
  BY <1>1, <1>2, <1>4, <1>5, <1>6 DEF TypeOK, Call, Chips
<1>8. \A t \in Sessions : (Open(t))' <=> Open(t)
  BY <1>4 DEF Open
<1>9. \A d \in Callers :
        /\ (Inside(d))' => Inside(d) /\ call'[d] = call[d]
        /\ (HoldsModule(d))' => HoldsModule(d)
        /\ (AtSearch(d))' => AtSearch(d)
  BY <1>2, <1>3 DEF Inside, InMethod, HoldsModule, AtSearch
<1>10. Programs'
  BY <1>4 DEF IInv, Programs
<1>11. Referred'
  <2>1. ASSUME NEW d \in Callers, call'[d].s # None
        PROVE  obj'[call'[d].s].ref = "held"
    <3>1. d # c /\ call'[d].s = call[d].s
      BY <1>2, <1>3, <2>1
    <3>2. call[d].s \in Sessions
      BY <1>1, <2>1, <3>1, SessionOfCall
    <3> QED
      BY <1>4, <2>1, <3>1, <3>2 DEF IInv, Referred
  <2>2. \A d \in Callers :
          call'[d].pc \in InMethod \cup {"lock", "param", "old"} => call'[d].s \in Sessions
    BY <1>2, <1>3 DEF IInv, Referred, InMethod
  <2> QED
    BY <1>4, <1>9, <2>1, <2>2 DEF IInv, Referred, Open
<1>12. Exclusive'
  BY <1>4, <1>9 DEF IInv, Exclusive
<1>13. Replacing'
  BY <1>2, <1>3, <1>4, <1>8 DEF IInv, Replacing
<1>14. Device'
  BY <1>4, <1>5, <1>6, <1>8 DEF IInv, Device, ClosedDeviceLeftAlone
<1>15. Chip'
  BY <1>1, <1>2, <1>5 DEF IInv, Chip, AtSearch
<1>16. Stopped'
  BY <1>2, <1>3, <1>5, <1>9 DEF IInv, Stopped
<1> QED
  BY <1>7, <1>10, <1>11, <1>12, <1>13, <1>14, <1>15, <1>16 DEF IInv

---------------------------------------------------------------------------
(* The workers. *)

LEMMA WorkerIs ==
  TypeOK => worker \in [Sessions -> [pc : {"idle", "taken", "tuning"},
                          kind : {"tune", "rds", "list", None}, sel : Freqs \cup {None}]]
BY DEF TypeOK

LEMMA TakeTaskStep ==
  ASSUME IInv, NEW s \in Sessions, TakeTask(s)
  PROVE  IInv'
<1>1. TypeOK /\ tasks[s] \in Seq(Task) /\ tasks[s] # <<>>
  BY DEF IInv, TypeOK, TakeTask
<1>2. /\ Head(tasks[s]) \in Task /\ Tail(tasks[s]) \in Seq(Task)
      /\ Head(tasks[s]) = tasks[s][1] /\ 1 \in DOMAIN tasks[s]
      /\ \A k \in DOMAIN Tail(tasks[s]) :
           Tail(tasks[s])[k] = tasks[s][k + 1] /\ k + 1 \in DOMAIN tasks[s]
  BY <1>1
<1>3. /\ worker' = [worker EXCEPT ![s] = [pc |-> "taken", kind |-> Head(tasks[s]).kind,
                                                     sel |-> Head(tasks[s]).sel]]
      /\ tasks' = [tasks EXCEPT ![s] = Tail(tasks[s])]
      /\ UNCHANGED <<obj, rds, call, device, statics, calls, told, stray, late>>
  BY DEF TakeTask
<1>4. worker'[s].pc = "taken" /\ \A t \in Sessions : t # s => worker'[t] = worker[t]
  BY <1>1, <1>3, WorkerIs
<1>5. TypeOK'
  <2>1. worker' \in [Sessions -> [pc : {"idle", "taken", "tuning"},
                       kind : {"tune", "rds", "list", None}, sel : Freqs \cup {None}]]
    BY <1>1, <1>2, <1>3, WorkerIs DEF Task
  <2>2. tasks' \in [Sessions -> Seq(Task)]
    BY <1>1, <1>2, <1>3 DEF TypeOK
  <2> QED
    BY <1>1, <1>3, <2>1, <2>2 DEF TypeOK, device, statics
<1>6. Referred' /\ Replacing' /\ Chip' /\ Stopped'
  BY <1>3, ThreadKeeps DEF device
<1>7. Programs'
  <2>1. tasks'[s] = Tail(tasks[s]) /\ \A t \in Sessions : t # s => tasks'[t] = tasks[t]
    BY <1>1, <1>3 DEF TypeOK
  <2>2. worker'[s].kind = tasks[s][1].kind /\ worker'[s].sel = tasks[s][1].sel
    BY <1>1, <1>2, <1>3, WorkerIs
  <2>3. Programs
    BY DEF IInv
  <2>4. ASSUME NEW t \in Sessions, NEW k \in DOMAIN tasks'[t], tasks'[t][k].kind = "tune"
        PROVE  tasks'[t][k].sel \in Freqs
    <3>1. CASE t = s
      BY <1>2, <2>1, <2>3, <2>4, <3>1, ZenonT(60) DEF Programs
    <3>2. CASE t # s
      BY <2>1, <2>3, <2>4, <3>2 DEF Programs
    <3> QED
      BY <3>1, <3>2
  <2>5. worker'[s].kind = "tune" => worker'[s].sel \in Freqs
    BY <1>2, <2>2, <2>3 DEF Programs
  <2>6. obj' = obj
    BY <1>3
  <2> QED
    BY <1>4, <2>3, <2>4, <2>5, <2>6 DEF Programs
<1>8. Exclusive'
  BY <1>3, <1>4 DEF IInv, Exclusive, Referred, Inside, HoldsModule
<1>9. Device'
  BY <1>3, <1>4 DEF IInv, Device, Open, device, ClosedDeviceLeftAlone
<1> QED
  BY <1>5, <1>6, <1>7, <1>8, <1>9 DEF IInv

\* The worker begins to tune only when no caller is inside a method of its session.
LEMMA TuneTaskStep ==
  ASSUME IInv, NEW s \in Sessions, TuneTask(s)
  PROVE  IInv'
<1>1. TypeOK /\ worker[s].pc = "taken" /\ worker[s].kind = "tune" /\ MutFree(s)
  BY DEF IInv, TuneTask
<1>2. worker[s].sel \in Freqs
  BY <1>1 DEF IInv, Programs
<1>3. UNCHANGED <<tasks, rds, call, device, sprdrds_state, calls, told, stray, late>>
  BY DEF TuneTask
<1>4. /\ obj' \in [Sessions -> Object]
      /\ obj'[s].ref = obj[s].ref /\ obj'[s].mIsClosed = obj[s].mIsClosed
      /\ obj'[s].mCurrentProgram \in Freqs
      /\ \A t \in Sessions : t # s => obj'[t] = obj[t]
  <2> DEFINE o == [obj[s] EXCEPT !.mCurrentProgram = worker[s].sel]
  <2>1. obj \in [Sessions -> Object]
    BY <1>1 DEF TypeOK, Object
  <2>2. o \in Object /\ o.ref = obj[s].ref /\ o.mIsClosed = obj[s].mIsClosed
        /\ o.mCurrentProgram \in Freqs
    BY <1>2, <2>1 DEF Object
  <2>3. obj' = [obj EXCEPT ![s] = o]
    BY <2>1 DEF TuneTask
  <2> HIDE DEF o
  <2> QED
    BY <2>1, <2>2, <2>3
<1>5. /\ worker' \in [Sessions -> [pc : {"idle", "taken", "tuning"},
                       kind : {"tune", "rds", "list", None}, sel : Freqs \cup {None}]]
      /\ worker'[s].pc \in {"idle", "tuning"} /\ worker'[s].sel = worker[s].sel
      /\ worker'[s].pc = "tuning" => ~obj[s].mIsClosed
      /\ \A t \in Sessions : t # s => worker'[t] = worker[t]
      /\ sprdtune_state' \in {0, 1}
  <2>1. CASE TaskRefused(s)
    BY <1>1, <2>1, WorkerIs DEF TuneTask
  <2>2. CASE ~TaskRefused(s)
    <3>1. worker' = [worker EXCEPT ![s].pc = "tuning"] /\ sprdtune_state' = sprdtune_state
      BY <2>2 DEF TuneTask
    <3>2. sprdtune_state \in {0, 1}
      BY <1>1 DEF TypeOK
    <3>3. ~obj[s].mIsClosed
      BY <2>2 DEF TaskRefused
    <3> QED
      BY <1>1, <3>1, <3>2, <3>3, WorkerIs
  <2> QED
    BY <2>1, <2>2
<1>6. TypeOK'
  BY <1>1, <1>3, <1>4, <1>5 DEF TypeOK, device, Object
<1>7. \A t \in Sessions : obj'[t].ref = obj[t].ref /\ obj'[t].mIsClosed = obj[t].mIsClosed
  BY <1>4
<1>8. Referred' /\ Replacing' /\ Chip' /\ Stopped'
  BY <1>3, <1>7, ThreadKeeps DEF device
<1>9. Programs'
  BY <1>2, <1>3, <1>4, <1>5 DEF IInv, Programs
<1>10. Exclusive'
  <2>1. \A d \in Callers : Inside(d) => call[d].s \in Sessions /\ call[d].s # s
    BY <1>1, InsideFacts DEF MutFree, Inside
  <2> QED
    BY <1>3, <1>5, <2>1 DEF IInv, Exclusive, Inside, HoldsModule
<1>11. Device'
  BY <1>3, <1>5, <1>7 DEF IInv, Device, Open, device, ClosedDeviceLeftAlone
<1> QED
  BY <1>6, <1>8, <1>9, <1>10, <1>11 DEF IInv

\* A task of a session that is still held finds it open, and so the index set.
LEMMA tuneInternalLockedStep ==
  ASSUME IInv, NEW s \in Sessions, tuneInternalLocked(s)
  PROVE  IInv'
<1> DEFINE sel == worker[s].sel
<1>1. TypeOK /\ worker[s].pc = "tuning"
  BY DEF IInv, tuneInternalLocked
<1>2. sel \in Freqs
  BY <1>1 DEF IInv, Programs
<1>3. UNCHANGED <<tasks, rds, call, mSession, g_idx, sprdrds_state, sprdtune_state, calls, late>>
  BY DEF tuneInternalLocked, statics
<1>4. /\ obj' \in [Sessions -> Object]
      /\ \A t \in Sessions :
           /\ obj'[t].ref = obj[t].ref /\ obj'[t].mIsClosed = obj[t].mIsClosed
           /\ obj'[t].mCurrentProgram = obj[t].mCurrentProgram
  <2> DEFINE o == [obj[s] EXCEPT !.mCurrentProgramInfo = sel, !.mIsTuneCompleted = TRUE]
  <2>1. obj \in [Sessions -> Object]
    BY <1>1 DEF TypeOK, Object
  <2>2. o \in Object /\ o.ref = obj[s].ref /\ o.mIsClosed = obj[s].mIsClosed
        /\ o.mCurrentProgram = obj[s].mCurrentProgram
    BY <1>2, <2>1 DEF Object
  <2>3. obj' = [obj EXCEPT ![s] = o]
    BY <2>1 DEF tuneInternalLocked
  <2> HIDE DEF o
  <2> QED
    BY <2>1, <2>2, <2>3
<1>5. /\ drv' \in Chips /\ drv'.open = drv.open
      /\ drv'.searching = drv.searching /\ drv'.muted = drv.muted
  BY <1>1, <1>2, RdsSetType DEF tuneInternalLocked, Driver, TypeOK, Chips
<1>6. /\ fmr' \in [cur_freq : Freqs \cup {0}, scan_stop : BOOLEAN]
      /\ fmr'.cur_freq \in Freqs /\ fmr'.scan_stop = fmr.scan_stop
  BY <1>1, <1>2 DEF tuneInternalLocked, TypeOK
<1>7. /\ worker' \in [Sessions -> [pc : {"idle", "taken", "tuning"},
                       kind : {"tune", "rds", "list", None}, sel : Freqs \cup {None}]]
      /\ worker'[s].pc = "idle"
      /\ \A t \in Sessions : t # s => worker'[t] = worker[t]
  BY <1>1, WorkerIs DEF tuneInternalLocked
<1>8. told' \in [Sessions -> Freqs \cup {None}]
  BY <1>1, <1>2 DEF tuneInternalLocked, TypeOK
<1>9. stray' \cap {"method", "task", "rds"} = stray \cap {"method", "task", "rds"}
      /\ stray' \subseteq {"method", "task", "orphan", "rds", "param"}
  <2>1. CASE obj[s].ref = "held"
    <3>1. g_idx = 0
      BY <1>1, <2>1 DEF IInv, Device, Open
    <3> QED
      BY <1>1, <3>1 DEF tuneInternalLocked, Strays, TypeOK
  <2>2. CASE obj[s].ref # "held"
    BY <1>1, <2>2 DEF tuneInternalLocked, Strays, By, TypeOK
  <2> QED
    BY <2>1, <2>2
<1>10. TypeOK'
  BY <1>1, <1>3, <1>4, <1>5, <1>6, <1>7, <1>8, <1>9 DEF TypeOK, Object, Chips
<1>11. Referred' /\ Replacing' /\ Chip' /\ Stopped'
  BY <1>3, <1>4, <1>5, <1>6, ThreadKeeps
<1>12. Programs'
  BY <1>3, <1>4, <1>7 DEF IInv, Programs
<1>13. Exclusive'
  BY <1>3, <1>7 DEF IInv, Exclusive, Referred, Inside, HoldsModule
<1>14. Device'
  BY <1>3, <1>4, <1>5, <1>6, <1>7, <1>9 DEF IInv, Device, Open, ClosedDeviceLeftAlone
<1> QED
  BY <1>10, <1>11, <1>12, <1>13, <1>14 DEF IInv

LEMMA ReportTaskStep ==
  ASSUME IInv, NEW s \in Sessions, ReportTask(s)
  PROVE  IInv'
<1>1. TypeOK
  BY DEF IInv
<1>2. UNCHANGED <<obj, tasks, rds, call, device, statics, calls, stray, late>>
  BY DEF ReportTask
<1>3. /\ worker' \in [Sessions -> [pc : {"idle", "taken", "tuning"},
                       kind : {"tune", "rds", "list", None}, sel : Freqs \cup {None}]]
      /\ worker'[s].pc = "idle"
      /\ \A t \in Sessions : t # s => worker'[t] = worker[t]
  BY <1>1, WorkerIs DEF ReportTask
<1>4. told' \in [Sessions -> Freqs \cup {None}]
  <2>1. worker[s].sel \in Freqs \cup {None} /\ told \in [Sessions -> Freqs \cup {None}]
    BY <1>1 DEF TypeOK
  <2> QED
    BY <2>1 DEF ReportTask
<1>5. TypeOK'
  BY <1>1, <1>2, <1>3, <1>4 DEF TypeOK, device, statics
<1>6. Referred' /\ Replacing' /\ Chip' /\ Stopped'
  BY <1>2, ThreadKeeps DEF device
<1>7. Programs'
  BY <1>2, <1>3 DEF IInv, Programs
<1>8. Exclusive'
  BY <1>2, <1>3 DEF IInv, Exclusive, Referred, Inside, HoldsModule
<1>9. Device'
  BY <1>2, <1>3 DEF IInv, Device, Open, device, ClosedDeviceLeftAlone
<1> QED
  BY <1>5, <1>6, <1>7, <1>8, <1>9 DEF IInv

---------------------------------------------------------------------------
(* The RDS threads, and the end of a session. *)

\* A step of an RDS thread: of the session it writes mCurrentProgramInfo at most.
LEMMA RdsKeeps ==
  ASSUME IInv, TypeOK', Programs',
         \A s \in Sessions : obj'[s].ref = obj[s].ref /\ obj'[s].mIsClosed = obj[s].mIsClosed,
         UNCHANGED <<worker, call, device, late>>,
         stray' \cap {"method", "task", "rds"} = stray \cap {"method", "task", "rds"}
  PROVE  IInv'
<1>1. Referred' /\ Replacing' /\ Chip' /\ Stopped'
  BY ThreadKeeps DEF device
<1>2. Exclusive'
  BY DEF IInv, Exclusive, Inside, HoldsModule
<1>3. Device'
  BY DEF IInv, Device, Open, device, ClosedDeviceLeftAlone
<1> QED
  BY <1>1, <1>2, <1>3 DEF IInv

LEMMA RdsIs ==
  TypeOK => rds \in [Sessions -> [pc : {"none", "loop", "compare", "sleep", "wait", "ended"},
                                  newInfo : Freqs \cup {None}]]
BY DEF TypeOK

\* The thread reads the chip only for an open session, or for one that was let go.
LEMMA RdsReadStep ==
  ASSUME IInv, NEW s \in Sessions, RdsRead(s)
  PROVE  IInv'
<1>1. TypeOK /\ Programs /\ obj[s].mCurrentProgram \in Freqs \cup {None}
  BY DEF IInv, TypeOK
<1>2. UNCHANGED <<obj, tasks, worker, call, device, statics, calls, told, late>>
  BY DEF RdsRead
<1>3. rds' \in [Sessions -> [pc : {"none", "loop", "compare", "sleep", "wait", "ended"},
                             newInfo : Freqs \cup {None}]]
  BY <1>1, RdsIs DEF RdsRead
<1>4. stray' \cap {"method", "task", "rds"} = stray \cap {"method", "task", "rds"}
      /\ stray' \subseteq {"method", "task", "orphan", "rds", "param"}
  <2>1. CASE stray' = stray
    BY <1>1, <2>1 DEF TypeOK
  <2>2. CASE ~obj[s].mIsClosed /\ stray' = Strays(By(s, "rds"))
    <3>1. CASE obj[s].ref = "held"
      <4>1. g_idx = 0
        BY <2>2, <3>1 DEF IInv, Device, Open
      <4> QED
        BY <1>1, <2>2, <4>1 DEF Strays, TypeOK
    <3>2. CASE obj[s].ref # "held"
      BY <1>1, <2>2, <3>2 DEF Strays, By, TypeOK
    <3> QED
      BY <3>1, <3>2
  <2> QED
    BY <2>1, <2>2 DEF RdsRead
<1>5. TypeOK'
  BY <1>1, <1>2, <1>3, <1>4 DEF TypeOK, device, statics
<1>6. Programs'
  BY <1>1, <1>2 DEF Programs
<1> QED
  BY <1>2, <1>4, <1>5, <1>6, RdsKeeps

LEMMA RdsCompareStep ==
  ASSUME IInv, NEW s \in Sessions, RdsCompare(s)
  PROVE  IInv'
<1>1. TypeOK /\ Programs /\ rds[s].newInfo \in Freqs \cup {None}
  BY DEF IInv, TypeOK
<1>2. UNCHANGED <<worker, call, device, statics, calls, told, stray, late>>
  BY DEF RdsCompare
<1>3. rds' \in [Sessions -> [pc : {"none", "loop", "compare", "sleep", "wait", "ended"},
                             newInfo : Freqs \cup {None}]]
  BY <1>1, RdsIs DEF RdsCompare
<1>4. /\ obj' \in [Sessions -> Object]
      /\ \A t \in Sessions :
           /\ obj'[t].ref = obj[t].ref /\ obj'[t].mIsClosed = obj[t].mIsClosed
           /\ obj'[t].mCurrentProgram = obj[t].mCurrentProgram
      /\ tasks' \in [Sessions -> Seq(Task)]
      /\ Programs'
  <2>1. CASE UNCHANGED <<obj, tasks>>
    BY <1>1, <1>2, <2>1 DEF TypeOK, Object, Programs
  <2>2. CASE /\ obj' = [obj EXCEPT ![s].mCurrentProgramInfo = rds[s].newInfo]
             /\ Schedule(s, "rds", rds[s].newInfo)
    <3> DEFINE o == [obj[s] EXCEPT !.mCurrentProgramInfo = rds[s].newInfo]
    <3>1. obj \in [Sessions -> Object]
      BY <1>1 DEF TypeOK, Object
    <3>2. o \in Object /\ o.ref = obj[s].ref /\ o.mIsClosed = obj[s].mIsClosed
          /\ o.mCurrentProgram = obj[s].mCurrentProgram
      BY <1>1, <3>1 DEF Object
    <3>3. obj' = [obj EXCEPT ![s] = o]
      BY <2>2, <3>1
    <3> HIDE DEF o
    <3>4. /\ obj' \in [Sessions -> Object]
          /\ \A t \in Sessions :
               /\ obj'[t].ref = obj[t].ref /\ obj'[t].mIsClosed = obj[t].mIsClosed
               /\ obj'[t].mCurrentProgram = obj[t].mCurrentProgram
      BY <3>1, <3>2, <3>3
    <3>5. tasks' \in [Sessions -> Seq(Task)]
      BY <1>1, <2>2, ScheduleType
    <3>6. worker' = worker
      BY <1>2
    <3>7. Programs'
      BY <1>1, <2>2, <3>4, <3>6, ScheduleKeeps
    <3> QED
      BY <3>4, <3>5, <3>7
  <2> QED
    BY <2>1, <2>2 DEF RdsCompare
<1>5. TypeOK'
  BY <1>1, <1>2, <1>3, <1>4 DEF TypeOK, device, statics, Object
<1> QED
  BY <1>2, <1>4, <1>5, RdsKeeps

LEMMA RdsWakeOrEndStep ==
  ASSUME IInv, NEW s \in Sessions, RdsWake(s) \/ RdsEnd(s)
  PROVE  IInv'
<1>1. TypeOK /\ Programs
  BY DEF IInv
<1>2. UNCHANGED <<obj, tasks, worker, call, device, statics, calls, told, stray, late>>
  BY DEF RdsWake, RdsEnd
<1>3. rds' \in [Sessions -> [pc : {"none", "loop", "compare", "sleep", "wait", "ended"},
                             newInfo : Freqs \cup {None}]]
  BY <1>1, RdsIs DEF RdsWake, RdsEnd
<1>4. TypeOK'
  BY <1>1, <1>2, <1>3 DEF TypeOK, device, statics
<1>5. Programs'
  BY <1>1, <1>2 DEF Programs
<1> QED
  BY <1>2, <1>4, <1>5, RdsKeeps

\* A session leaves, or is taken apart, while no caller refers to it.
LEMMA EndKeeps ==
  ASSUME IInv, TypeOK', NEW s \in Sessions, \A c \in Callers : call[c].s # s,
         obj'[s].ref # "held",
         obj'[s].mIsClosed = obj[s].mIsClosed \/ obj'[s].mIsClosed,
         obj'[s].mCurrentProgram = obj[s].mCurrentProgram,
         \A t \in Sessions : t # s => obj'[t] = obj[t],
         \A t \in Sessions : tasks'[t] = tasks[t] \/ tasks'[t] = <<>>,
         UNCHANGED <<worker, call, device, stray, late>>
  PROVE  IInv'
<1>1. \A t \in Sessions : (Open(t))' => t # s /\ Open(t)
  BY DEF Open
<1>2. Programs'
  BY DEF IInv, Programs
<1>3. Referred'
  <2>1. ASSUME NEW c \in Callers, call[c].s # None
        PROVE  obj'[call[c].s].ref = "held"
    <3>1. call[c].s \in Sessions
      BY <2>1, SessionOfCall DEF IInv
    <3> QED
      BY <2>1, <3>1 DEF IInv, Referred
  <2>2. ASSUME NEW c \in Callers, Inside(c)
        PROVE  call[c].s \in Sessions /\ (Open(call[c].s))'
    <3>1. call[c].s \in Sessions /\ Open(call[c].s)
      BY <2>2 DEF IInv, Referred, Inside
    <3> QED
      BY <3>1 DEF Open
  <2> QED
    BY <2>1, <2>2 DEF IInv, Referred, Inside, Open
<1>4. Exclusive'
  BY DEF IInv, Exclusive, Inside, HoldsModule
<1>5. Replacing'
  BY <1>1 DEF IInv, Replacing, device
<1>6. Device'
  BY <1>1 DEF IInv, Device, device, ClosedDeviceLeftAlone
<1>7. Chip' /\ Stopped'
  BY DEF IInv, Chip, Stopped, AtSearch, device
<1> QED
  BY <1>2, <1>3, <1>4, <1>5, <1>6, <1>7 DEF IInv

LEMMA EndStep ==
  ASSUME IInv, NEW s \in Sessions, LetGo(s) \/ Destructor(s)
  PROVE  IInv'
<1>1. TypeOK /\ obj \in [Sessions -> Object]
  BY DEF IInv, TypeOK, Object
<1>2. \A c \in Callers : call[c].s # s
  <2>1. CASE LetGo(s)
    BY <2>1 DEF LetGo
  <2>2. CASE Destructor(s)
    <3>1. obj[s].ref # "held"
      BY <2>2 DEF Destructor, DestructorStart, DestructorEnd
    <3> QED
      BY <3>1, TunerAssumption DEF IInv, Referred
  <2> QED
    BY <2>1, <2>2
<1>3. UNCHANGED <<worker, rds, call, device, statics, calls, told, stray, late>>
  BY DEF LetGo, Destructor, DestructorStart, DestructorEnd
<1>4. /\ obj' \in [Sessions -> Object]
      /\ obj'[s].ref # "held"
      /\ obj'[s].mIsClosed = obj[s].mIsClosed \/ obj'[s].mIsClosed
      /\ obj'[s].mCurrentProgram = obj[s].mCurrentProgram
      /\ \A t \in Sessions : t # s => obj'[t] = obj[t]
  <2> DEFINE o1 == [obj[s] EXCEPT !.ref = "dying"]
             o2 == [obj[s] EXCEPT !.ref = "joining", !.mIsClosed = TRUE, !.mIsTerminating = TRUE]
             o3 == [obj[s] EXCEPT !.ref = "gone"]
             Leaves(o) == /\ o \in Object /\ o.ref # "held"
                          /\ o.mIsClosed = obj[s].mIsClosed \/ o.mIsClosed
                          /\ o.mCurrentProgram = obj[s].mCurrentProgram
  <2>1. \A o \in {o1, o2, o3} : Leaves(o)
    <3>1. Leaves(o1)
      BY <1>1 DEF Object
    <3>2. Leaves(o2)
      BY <1>1 DEF Object
    <3>3. Leaves(o3)
      BY <1>1 DEF Object
    <3> QED
      BY <3>1, <3>2, <3>3
  <2>2. \E o \in {o1, o2, o3} : obj' = [obj EXCEPT ![s] = o]
    BY <1>1 DEF LetGo, Destructor, DestructorStart, DestructorEnd
  <2> HIDE DEF o1, o2, o3
  <2> QED
    BY <1>1, <2>1, <2>2
<1>5. /\ tasks' \in [Sessions -> Seq(Task)]
      /\ \A t \in Sessions : tasks'[t] = tasks[t] \/ tasks'[t] = <<>>
  <2>1. tasks \in [Sessions -> Seq(Task)] /\ <<>> \in Seq(Task)
    BY <1>1 DEF TypeOK
  <2>2. tasks' = tasks \/ tasks' = [tasks EXCEPT ![s] = <<>>]
    BY DEF LetGo, Destructor, DestructorStart, DestructorEnd
  <2> QED
    BY <2>1, <2>2
<1>6. TypeOK'
  BY <1>1, <1>3, <1>4, <1>5 DEF TypeOK, device, statics, Object
<1> QED
  BY <1>2, <1>3, <1>4, <1>5, <1>6, EndKeeps

LEMMA UnchangedStep ==
  ASSUME IInv, UNCHANGED vars
  PROVE  IInv'
<1>1. TypeOK' /\ Programs'
  BY DEF IInv, vars, device, statics, TypeOK, Programs
<1> QED
  BY <1>1, RdsKeeps DEF vars, device

---------------------------------------------------------------------------
(* Sessions not opened yet. *)

\* A task is scheduled only for a session that is held, or whose RDS thread runs.
\* What a caller schedules or cancels is of a session that is held.
LEMMA CallerFresh ==
  ASSUME IInv, Fresh, NEW c \in Callers, Enter(c) \/ CallStep(c), ~NewSession(c)
  PROVE  Fresh'
<1>1. TypeOK
  BY SMTT(30) DEF IInv
<1>2. UNCHANGED <<worker, rds>>
  BY DEF Enter, CallStep, tune, step, ScanMute, SeekStart, HardwareSeek, scan, ListStart,
         FMR_Pre_Search, StopCheck, SearchSeek, FMR_Restore_Search, startProgramListUpdates,
         close, setParameters
<1>3. \A s \in Sessions : obj'[s].ref = obj[s].ref
  <2>1. \/ obj' = obj
        \/ \E b \in BOOLEAN : obj' = [obj EXCEPT ![call[c].s].mIsTuneCompleted = b]
        \/ obj' = [obj EXCEPT ![call[c].s].mIsClosed = TRUE]
    BY Zenon DEF Enter, CancelLocked, CallStep, tune, step, ScanMute, SeekStart, HardwareSeek, scan,
           ListStart, FMR_Pre_Search, StopCheck, SearchSeek, FMR_Restore_Search,
           startProgramListUpdates, close, setParameters
  <2>2. obj \in [Sessions -> Object]
    BY <1>1 DEF TypeOK, Object
  <2>3. ASSUME NEW b, obj' = [obj EXCEPT ![call[c].s].mIsTuneCompleted = b]
        PROVE  <1>3
    BY <2>2, <2>3 DEF Object
  <2>4. CASE obj' = [obj EXCEPT ![call[c].s].mIsClosed = TRUE]
    BY <2>2, <2>4 DEF Object
  <2> QED
    BY <2>1, <2>3, <2>4, Zenon
<1>4. \A s \in Sessions : s # call[c].s => tasks'[s] = tasks[s]
  <2>1. tasks' = tasks \/ \E q : tasks' = [tasks EXCEPT ![call[c].s] = q]
    BY Zenon DEF Enter, CancelLocked, CallStep, tune, step, ScanMute, SeekStart, HardwareSeek, scan,
           ListStart, FMR_Pre_Search, StopCheck, SearchSeek, FMR_Restore_Search,
           startProgramListUpdates, close, setParameters, Schedule
  <2>2. tasks \in [Sessions -> Seq(Task)]
    BY <1>1 DEF TypeOK
  <2>3. ASSUME NEW q, tasks' = [tasks EXCEPT ![call[c].s] = q]
        PROVE  <1>4
    BY <2>2, <2>3
  <2> QED
    BY <2>1, <2>3, SMTT(30)
<1>5. \A s \in Sessions : s = call[c].s => obj[s].ref = "held"
  BY TunerAssumption DEF IInv, Referred
<1> QED
  BY <1>2, <1>3, <1>4, <1>5, FreshKeeps

LEMMA FreshStep ==
  ASSUME IInv, Fresh, [Next]_vars
  PROVE  Fresh'
<1>1. TypeOK
  BY DEF IInv
<1>2. ASSUME NEW c \in Callers, Begin(c) \/ openSession(c) \/ CloseOld(c)
      PROVE  Fresh'
  BY <1>2 DEF Begin, openSession, CloseOld, Fresh
<1>3. ASSUME NEW c \in Callers, NewSession(c)
      PROVE  Fresh'
  BY <1>3, NewSessionStep
<1>4. ASSUME NEW c \in Callers, Enter(c) \/ CallStep(c), ~NewSession(c)
      PROVE  Fresh'
  BY <1>4, CallerFresh
<1>5. ASSUME NEW s \in Sessions, WorkerStep(s)
      PROVE  Fresh'
  <2>1. obj[s].ref # "unborn"
    BY <1>5 DEF Fresh, WorkerStep, TakeTask, TuneTask, tuneInternalLocked, ReportTask
  <2>2. \A t \in Sessions : t # s => worker'[t] = worker[t] /\ tasks'[t] = tasks[t]
    BY <1>1, <1>5 DEF WorkerStep, TakeTask, TuneTask, tuneInternalLocked, ReportTask, TypeOK
  <2>3. \A t \in Sessions : obj'[t].ref = obj[t].ref
    <3>1. \/ obj' = obj
          \/ \E p : obj' = [obj EXCEPT ![s].mCurrentProgram = p]
          \/ \E p : obj' = [obj EXCEPT ![s].mCurrentProgramInfo = p, ![s].mIsTuneCompleted = TRUE]
      BY <1>5 DEF WorkerStep, TakeTask, TuneTask, tuneInternalLocked, ReportTask
    <3>2. obj \in [Sessions -> Object]
      BY <1>1 DEF TypeOK, Object
    <3>3. ASSUME NEW p, obj' = [obj EXCEPT ![s].mCurrentProgram = p]
          PROVE  <2>3
      BY <3>2, <3>3 DEF Object
    <3>4. ASSUME NEW p,
                 obj' = [obj EXCEPT ![s].mCurrentProgramInfo = p, ![s].mIsTuneCompleted = TRUE]
          PROVE  <2>3
      BY <3>2, <3>4 DEF Object
    <3> QED
      BY <3>1, <3>3, <3>4
  <2>4. rds' = rds
    BY <1>5 DEF WorkerStep, TakeTask, TuneTask, tuneInternalLocked, ReportTask
  <2> QED
    BY <2>1, <2>2, <2>3, <2>4, FreshKeeps
<1>6. ASSUME NEW s \in Sessions, RdsStep(s)
      PROVE  Fresh'
  <2>1. obj[s].ref # "unborn"
    BY <1>6 DEF Fresh, RdsStep, RdsRead, RdsCompare, RdsWake, RdsEnd
  <2>2. \A t \in Sessions : t # s => rds'[t] = rds[t] /\ tasks'[t] = tasks[t]
    BY <1>1, <1>6 DEF RdsStep, RdsRead, RdsCompare, RdsWake, RdsEnd, Schedule, TypeOK
  <2>3. \A t \in Sessions : obj'[t].ref = obj[t].ref
    <3>1. obj' = obj \/ \E p : obj' = [obj EXCEPT ![s].mCurrentProgramInfo = p]
      BY <1>6 DEF RdsStep, RdsRead, RdsCompare, RdsWake, RdsEnd
    <3>2. obj \in [Sessions -> Object]
      BY <1>1 DEF TypeOK, Object
    <3> QED
      BY <3>1, <3>2 DEF Object
  <2>4. worker' = worker
    BY <1>6 DEF RdsStep, RdsRead, RdsCompare, RdsWake, RdsEnd
  <2> QED
    BY <2>1, <2>2, <2>3, <2>4, FreshKeeps
<1>7. ASSUME NEW s \in Sessions, LetGo(s) \/ Destructor(s)
      PROVE  Fresh'
  <2>1. obj'[s].ref # "unborn" /\ \A t \in Sessions : t # s => obj'[t] = obj[t] /\ tasks'[t] = tasks[t]
    BY <1>1, <1>7 DEF LetGo, Destructor, DestructorStart, DestructorEnd, TypeOK
  <2>2. UNCHANGED <<worker, rds>>
    BY <1>7 DEF LetGo, Destructor, DestructorStart, DestructorEnd
  <2> QED
    BY <2>1, <2>2, FreshKeeps
<1>8. CASE UNCHANGED vars
  BY <1>8 DEF vars, Fresh
<1> QED
  BY <1>2, <1>3, <1>4, <1>5, <1>6, <1>7, <1>8 DEF Next, Quiet, CallerStep, CallStep

---------------------------------------------------------------------------
(* The invariant, and what it says. *)

LEMMA InvInit == Init => IInv /\ Fresh
<1> SUFFICES ASSUME Init PROVE IInv /\ Fresh
  OBVIOUS
<1>1. Home \in Freqs /\ None \notin Sessions
  BY TunerAssumption
<1>2. call = [c \in Callers |-> Idle] /\ call \in [Callers -> Call]
  BY IdleType DEF Init
<1>3. TypeOK
  <2>1. <<>> \in Seq(Task)
    OBVIOUS
  <2> QED
    BY <1>1, <1>2, <2>1, TunerAssumption DEF Init, TypeOK, Call
<1>4. \A c \in Callers : call[c].pc = "idle" /\ call[c].s = None
  BY <1>2 DEF Idle
<1>5. \A s \in Sessions : /\ obj[s].ref = "unborn" /\ obj[s].mIsClosed /\ tasks[s] = <<>>
                          /\ worker[s].pc = "idle" /\ rds[s].pc = "none"
  BY DEF Init
<1>6. Programs /\ Fresh
  BY <1>5 DEF Programs, Fresh
<1>7. Referred /\ Exclusive /\ Replacing
  BY <1>4, <1>5 DEF Referred, Exclusive, Replacing, Inside, InMethod, HoldsModule
<1>8. Device /\ Chip /\ Stopped
  BY <1>4, <1>5 DEF Init, Device, Chip, Stopped, Open, ClosedDeviceLeftAlone
<1> QED
  BY <1>3, <1>6, <1>7, <1>8 DEF IInv

LEMMA InvNext == IInv /\ Fresh /\ [Next]_vars => IInv' /\ Fresh'
<1> SUFFICES ASSUME IInv, Fresh, [Next]_vars PROVE IInv' /\ Fresh'
  OBVIOUS
<1>1. Fresh'
  BY FreshStep
<1>2. ASSUME NEW c \in Callers, Begin(c) \/ CallerStep(c)
      PROVE  IInv'
  BY <1>2, BeginStep, EnterStep, openSessionStep, CloseOldStep, tuneStep, stepStep, ScanMuteStep,
     SeekStartStep, HardwareSeekStep, scanStep, ListStartStep, FMR_Pre_SearchStep, StopCheckStep,
     SearchSeekStep, FMR_Restore_SearchStep, startProgramListUpdatesStep, closeStep,
     NewSessionStep, setParametersStep
     DEF CallerStep, CallStep
<1>3. ASSUME NEW s \in Sessions, WorkerStep(s)
      PROVE  IInv'
  BY <1>3, TakeTaskStep, TuneTaskStep, tuneInternalLockedStep, ReportTaskStep DEF WorkerStep
<1>4. ASSUME NEW s \in Sessions, RdsStep(s)
      PROVE  IInv'
  BY <1>4, RdsReadStep, RdsCompareStep, RdsWakeOrEndStep DEF RdsStep
<1>5. ASSUME NEW s \in Sessions, LetGo(s) \/ Destructor(s)
      PROVE  IInv'
  BY <1>5, EndStep
<1>6. ASSUME UNCHANGED vars
      PROVE  IInv'
  BY <1>6, UnchangedStep
<1> QED
  BY <1>1, <1>2, <1>3, <1>4, <1>5, <1>6 DEF Next, Quiet

LEMMA InvHolds == Spec => [](IInv /\ Fresh)
<1>1. Init => IInv /\ Fresh
  BY InvInit
<1>2. (IInv /\ Fresh) /\ [Next]_vars => (IInv /\ Fresh)'
  BY InvNext
<1> QED
  BY <1>1, <1>2, PTL DEF Spec

\* Every variable stays in its domain; what is tuned is always a program of the band.
THEOREM TypeCorrect == Spec => []TypeOK
<1>1. IInv /\ Fresh => TypeOK
  BY DEF IInv
<1> QED
  BY <1>1, InvHolds, PTL

\* Once close() has given the device index back, no method, no task and no RDS thread of
\* a session somebody still holds calls the driver: each finds its session closed first.
THEOREM DeviceLeftAlone == Spec => []ClosedDeviceLeftAlone
<1>1. IInv /\ Fresh => ClosedDeviceLeftAlone
  BY DEF IInv, Device
<1> QED
  BY <1>1, InvHolds, PTL

---------------------------------------------------------------------------
(* Who has the device, when opening it may fail. *)

\* Some session could not open the device: its constructor tuned nothing.
OpenFailed == \E s \in Sessions : obj[s].ref # "unborn" /\ obj[s].mCurrentProgram = None

\* A session that tuned nothing is closed, and nothing runs for it.
Unopened ==
  \A s \in Sessions : obj[s].mCurrentProgram = None =>
    obj[s].mIsClosed /\ tasks[s] = <<>> /\ worker[s].pc = "idle" /\ rds[s].pc = "none"

\* The device index is set without an open device only after a failure.
IndexOfDevice == g_idx = 0 => drv.open \/ OpenFailed

\* One session changes, and has a program before and after: the others, among them those
\* that could not open the device, stay as they are.
LEMMA OthersUnopened ==
  ASSUME Unopened, NEW s \in Sessions, obj'[s].mCurrentProgram # None,
         obj[s].mCurrentProgram # None,
         \A t \in Sessions : t # s =>
           /\ obj'[t] = obj[t] /\ tasks'[t] = tasks[t]
           /\ worker'[t] = worker[t] /\ rds'[t] = rds[t]
  PROVE  Unopened' /\ (OpenFailed => OpenFailed')
BY DEF Unopened, OpenFailed

\* What a caller does in a session is done in an open one.
LEMMA CallerUnopened ==
  ASSUME IInv, Unopened, NEW c \in Callers, Enter(c) \/ CallStep(c), ~NewSession(c)
  PROVE  Unopened' /\ (OpenFailed => OpenFailed')
<1> DEFINE s == call[c].s
<1>1. UNCHANGED <<worker, rds>>
  BY DEF Enter, CallStep, tune, step, ScanMute, SeekStart, HardwareSeek, scan, ListStart,
         FMR_Pre_Search, StopCheck, SearchSeek, FMR_Restore_Search, startProgramListUpdates,
         close, setParameters
<1>2. CASE UNCHANGED <<obj, tasks>>
  BY <1>1, <1>2 DEF Unopened, OpenFailed
<1>3. CASE ~UNCHANGED <<obj, tasks>>
  <2>1. s \in Sessions /\ ~obj[s].mIsClosed
    <3>1. CASE Enter(c)
      BY <1>3, <3>1, TunerAssumption DEF Enter, Refused, IInv, Referred
    <3>2. CASE CallStep(c)
      <4>1. Inside(c)
        BY <1>3, <3>2 DEF CallStep, tune, step, ScanMute, SeekStart, HardwareSeek, scan, ListStart,
           FMR_Pre_Search, StopCheck, SearchSeek, FMR_Restore_Search, startProgramListUpdates,
           close, setParameters, Inside, InMethod
      <4> QED
        BY <4>1, InsideFacts
    <3> QED
      BY <3>1, <3>2
  <2>2. obj[s].mCurrentProgram # None
    BY <2>1 DEF Unopened
  <2>3. obj \in [Sessions -> Object] /\ tasks \in [Sessions -> Seq(Task)]
    BY DEF IInv, TypeOK, Object
  <2>4. obj'[s].mCurrentProgram # None /\ \A t \in Sessions : t # s => obj'[t] = obj[t]
    <3>1. \/ obj' = obj
          \/ \E b \in BOOLEAN : obj' = [obj EXCEPT ![s].mIsTuneCompleted = b]
          \/ obj' = [obj EXCEPT ![s].mIsClosed = TRUE]
      BY Zenon DEF Enter, CancelLocked, CallStep, tune, step, ScanMute, SeekStart, HardwareSeek,
           scan, ListStart, FMR_Pre_Search, StopCheck, SearchSeek, FMR_Restore_Search,
           startProgramListUpdates, close, setParameters
    <3>2. ASSUME NEW b, obj' = [obj EXCEPT ![s].mIsTuneCompleted = b]
          PROVE  <2>4
      BY <2>1, <2>2, <2>3, <3>2 DEF Object
    <3>3. CASE obj' = [obj EXCEPT ![s].mIsClosed = TRUE]
      BY <2>1, <2>2, <2>3, <3>3 DEF Object
    <3>4. CASE obj' = obj
      BY <2>2, <3>4
    <3> QED
      BY <3>1, <3>2, <3>3, <3>4, Zenon
  <2>5. \A t \in Sessions : t # s => tasks'[t] = tasks[t]
    <3>1. tasks' = tasks \/ \E q : tasks' = [tasks EXCEPT ![s] = q]
      BY Zenon DEF Enter, CancelLocked, CallStep, tune, step, ScanMute, SeekStart, HardwareSeek,
           scan, ListStart, FMR_Pre_Search, StopCheck, SearchSeek, FMR_Restore_Search,
           startProgramListUpdates, close, setParameters, Schedule
    <3>2. ASSUME NEW q, tasks' = [tasks EXCEPT ![s] = q]
          PROVE  <2>5
      BY <2>3, <3>2
    <3> QED
      BY <3>1, <3>2, SMTT(30)
  <2> QED
    BY <1>1, <2>1, <2>2, <2>4, <2>5, OthersUnopened
<1> QED
  BY <1>2, <1>3

\* The threads of a session that tuned nothing do not run.
LEMMA ThreadUnopened ==
  ASSUME IInv, Unopened, NEW s \in Sessions, WorkerStep(s) \/ RdsStep(s)
  PROVE  Unopened' /\ (OpenFailed => OpenFailed')
<1>1. obj \in [Sessions -> Object] /\ TypeOK
  BY DEF IInv, TypeOK, Object
<1>2. obj[s].mCurrentProgram # None
  BY DEF Unopened, WorkerStep, TakeTask, TuneTask, tuneInternalLocked, ReportTask,
         RdsStep, RdsRead, RdsCompare, RdsWake, RdsEnd
<1>3. \A t \in Sessions : t # s =>
        tasks'[t] = tasks[t] /\ worker'[t] = worker[t] /\ rds'[t] = rds[t]
  BY <1>1 DEF WorkerStep, TakeTask, TuneTask, tuneInternalLocked, ReportTask,
              RdsStep, RdsRead, RdsCompare, RdsWake, RdsEnd, Schedule, TypeOK
<1>4. obj'[s].mCurrentProgram # None /\ \A t \in Sessions : t # s => obj'[t] = obj[t]
  <2>1. CASE TuneTask(s)
    <3>1. worker[s].sel # None
      BY <2>1, TunerAssumption DEF IInv, Programs, TuneTask
    <3>2. obj' = [obj EXCEPT ![s].mCurrentProgram = worker[s].sel]
      BY <2>1 DEF TuneTask
    <3> QED
      BY <1>1, <3>1, <3>2 DEF Object
  <2>2. CASE ~TuneTask(s)
    <3>1. \/ obj' = obj
          \/ \E p : obj' = [obj EXCEPT ![s].mCurrentProgramInfo = p]
          \/ \E p : obj' = [obj EXCEPT ![s].mCurrentProgramInfo = p, ![s].mIsTuneCompleted = TRUE]
      BY <2>2 DEF WorkerStep, TakeTask, tuneInternalLocked, ReportTask,
                  RdsStep, RdsRead, RdsCompare, RdsWake, RdsEnd
    <3>2. ASSUME NEW p, obj' = [obj EXCEPT ![s].mCurrentProgramInfo = p]
          PROVE  <1>4
      BY <1>1, <1>2, <3>2 DEF Object
    <3>3. ASSUME NEW p,
                 obj' = [obj EXCEPT ![s].mCurrentProgramInfo = p, ![s].mIsTuneCompleted = TRUE]
          PROVE  <1>4
      BY <1>1, <1>2, <3>3 DEF Object
    <3> QED
      BY <1>2, <3>1, <3>2, <3>3
  <2> QED
    BY <2>1, <2>2
<1> QED
  BY <1>2, <1>3, <1>4, OthersUnopened

\* A client lets go of its session; it is destroyed.
LEMMA EndUnopened ==
  ASSUME IInv, Unopened, NEW s \in Sessions, LetGo(s) \/ Destructor(s)
  PROVE  Unopened' /\ (OpenFailed => OpenFailed')
<1>1. obj \in [Sessions -> Object] /\ TypeOK
  BY DEF IInv, TypeOK, Object
<1>2. UNCHANGED <<worker, rds>>
  BY DEF LetGo, Destructor, DestructorStart, DestructorEnd
<1>3. \A t \in Sessions : tasks'[t] = tasks[t] \/ tasks'[t] = <<>>
  BY <1>1 DEF LetGo, Destructor, DestructorStart, DestructorEnd, TypeOK
<1>4. \A t \in Sessions :
        /\ obj'[t].mCurrentProgram = obj[t].mCurrentProgram
        /\ obj[t].mIsClosed => obj'[t].mIsClosed
        /\ obj[t].ref # "unborn" => obj'[t].ref # "unborn"
  BY <1>1 DEF LetGo, Destructor, DestructorStart, DestructorEnd, Object
<1> QED
  BY <1>2, <1>3, <1>4 DEF Unopened, OpenFailed

\* A new session has a program, or could not open the device.
LEMMA NewUnopened ==
  ASSUME IInv, Fresh, Unopened, IndexOfDevice, NEW c \in Callers, NewSession(c)
  PROVE  Unopened' /\ IndexOfDevice'
<1>1. TypeOK /\ UNCHANGED <<tasks, worker>> /\ Home # None
  BY TunerAssumption DEF IInv, NewSession
<1>2. PICK s \in Sessions, opens \in BOOLEAN, supported \in BOOLEAN :
       LET result == IndexSet \/ opens
           fd     == IF IndexSet THEN drv.open ELSE opens
       IN
       /\ obj[s].ref = "unborn"
       /\ IF IndexSet THEN opens ELSE opens \/ OpenMayFail
       /\ supported => result /\ fd
       /\ g_idx' = 0
       /\ mSession' = s
       /\ drv' = IF result /\ fd
                   THEN [drv EXCEPT !.open = TRUE, !.freq = Home,
                                    !.rds = IF supported THEN TRUE ELSE @]
                   ELSE [drv EXCEPT !.open = fd]
       /\ fmr' = [cur_freq |-> IF result THEN Home ELSE 0,
                  scan_stop |-> IF IndexSet THEN fmr.scan_stop ELSE FALSE]
       /\ obj' = [obj EXCEPT ![s].ref = "held", ![s].mIsClosed = ~result,
                    ![s].mIsRdsSupported = supported, ![s].mIsTuneCompleted = result,
                    ![s].mCurrentProgram = IF result THEN Home ELSE None,
                    ![s].mCurrentProgramInfo = IF result THEN Home ELSE None]
       /\ told' = [told EXCEPT ![s] = IF result THEN Home ELSE None]
       /\ rds' = [rds EXCEPT ![s].pc = IF supported THEN "loop" ELSE "none"]
  BY DEF NewSession
<1> DEFINE result == IndexSet \/ opens
           fd     == IF IndexSet THEN drv.open ELSE opens
<1>3. drv'.open = fd
  BY <1>1, <1>2 DEF TypeOK
<1>4. /\ obj'[s].ref = "held" /\ obj'[s].mIsClosed = ~result
      /\ obj'[s].mCurrentProgram = IF result THEN Home ELSE None
      /\ \A t \in Sessions : t # s => obj'[t] = obj[t]
  <2> DEFINE o == [obj[s] EXCEPT !.ref = "held", !.mIsClosed = ~result,
                    !.mIsRdsSupported = supported, !.mIsTuneCompleted = result,
                    !.mCurrentProgram = IF result THEN Home ELSE None,
                    !.mCurrentProgramInfo = IF result THEN Home ELSE None]
  <2>1. obj \in [Sessions -> Object]
    BY <1>1 DEF TypeOK, Object
  <2> HIDE DEF result
  <2>2. /\ o.ref = "held" /\ o.mIsClosed = ~result
        /\ o.mCurrentProgram = IF result THEN Home ELSE None
    BY <2>1 DEF Object
  <2>3. obj' = [obj EXCEPT ![s] = o]
    BY <1>2, <2>1 DEF result
  <2> HIDE DEF o
  <2> QED
    BY <2>1, <2>2, <2>3
<1>5. ~result => ~supported
  BY <1>2
<1>6. rds'[s].pc = (IF supported THEN "loop" ELSE "none")
      /\ \A t \in Sessions : t # s => rds'[t] = rds[t]
  BY <1>1, <1>2 DEF TypeOK
<1>7. tasks[s] = <<>> /\ worker[s].pc = "idle"
  BY <1>2 DEF Fresh
<1>8. Unopened'
  BY <1>1, <1>4, <1>5, <1>6, <1>7 DEF Unopened
<1>9. ~result => OpenFailed'
  BY <1>4 DEF OpenFailed
<1>10. OpenFailed => OpenFailed'
  BY <1>2, <1>4 DEF OpenFailed
<1>11. result => drv'.open \/ OpenFailed
  BY <1>1, <1>3 DEF IndexOfDevice, IndexSet, TypeOK
<1> QED
  BY <1>8, <1>9, <1>10, <1>11 DEF IndexOfDevice

\* Only openSession and close change the index, or open and close the device.
LEMMA DeviceKept ==
  ASSUME IInv, [Next]_vars, IndexOfDevice, OpenFailed => OpenFailed',
         \A c \in Callers : ~NewSession(c)
  PROVE  IndexOfDevice'
<1>1. drv \in Chips
  BY DEF IInv, TypeOK, Chips
<1>2. CASE UNCHANGED <<g_idx, drv>>
  BY <1>2 DEF IndexOfDevice
<1>3. ASSUME NEW c \in Callers, close(c)
      PROVE  IndexOfDevice'
  BY <1>3 DEF close, IndexOfDevice
<1>4. ASSUME NEW c \in Callers, CallStep(c), ~close(c)
      PROVE  g_idx' = g_idx /\ drv'.open = drv.open
  <2>1. CASE tune(c) \/ step(c) \/ ScanMute(c) \/ SeekStart(c)
    BY <1>1, <2>1 DEF tune, step, ScanMute, SeekStart, Driver, Chips
  <2>2. CASE HardwareSeek(c) \/ scan(c) \/ ListStart(c) \/ FMR_Pre_Search(c) \/ StopCheck(c)
    BY <1>1, <2>2 DEF HardwareSeek, scan, ListStart, FMR_Pre_Search, StopCheck, Driver, Chips
  <2>3. CASE SearchSeek(c) \/ FMR_Restore_Search(c) \/ startProgramListUpdates(c)
    BY <1>1, <2>3 DEF SearchSeek, FMR_Restore_Search, startProgramListUpdates, Driver, Chips
  <2>4. CASE setParameters(c)
    BY <1>1, <2>4 DEF setParameters, Driver, Chips
  <2> QED
    BY <1>4, <2>1, <2>2, <2>3, <2>4 DEF CallStep
<1>5. ASSUME NEW s \in Sessions, tuneInternalLocked(s)
      PROVE  g_idx' = g_idx /\ drv'.open = drv.open
  BY <1>1, <1>5 DEF tuneInternalLocked, Driver, Chips
<1>6. ASSUME NEW c \in Callers, Begin(c) \/ Enter(c) \/ openSession(c) \/ CloseOld(c)
      PROVE  UNCHANGED <<g_idx, drv>>
  BY <1>6 DEF Begin, Enter, openSession, CloseOld, device
<1>7. ASSUME NEW s \in Sessions, WorkerStep(s) \/ RdsStep(s) \/ LetGo(s) \/ Destructor(s),
             ~tuneInternalLocked(s)
      PROVE  UNCHANGED <<g_idx, drv>>
  BY <1>7 DEF WorkerStep, TakeTask, TuneTask, ReportTask, RdsStep, RdsRead, RdsCompare, RdsWake,
              RdsEnd, LetGo, Destructor, DestructorStart, DestructorEnd, device
<1>8. CASE UNCHANGED vars
  BY <1>2, <1>8 DEF vars
<1> QED
  BY <1>2, <1>3, <1>4, <1>5, <1>6, <1>7, <1>8 DEF Next, CallerStep, WorkerStep, Quiet, IndexOfDevice

LEMMA OwnedNext ==
  ASSUME IInv, Fresh, Unopened, IndexOfDevice, [Next]_vars
  PROVE  Unopened' /\ IndexOfDevice'
<1>1. ASSUME NEW c \in Callers, NewSession(c)
      PROVE  Unopened' /\ IndexOfDevice'
  BY <1>1, NewUnopened
<1>2. ASSUME \A c \in Callers : ~NewSession(c)
      PROVE  Unopened' /\ (OpenFailed => OpenFailed')
  <2>1. CASE UNCHANGED <<obj, tasks, worker, rds>>
    BY <2>1 DEF Unopened, OpenFailed
  <2>2. ASSUME NEW c \in Callers, Begin(c) \/ openSession(c) \/ CloseOld(c)
        PROVE  UNCHANGED <<obj, tasks, worker, rds>>
    BY <2>2 DEF Begin, openSession, CloseOld
  <2>3. ASSUME UNCHANGED vars
        PROVE  UNCHANGED <<obj, tasks, worker, rds>>
    BY <2>3 DEF vars
  <2> QED
    BY <1>2, <2>1, <2>2, <2>3, CallerUnopened, ThreadUnopened, EndUnopened
       DEF Next, Quiet, CallerStep
<1> QED
  BY <1>1, <1>2, DeviceKept

\* At most one session is open, it is the one the device index is set for, and it has the
\* device, unless some session before it could not open it.
THEOREM OwnsDevice ==
  Spec => [](/\ \A s, t \in Sessions : Open(s) /\ Open(t) => s = t /\ g_idx = 0
             /\ OpenSessionOwnsDevice \/ OpenFailed)
<1>1. Init => Unopened /\ IndexOfDevice
  BY DEF Init, Unopened, IndexOfDevice
<1>2. (IInv /\ Fresh) /\ (Unopened /\ IndexOfDevice) /\ [Next]_vars
        => (Unopened /\ IndexOfDevice)'
  BY OwnedNext
<1>3. IInv /\ Fresh /\ Unopened /\ IndexOfDevice =>
        /\ \A s, t \in Sessions : Open(s) /\ Open(t) => s = t /\ g_idx = 0
        /\ OpenSessionOwnsDevice \/ OpenFailed
  BY DEF IInv, Device, IndexOfDevice, OpenSessionOwnsDevice
<1> QED
  BY <1>1, <1>2, <1>3, InvHolds, PTL DEF Spec

\* The chip is muted only during a scan and in search mode only during a band search.
THEOREM Released == Spec => []ChipReleased
<1>1. IInv /\ Fresh => ChipReleased
  BY DEF IInv, Chip, ChipReleased
<1> QED
  BY <1>1, InvHolds, PTL

\* At most one hardware seek follows a stop request that reached the search.
THEOREM StopSearch == Spec => []StopEndsSearch
<1>1. IInv /\ Fresh => StopEndsSearch
  BY DEF IInv, Stopped, StopEndsSearch
<1> QED
  BY <1>1, InvHolds, PTL
=============================================================================
