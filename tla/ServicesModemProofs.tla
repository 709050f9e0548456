------------------------ MODULE ServicesModemProofs ------------------------
(***************************************************************************)
(* What holds of the parts of Services that watch the modem: the exception *)
(* collector and the connections of the modem's log.                       *)
(***************************************************************************)
EXTENDS ServicesProofs
---------------------------------------------------------------------------
(* The exception collector. *)

Version == [what |-> "version"]
VersionTold == \E j \in 1..Len(expTold) : expTold[j].report = Version

\* What a thread may be about to report.
ReportFits ==
  expPc = "triger" =>
    \/ watched = "objmodem" /\ report = Version
    \/ watched = "objmodem" /\ report.what = "imei" /\ VersionTold
    \/ watched = "objwcn" /\ report.what = "wcn"
    \/ watched = "objgps" /\ report.what = "gps"
    \/ watched = "objmodem_exp" /\ report.what = "exception"
    \/ watched = "objprop" /\ report.what = "config" /\ report.data # value_old

\* The count of failures is that of this report's calls, but for a version told before.
RetriesFit ==
  /\ expPc = "triger" =>
       \/ retry_num = tries /\ tries \in 0..5
       \/ report = Version /\ VersionTold
  /\ watched = "objmodem" =>
       /\ expPc \in {"start", "sem_wait", "work", "isModemAlive", "GetVer"} =>
            retry_num = 0 \/ VersionTold
       /\ expPc \in {"PROCESSIMEI", "GetIMEIs"} => VersionTold
  /\ watched \in {"objwcn", "objgps"} /\ expPc \in {"start", "sem_wait", "work"} => retry_num = 0

Untold == expPc # "done" => \A i \in 1..Len(expTold) : expTold[i].report.what # "imei"

IsList(s) == \E T : s \in Seq(T)

ExpFacts == ReportFits /\ RetriesFit /\ Untold /\ Exp!ReportsAccounted
ExpInv   == IsList(expTold) /\ tries \in Nat /\ retry_num \in Nat /\ ExpFacts

LEMMA OneMore ==
  ASSUME NEW s, IsList(s), NEW e
  PROVE  /\ Len(s) \in Nat /\ DOMAIN s = 1..Len(s)
         /\ IsList(Append(s, e)) /\ Append(s, e) # <<>>
         /\ Len(Append(s, e)) = Len(s) + 1 /\ DOMAIN Append(s, e) = 1..Len(s) + 1
         /\ \A i \in 1..Len(s) : Append(s, e)[i] = s[i]
         /\ Append(s, e)[Len(s) + 1] = e
<1>1. PICK T : s \in Seq(T)
  BY DEF IsList
<1>2. s \in Seq(T \cup {e})
  <2>1. Len(s) \in Nat /\ s \in [1..Len(s) -> T]
    BY <1>1, LenProperties
  <2>2. s \in [1..Len(s) -> T \cup {e}]
    BY <2>1
  <2> QED
    BY <2>1, <2>2, SeqDef
<1>3. Append(s, e) \in Seq(T \cup {e})
  BY <1>2, AppendProperties
<1>4. /\ Append(s, e) # <<>> /\ Len(Append(s, e)) = Len(s) + 1
      /\ \A i \in 1..Len(s) : Append(s, e)[i] = s[i]
      /\ Append(s, e)[Len(s) + 1] = e
  BY <1>2, AppendProperties
<1>5. Len(s) \in Nat /\ DOMAIN s = 1..Len(s) /\ DOMAIN Append(s, e) = 1..Len(Append(s, e))
  BY <1>2, <1>3, LenProperties
<1> QED
  BY <1>3, <1>4, <1>5 DEF IsList

LEMMA Listed ==
  ASSUME ExpInv PROVE Len(expTold) \in Nat /\ DOMAIN expTold = 1..Len(expTold)
BY OneMore DEF ExpInv

LEMMA ExpInit == ASSUME Exp!Init PROVE ExpInv
<1>1. /\ expPc = "start" /\ expTold = <<>> /\ tries = 0 /\ retry_num = 0 /\ value_old = Exp!Unknown
  BY DEF Exp!Init
<1>2. IsList(expTold) /\ Len(expTold) = 0 /\ 1..Len(expTold) = {} /\ DOMAIN expTold = {}
  <2>1. <<>> \in Seq({}) /\ Len(<<>>) = 0
    BY EmptySeq
  <2> QED
    BY <1>1, <2>1 DEF IsList
<1>3. ReportFits /\ RetriesFit /\ Untold
  BY <1>1, <1>2 DEF ReportFits, RetriesFit, Untold
<1>4. Exp!ReportsAccounted
  BY <1>1, <1>2 DEF Exp!ReportsAccounted, Exp!LostAfterSixCalls, Exp!NumbersToldLast, Exp!ConfigToldOnce
<1> QED
  BY <1>1, <1>2, <1>3, <1>4 DEF ExpInv, ExpFacts

\* A step that tells nothing, and leaves the value that was told.
LEMMA NothingTold ==
  ASSUME ExpInv, UNCHANGED <<watched, expTold, value_old>>, tries' \in Nat, retry_num' \in Nat,
         ReportFits', RetriesFit', expPc = "done" => expPc' = "done"
  PROVE  ExpInv'
<1>1. Untold'
  BY DEF ExpInv, ExpFacts, Untold
<1>2. Exp!ReportsAccounted'
  BY DEF ExpInv, ExpFacts, Exp!ReportsAccounted, Exp!LostAfterSixCalls, Exp!NumbersToldLast,
         Exp!ConfigToldOnce
<1>3. IsList(expTold)'
  BY DEF ExpInv
<1> QED
  BY <1>1, <1>2, <1>3 DEF ExpInv, ExpFacts

\* The client, the world, and the thread until it goes to work.
LEMMA OutsideStep ==
  ASSUME ExpInv,
         \/ Exp!SetCallback \/ Exp!ClientDies \/ Exp!Start \/ Exp!SemWait
         \/ Exp!ModemToggles \/ Exp!DaemonToggles \/ Exp!DaemonSays \/ Exp!ConfigChanges
  PROVE  ExpInv'
<1>1. UNCHANGED <<watched, expTold, value_old, report, retry_num, tries>>
  BY DEF Exp!SetCallback, Exp!ClientDies, Exp!Start, Exp!SemWait, Exp!ModemToggles,
         Exp!DaemonToggles, Exp!DaemonSays, Exp!ConfigChanges, Exp!procVars, Exp!worldVars
<1>2. expPc' = expPc \/ (expPc \in {"start", "sem_wait"} /\ expPc' \in {"start", "sem_wait", "work"})
  BY DEF Exp!SetCallback, Exp!ClientDies, Exp!Start, Exp!SemWait, Exp!ModemToggles,
         Exp!DaemonToggles, Exp!DaemonSays, Exp!ConfigChanges, Exp!procVars, Exp!worldVars
<1>3. ReportFits'
  BY <1>1, <1>2 DEF ExpInv, ExpFacts, ReportFits, VersionTold
<1>4. RetriesFit'
  BY <1>1, <1>2 DEF ExpInv, ExpFacts, RetriesFit, VersionTold
<1> QED
  BY <1>1, <1>2, <1>3, <1>4, NothingTold DEF ExpInv

\* A thread goes on at another place, with its counts as they are.
LEMMA GoOnStep ==
  ASSUME ExpInv, UNCHANGED <<watched, expTold, value_old, retry_num, report, tries>>,
         expPc \notin {"triger", "done"}, expPc' # "triger",
         \/ watched = "objmodem" /\ \/ expPc' \in {"isModemAlive", "work", "GetVer"}
                                       /\ expPc \in {"work", "isModemAlive", "GetVer"}
                                    \/ expPc' \in {"PROCESSIMEI", "GetIMEIs", "work"}
                                       /\ expPc \in {"PROCESSIMEI", "GetIMEIs"}
         \/ watched \in {"objwcn", "objgps"} /\ expPc = "work" /\ expPc' = "work"
         \/ watched \in {"objmodem_exp", "objprop"}
  PROVE  ExpInv'
<1>1. ReportFits'
  BY DEF ReportFits
<1>2. RetriesFit'
  BY DEF ExpInv, ExpFacts, RetriesFit, VersionTold
<1> QED
  BY <1>1, <1>2, NothingTold DEF ExpInv

\* A thread has something to report.
LEMMA ReportsStep ==
  ASSUME ExpInv, UNCHANGED <<watched, expTold, value_old>>, expPc \notin {"triger", "done"},
         NEW r, Exp!Reports(r), retry_num' \in Nat,
         \/ retry_num' = 0
         \/ r = Version /\ VersionTold,
         \/ watched = "objmodem" /\ r = Version
         \/ watched = "objmodem" /\ r.what = "imei" /\ VersionTold
         \/ watched = "objwcn" /\ r.what = "wcn"
         \/ watched = "objgps" /\ r.what = "gps"
         \/ watched = "objmodem_exp" /\ r.what = "exception"
         \/ watched = "objprop" /\ r.what = "config" /\ r.data # value_old
  PROVE  ExpInv'
<1>1. report' = r /\ tries' = 0 /\ expPc' = "triger"
  BY DEF Exp!Reports
<1>2. VersionTold' <=> VersionTold
  BY DEF VersionTold
<1>3. ReportFits'
  BY <1>1, <1>2 DEF ReportFits
<1>4. RetriesFit'
  BY <1>1, <1>2 DEF RetriesFit
<1> QED
  BY <1>1, <1>3, <1>4, NothingTold

LEMMA ModemThreadStep ==
  ASSUME ExpInv,
         Exp!ModemPrepared \/ Exp!AskModem \/ Exp!GetModemVer \/ Exp!ProcessImei
  PROVE  ExpInv'
<1>1. CASE Exp!ModemPrepared
  BY <1>1, GoOnStep DEF Exp!ModemPrepared, Exp!At, Exp!GoOn, Exp!Rest
<1>2. CASE Exp!AskModem
  BY <1>2, GoOnStep DEF Exp!AskModem, Exp!IfModemAlive, Exp!At, Exp!GoOn, Exp!Rest
<1>3. CASE Exp!GetModemVer
  <2>1. /\ watched = "objmodem" /\ expPc = "GetVer"
        /\ UNCHANGED <<watched, expTold, value_old, retry_num>>
        /\ \/ Exp!GoOn("isModemAlive") \/ Exp!Reports(Version)
    BY <1>3 DEF Exp!GetModemVer, Exp!At, Exp!Rest, Version
  <2>2. retry_num \in Nat /\ (retry_num = 0 \/ VersionTold)
    BY <2>1 DEF ExpInv, ExpFacts, RetriesFit
  <2>3. CASE Exp!GoOn("isModemAlive")
    BY <2>1, <2>3, GoOnStep DEF Exp!GoOn
  <2>4. CASE Exp!Reports(Version)
    BY <2>1, <2>2, <2>4, ReportsStep
  <2> QED
    BY <2>1, <2>3, <2>4
<1>4. CASE Exp!ProcessImei
  <2> DEFINE r == [what |-> "imei", data |-> phoneNum]
  <2>1. /\ watched = "objmodem" /\ expPc = "GetIMEIs"
        /\ UNCHANGED <<watched, expTold, value_old>>
        /\ \/ Exp!GoOn("PROCESSIMEI") /\ UNCHANGED retry_num
           \/ Exp!Reports(r) /\ retry_num' = 0
    BY <1>4 DEF Exp!ProcessImei, Exp!At, Exp!Rest, Exp!ResetRetries
  <2>2. VersionTold
    BY <2>1 DEF ExpInv, ExpFacts, RetriesFit
  <2>3. CASE Exp!GoOn("PROCESSIMEI") /\ UNCHANGED retry_num
    BY <2>1, <2>3, GoOnStep DEF Exp!GoOn
  <2>4. CASE Exp!Reports(r) /\ retry_num' = 0
    <3>1. r.what = "imei"
      OBVIOUS
    <3> QED
      BY <2>1, <2>2, <2>4, <3>1, ReportsStep
  <2> QED
    BY <2>1, <2>3, <2>4
<1> QED
  BY <1>1, <1>2, <1>3, <1>4

LEMMA VersionThreadsStep ==
  ASSUME ExpInv, Exp!WcnExecute \/ Exp!GpsExecute
  PROVE  ExpInv'
<1>1. PICK t \in {<<"objwcn", "wcn">>, <<"objgps", "gps">>} :
        /\ watched = t[1] /\ expPc = "work"
        /\ UNCHANGED <<watched, expTold, value_old, retry_num>>
        /\ \/ Exp!GoOn("work")
           \/ \E v : Exp!Reports([what |-> t[2], data |-> v])
  BY DEF Exp!WcnExecute, Exp!GpsExecute, Exp!At, Exp!Rest
<1>2. retry_num = 0 /\ watched \in {"objwcn", "objgps"}
  BY <1>1 DEF ExpInv, ExpFacts, RetriesFit
<1>3. CASE Exp!GoOn("work")
  BY <1>1, <1>2, <1>3, GoOnStep DEF Exp!GoOn
<1>4. CASE \E v : Exp!Reports([what |-> t[2], data |-> v])
  <2>1. PICK v : Exp!Reports([what |-> t[2], data |-> v])
    BY <1>4
  <2>2. [what |-> t[2], data |-> v].what = t[2]
    OBVIOUS
  <2> QED
    BY <1>1, <1>2, <2>1, <2>2, ReportsStep
<1> QED
  BY <1>1, <1>3, <1>4

LEMMA SocketsStep ==
  ASSUME ExpInv, Exp!ConnectModemd \/ Exp!ConnectWcnd \/ Exp!Select
  PROVE  ExpInv'
<1>1. /\ watched = "objmodem_exp" /\ expPc \in {"work", "connect_wcnd", "select"}
      /\ expPc' \in {"connect_wcnd", "select", "start", "read"}
      /\ UNCHANGED <<watched, expTold, value_old, report, tries>>
      /\ retry_num' \in {0, retry_num}
  BY DEF Exp!ConnectModemd, Exp!ConnectWcnd, Exp!Select, Exp!At, Exp!GoOn, Exp!Rest
<1>2. ReportFits'
  BY <1>1 DEF ReportFits
<1>3. RetriesFit'
  BY <1>1 DEF RetriesFit
<1> QED
  BY <1>1, <1>2, <1>3, NothingTold DEF ExpInv

LEMMA ReadStep == ASSUME ExpInv, Exp!Read PROVE ExpInv'
<1>1. /\ watched = "objmodem_exp" /\ expPc = "read"
      /\ UNCHANGED <<watched, expTold, value_old>>
      /\ \/ \E p \in {"work", "select", "read"} : Exp!GoOn(p) /\ UNCHANGED retry_num
         \/ \E text, type : /\ Exp!Reports([what |-> "exception", data |-> text, type |-> type])
                            /\ retry_num' = 0
  BY DEF Exp!Read, Exp!At
<1>2. CASE \E p \in {"work", "select", "read"} : Exp!GoOn(p) /\ UNCHANGED retry_num
  BY <1>1, <1>2, GoOnStep DEF Exp!GoOn
<1>3. CASE \E text, type : /\ Exp!Reports([what |-> "exception", data |-> text, type |-> type])
                           /\ retry_num' = 0
  <2>1. PICK text, type : /\ Exp!Reports([what |-> "exception", data |-> text, type |-> type])
                          /\ retry_num' = 0
    BY <1>3
  <2>2. [what |-> "exception", data |-> text, type |-> type].what = "exception"
    OBVIOUS
  <2> QED
    BY <1>1, <2>1, <2>2, ReportsStep
<1> QED
  BY <1>1, <1>2, <1>3

LEMMA ReadConfigStep == ASSUME ExpInv, Exp!ReadConfig PROVE ExpInv'
<1> DEFINE r == [what |-> "config", data |-> config]
<1>1. /\ watched = "objprop" /\ expPc \in {"work", "poll"} /\ config # value_old
      /\ UNCHANGED <<watched, expTold, value_old>> /\ Exp!Reports(r) /\ retry_num' = 0
  BY DEF Exp!ReadConfig, Exp!At, Exp!Rest
<1>2. r.what = "config" /\ r.data # value_old
  BY <1>1
<1> QED
  BY <1>1, <1>2, ReportsStep

\* A report is concluded: the reports told before stay as they were.
LEMMA ConcludedStep ==
  ASSUME ExpInv, expPc = "triger", UNCHANGED watched, tries' \in Nat, retry_num' \in Nat,
         NEW ok \in BOOLEAN, Exp!Concluded(ok),
         ok \/ tries' = 6 \/ (report = Version /\ VersionTold)
  PROVE  ExpInv'
<1> DEFINE e == [report |-> report, ok |-> ok, tries |-> tries']
           n == Len(expTold)
<1>1. /\ expTold' = Append(expTold, e) /\ expPc' = Exp!After(report.what)
      /\ value_old' = IF report.what = "config" THEN report.data ELSE value_old
  BY DEF Exp!Concluded
<1>2. /\ n \in Nat /\ DOMAIN expTold = 1..n /\ IsList(expTold')
      /\ Len(expTold') = n + 1 /\ DOMAIN expTold' = 1..n + 1 /\ expTold' # <<>>
      /\ \A i \in 1..n : expTold'[i] = expTold[i]
      /\ expTold'[n + 1] = e
  <2> HIDE DEF e
  <2> QED
    BY <1>1, OneMore DEF ExpInv
<1>3. e.report = report /\ e.tries = tries' /\ (e.ok <=> ok)
  <2>1. e.report = report /\ e.tries = tries'
    OBVIOUS
  <2>2. e.ok = ok
    OBVIOUS
  <2> QED
    BY <2>1, <2>2
<1> HIDE DEF e
<1>4. VersionTold' <=> VersionTold \/ report = Version
  BY <1>2, <1>3 DEF VersionTold
<1>5. report.what \in {"version", "imei", "wcn", "gps", "exception", "config"}
  BY DEF ExpInv, ExpFacts, ReportFits, Version
<1>6. /\ report.what = "version" <=> expPc' = "PROCESSIMEI"
      /\ report.what = "exception" <=> expPc' \in {"select", "read"}
      /\ report.what = "config" <=> expPc' = "poll"
      /\ report.what \in {"imei", "wcn", "gps"} <=> expPc' = "done"
      /\ expPc' \in {"PROCESSIMEI", "select", "read", "poll", "done"}
  BY <1>1, <1>5 DEF Exp!After
<1>7. ReportFits'
  BY <1>6 DEF ReportFits
<1>8. RetriesFit'
  <2>1. expPc' = "PROCESSIMEI" => VersionTold'
    BY <1>4, <1>6 DEF ExpInv, ExpFacts, ReportFits, Version
  <2> QED
    BY <1>6, <2>1 DEF RetriesFit
<1>9. Untold'
  <2> SUFFICES ASSUME expPc' # "done", NEW i \in 1..n + 1
               PROVE  expTold'[i].report.what # "imei"
    BY <1>2 DEF Untold
  <2>1. CASE i = n + 1
    BY <1>2, <1>3, <1>6, <2>1
  <2>2. CASE i # n + 1
    <3>1. i \in 1..n
      BY <1>2, <2>2
    <3> QED
      BY <1>2, <3>1 DEF ExpInv, ExpFacts, Untold
  <2> QED
    BY <2>1, <2>2
<1>10. Exp!LostAfterSixCalls'
  <2> SUFFICES ASSUME NEW i \in 1..n + 1
               PROVE  \/ expTold'[i].ok \/ expTold'[i].tries = 6
                      \/ \E j \in 1..i - 1 : /\ expTold'[j].report.what = "version"
                                             /\ expTold'[i].report = expTold'[j].report
    BY <1>2 DEF Exp!LostAfterSixCalls
  <2>1. CASE i = n + 1
    <3>1. CASE report = Version /\ VersionTold
      <4>1. PICK j \in 1..n : expTold[j].report = Version
        BY <3>1 DEF VersionTold
      <4>2. j \in 1..i - 1 /\ expTold'[j].report = Version /\ expTold'[i].report = Version
        BY <1>2, <1>3, <2>1, <3>1, <4>1
      <4>3. Version.what = "version"
        BY DEF Version
      <4> QED
        BY <4>2, <4>3
    <3>2. CASE tries' = 6
      BY <1>2, <1>3, <2>1, <3>2
    <3>3. CASE ok
      BY <1>2, <1>3, <2>1, <3>3, Zenon
    <3> QED
      BY <3>1, <3>2, <3>3
  <2>2. CASE i # n + 1
    <3>1. i \in 1..n
      BY <1>2, <2>2
    <3>2. \/ expTold[i].ok \/ expTold[i].tries = 6
          \/ \E j \in 1..i - 1 : /\ expTold[j].report.what = "version"
                                 /\ expTold[i].report = expTold[j].report
      BY <1>2, <3>1 DEF ExpInv, ExpFacts, Exp!ReportsAccounted, Exp!LostAfterSixCalls
    <3>3. \A j \in 1..i - 1 : j \in 1..n
      BY <1>2, <3>1
    <3> QED
      BY <1>2, <3>1, <3>2, <3>3
  <2> QED
    BY <2>1, <2>2
<1>11. Exp!NumbersToldLast'
  <2> SUFFICES ASSUME NEW i \in 1..n + 1, expTold'[i].report.what = "imei"
               PROVE  i = n + 1 /\ i > 1
    BY <1>2 DEF Exp!NumbersToldLast
  <2>1. i = n + 1
    <3>1. i \in 1..n => expTold[i].report.what # "imei"
      BY DEF ExpInv, ExpFacts, Untold
    <3> QED
      BY <1>2, <3>1
  <2>2. report.what = "imei"
    BY <1>2, <1>3, <2>1
  <2>3. VersionTold
    BY <2>2 DEF ExpInv, ExpFacts, ReportFits, Version
  <2>4. n > 0
    BY <1>2, <2>3 DEF VersionTold
  <2> QED
    BY <1>2, <2>1, <2>4
<1>12. Exp!ConfigToldOnce'
  <2> SUFFICES ASSUME watched = "objprop"
               PROVE  /\ \A i \in 2..n + 1 : expTold'[i].report # expTold'[i - 1].report
                      /\ value_old' = expTold'[n + 1].report.data
    BY <1>2 DEF Exp!ConfigToldOnce
  <2>1. report.what = "config" /\ report.data # value_old
    BY DEF ExpInv, ExpFacts, ReportFits, Version
  <2>2. value_old' = expTold'[n + 1].report.data
    BY <1>1, <1>2, <1>3, <2>1
  <2>3. /\ \A i \in 2..n : expTold[i].report # expTold[i - 1].report
        /\ expTold # <<>> => value_old = expTold[n].report.data
    BY DEF ExpInv, ExpFacts, Exp!ReportsAccounted, Exp!ConfigToldOnce
  <2>4. ASSUME NEW i \in 2..n + 1 PROVE expTold'[i].report # expTold'[i - 1].report
    <3>1. CASE i = n + 1
      <4>1. n \in 1..n /\ i - 1 = n /\ expTold # <<>>
        <5>1. n >= 1 /\ i - 1 = n
          BY <1>2, <3>1
        <5>2. expTold # <<>>
          BY <1>2, <5>1, EmptySeq
        <5> QED
          BY <1>2, <5>1, <5>2
      <4>2. expTold'[i].report = report /\ expTold'[i - 1].report = expTold[n].report
        BY <1>2, <1>3, <3>1, <4>1
      <4> QED
        BY <2>1, <2>3, <4>1, <4>2
    <3>2. CASE i # n + 1
      <4>1. i \in 2..n /\ i \in 1..n /\ i - 1 \in 1..n
        BY <1>2, <3>2
      <4> QED
        BY <1>2, <2>3, <4>1
    <3> QED
      BY <3>1, <3>2
  <2> QED
    BY <2>2, <2>4
<1> QED
  BY <1>2, <1>7, <1>8, <1>9, <1>10, <1>11, <1>12 DEF ExpInv, ExpFacts, Exp!ReportsAccounted

LEMMA TriggerStep == ASSUME ExpInv, Exp!Trigger PROVE ExpInv'
<1>1. expPc = "triger" /\ tries' = tries + 1 /\ UNCHANGED watched /\ tries \in Nat /\ retry_num \in Nat
  BY DEF Exp!Trigger, ExpInv
<1>2. \/ retry_num = tries /\ tries \in 0..5
      \/ report = Version /\ VersionTold
  BY <1>1 DEF ExpInv, ExpFacts, RetriesFit
<1>3. \/ Exp!Concluded(TRUE) /\ UNCHANGED retry_num
      \/ retry_num' = retry_num + 1 /\ retry_num < 5 /\ UNCHANGED <<expPc, report, expTold, value_old>>
      \/ retry_num' = retry_num + 1 /\ ~(retry_num < 5) /\ Exp!Concluded(FALSE)
  BY DEF Exp!Trigger
<1>4. CASE Exp!Concluded(TRUE) /\ UNCHANGED retry_num
  <2>1. tries' \in Nat /\ retry_num' \in Nat /\ expPc = "triger" /\ UNCHANGED watched
    BY <1>1, <1>4
  <2>2. ASSUME NEW ok \in BOOLEAN, ok PROVE Exp!Concluded(ok) => ExpInv'
    BY <2>1, <2>2, ConcludedStep
  <2> QED
    BY <1>4, <2>2, Zenon
<1>5. CASE retry_num' = retry_num + 1 /\ retry_num < 5 /\ UNCHANGED <<expPc, report, expTold, value_old>>
  <2>1. ReportFits'
    BY <1>1, <1>5 DEF ExpInv, ExpFacts, ReportFits, VersionTold
  <2>2. RetriesFit'
    BY <1>1, <1>2, <1>5 DEF RetriesFit, VersionTold
  <2> QED
    BY <1>1, <1>5, <2>1, <2>2, NothingTold
<1>6. CASE retry_num' = retry_num + 1 /\ ~(retry_num < 5) /\ Exp!Concluded(FALSE)
  <2>1. tries' = 6 \/ (report = Version /\ VersionTold)
    BY <1>1, <1>2, <1>6
  <2>2. tries' \in Nat /\ retry_num' \in Nat
    BY <1>1, <1>6
  <2> QED
    BY <1>1, <1>6, <2>1, <2>2, ConcludedStep
<1> QED
  BY <1>3, <1>4, <1>5, <1>6

LEMMA ExpStep == ASSUME ExpInv, Exp!Next PROVE ExpInv'
<1>1. CASE \/ Exp!SetCallback \/ Exp!ClientDies \/ Exp!Start \/ Exp!SemWait
           \/ Exp!ModemToggles \/ Exp!DaemonToggles \/ Exp!DaemonSays \/ Exp!ConfigChanges
  BY <1>1, OutsideStep
<1>2. CASE Exp!ModemPrepared \/ Exp!AskModem \/ Exp!GetModemVer \/ Exp!ProcessImei
  BY <1>2, ModemThreadStep
<1>3. CASE Exp!WcnExecute \/ Exp!GpsExecute
  BY <1>3, VersionThreadsStep
<1>4. CASE Exp!ConnectModemd \/ Exp!ConnectWcnd \/ Exp!Select
  BY <1>4, SocketsStep
<1> QED
  BY <1>1, <1>2, <1>3, <1>4, ReadStep, ReadConfigStep, TriggerStep DEF Exp!Next

LEMMA ExpInvHolds == SuiteSpec => []ExpInv
<1>1. SuiteInit => ExpInv
  <2>1. SuiteInit => Exp!Init
    BY DEF SuiteInit
  <2> QED
    BY <2>1, ExpInit
<1>2. ExpInv /\ [SuiteNext]_suiteVars => ExpInv'
  <2>1. ASSUME ExpInv, UNCHANGED expVars PROVE ExpInv'
    BY <2>1 DEF expVars, ExpInv, ExpFacts, ReportFits, RetriesFit, Untold, VersionTold,
         Exp!ReportsAccounted, Exp!LostAfterSixCalls, Exp!NumbersToldLast, Exp!ConfigToldOnce
  <2>2. [SuiteNext]_suiteVars => Exp!Next \/ UNCHANGED expVars
    BY DEF SuiteNext, Still, suiteVars
  <2> QED
    BY <2>1, <2>2, ExpStep
<1> QED
  BY <1>1, <1>2, PTL DEF SuiteSpec

\* The exception collector gives up a report, unless it is a version told again, only after
\* six calls, tells the numbers of the phones once, after a version, and a configuration only
\* when it differs from the one told before (LVendorFunc and the five threads of aprd).
THEOREM ReportsTold == SuiteSpec => []ReportsAccounted
<1>1. ExpInv => ReportsAccounted
  BY DEF ExpInv, ExpFacts, ReportsAccounted
<1> QED
  BY <1>1, ExpInvHolds, PTL

---------------------------------------------------------------------------
(* The connection manager of the modem log. *)

ConnKinds   == {"modemd", "time", "client"}
ConnRequest == [type : {"register", "unregister"}, h : Nat]

ConnTypes ==
  /\ kind \in Seq(ConnKinds) /\ Len(kind) <= MaxHandlers
  /\ conn \in Seq({"none", "open", "data", "eof"}) /\ Len(conn) = Len(kind)
  /\ connTold \in Seq(Nat) /\ Len(connTold) = Len(kind)
  /\ slot \in [Conn!Sockets -> (1..Len(kind)) \cup {Conn!None}]
  /\ gone \subseteq 1..Len(kind) /\ handlerTimers \subseteq 1..Len(kind)
  /\ sockets \subseteq Conn!Sockets /\ timers \in 0..MaxTimers /\ answers \in 0..1
  /\ connRequests \in Seq(ConnRequest)
  /\ closing \in [s : Conn!Sockets, h : Nat] \cup {Conn!NoClose}
  /\ polling_hdl \in Seq(Int) /\ current \in Seq(Int) /\ ready \subseteq Int
  /\ due \in Nat /\ dueHandlers \subseteq handlerTimers

\* A handler in a slot serves its socket, which does not wait for a reconnection then; a
\* socket that waits has a timer, of which those of this run are some.
ConnSlots ==
  /\ \A s \in Conn!Sockets :
       slot[s] # Conn!None => kind[slot[s]] = s /\ slot[s] \notin gone /\ s \notin sockets
  /\ due <= timers
  /\ sockets # {} => timers > 0

\* A handler that is gone has no connection and no timer; a client's end was told when it went.
ConnGone ==
  /\ \A h \in gone : conn[h] = "none"
  /\ \A h \in handlerTimers : kind[h] = "modemd" /\ h \notin gone
  /\ phase # "timers" => dueHandlers = {}
  /\ \A h \in 1..Len(kind) : kind[h] = "client" => connTold[h] = IF h \in gone THEN 1 ELSE 0

\* The binder thread waits for one answer, which is asked for once or has come.
Unregisters(i) == connRequests[i].type = "unregister"
Registers(i)   == connRequests[i].type = "register"

ConnAsked ==
  /\ \A i \in 1..Len(connRequests) :
       Unregisters(i) => connRequests[i].h \in {Conn!None, closing.h}
  /\ closing.h = Conn!None => answers = 0
  /\ closing.h # Conn!None =>
       /\ closing.s \in Conn!Sockets /\ slot[closing.s] = closing.h
       /\ answers = 1 => \A i \in 1..Len(connRequests) :
                           Unregisters(i) => connRequests[i].h # closing.h
       /\ answers = 0 => \E i \in 1..Len(connRequests) :
                           \A j \in 1..Len(connRequests) :
                             Unregisters(j) /\ connRequests[j].h = closing.h <=> j = i

\* A handler is registered for a socket, before it is unregistered.
ConnOrder ==
  /\ \A i \in 1..Len(connRequests) :
       Registers(i) => /\ connRequests[i].h \in 1..Len(kind)
                       /\ kind[connRequests[i].h] \in Conn!Sockets
                       /\ connRequests[i].h \in gone => connRequests[i].h \in revived
  /\ \A i, j \in 1..Len(connRequests) :
       Unregisters(i) /\ Registers(j) /\ connRequests[i].h = connRequests[j].h => j < i

\* What the daemon has answered for it never touches again, but for a handler that waited
\* for its reconnection.
LetGo(h) ==
  /\ h \notin handlerTimers \cup ready \cup Conn!ToSet(polling_hdl)
  /\ phase = "poll" => h \notin Conn!ToSet(current)
  /\ \A i \in 1..Len(connRequests) : Registers(i) => connRequests[i].h # h

ConnDone ==
  /\ answers > 0 => LetGo(closing.h) \/ closing.h \in revived
  /\ gone \cap (ready \cup Conn!ToSet(polling_hdl)) \subseteq revived
  /\ misused \subseteq gone \cap revived

OnceIn(q) == \A i, j \in 1..Len(q) : q[i] = q[j] => i = j

ConnInv == ConnTypes /\ ConnSlots /\ ConnGone /\ ConnAsked /\ ConnOrder /\ ConnDone
           /\ OnceIn(polling_hdl)

\* What the lists of the poll loop hold.
LEMMA WithoutOne ==
  ASSUME NEW q \in Seq(Int), OnceIn(q), NEW h
  PROVE  /\ Conn!Without(q, h) \in Seq(Int) /\ OnceIn(Conn!Without(q, h))
         /\ Conn!ToSet(Conn!Without(q, h)) = Conn!ToSet(q) \ {h}
<1>1. CASE h \notin Conn!ToSet(q)
  BY <1>1 DEF Conn!Without
<1>2. CASE h \in Conn!ToSet(q)
  <2> DEFINE n == CHOOSE i \in DOMAIN q : q[i] = h
             a == SubSeq(q, 1, n - 1)
             b == SubSeq(q, n + 1, Len(q))
             w == a \o b
  <2>1. n \in DOMAIN q /\ q[n] = h
    BY <1>2 DEF Conn!ToSet
  <2>2. n \in 1..Len(q) /\ Len(q) \in Nat /\ DOMAIN q = 1..Len(q) /\ \A i \in 1..Len(q) : q[i] \in Int
    BY <2>1
  <2>3. Conn!Without(q, h) = w
    BY <1>2 DEF Conn!Without, Conn!RemoveAt
  <2> HIDE DEF n
  <2>4. a \in Seq(Int) /\ Len(a) = n - 1 /\ \A i \in 1..(n - 1) : a[i] = q[i]
    <3>1. 1 \in Int /\ n - 1 \in Int /\ \A i \in 1..(n - 1) : q[i] \in Int
      BY <2>2
    <3> QED
      BY <2>2, <3>1, SubSeqProperties
  <2>5. b \in Seq(Int) /\ Len(b) = Len(q) - n /\ \A i \in 1..(Len(q) - n) : b[i] = q[n + i]
    <3>1. n + 1 \in Int /\ Len(q) \in Int /\ \A i \in (n + 1)..Len(q) : q[i] \in Int
      BY <2>2
    <3>2. /\ b \in Seq(Int)
          /\ Len(b) = IF n + 1 <= Len(q) THEN Len(q) - (n + 1) + 1 ELSE 0
          /\ \A i \in 1..(Len(q) - (n + 1) + 1) : b[i] = q[(n + 1) + i - 1]
      BY <3>1, SubSeqProperties
    <3> HIDE DEF b
    <3>3. ASSUME NEW i \in 1..(Len(q) - n) PROVE b[i] = q[n + i]
      <4>1. i \in 1..(Len(q) - (n + 1) + 1) /\ (n + 1) + i - 1 = n + i
        BY <2>2
      <4> QED
        BY <3>2, <4>1
    <3>4. Len(b) = Len(q) - n
      <4>1. Len(b) = IF n + 1 <= Len(q) THEN Len(q) - (n + 1) + 1 ELSE 0
        BY <3>2
      <4>2. n \in Int /\ Len(q) \in Int /\ n <= Len(q)
        BY <2>2
      <4> QED
        BY <4>1, <4>2
    <3> QED
      BY <3>2, <3>3, <3>4
  <2> HIDE DEF a, b
  <2>6. /\ w \in Seq(Int) /\ Len(w) = Len(q) - 1
        /\ \A i \in 1..(Len(q) - 1) : w[i] = IF i < n THEN q[i] ELSE q[i + 1]
    <3>1. /\ w \in Seq(Int) /\ Len(w) = Len(a) + Len(b)
          /\ \A i \in 1..(Len(a) + Len(b)) : w[i] = IF i <= Len(a) THEN a[i] ELSE b[i - Len(a)]
      BY <2>4, <2>5, ConcatProperties
    <3>2. Len(a) + Len(b) = Len(q) - 1
      BY <2>2, <2>4, <2>5
    <3>3. ASSUME NEW i \in 1..(Len(q) - 1) PROVE w[i] = IF i < n THEN q[i] ELSE q[i + 1]
      <4>1. CASE i < n
        <5>1. i \in 1..(n - 1) /\ i <= Len(a)
          BY <2>2, <2>4, <4>1
        <5> QED
          BY <2>4, <3>1, <3>2, <4>1, <5>1
      <4>2. CASE ~(i < n)
        <5>1. i - Len(a) \in 1..(Len(q) - n) /\ ~(i <= Len(a)) /\ n + (i - Len(a)) = i + 1
          BY <2>2, <2>4, <4>2
        <5> QED
          BY <2>5, <3>1, <3>2, <4>2, <5>1
      <4> QED
        BY <4>1, <4>2
    <3> QED
      BY <3>1, <3>2, <3>3
  <2> HIDE DEF w
  <2>7. DOMAIN w = 1..(Len(q) - 1)
    BY <2>6
  <2>8. OnceIn(w)
    <3> SUFFICES ASSUME NEW i \in 1..(Len(q) - 1), NEW j \in 1..(Len(q) - 1), w[i] = w[j]
                 PROVE  i = j
      BY <2>6 DEF OnceIn
    <3> DEFINE k == IF i < n THEN i ELSE i + 1
               l == IF j < n THEN j ELSE j + 1
    <3>1. k \in 1..Len(q) /\ l \in 1..Len(q)
      BY <2>2
    <3>2. w[i] = q[k] /\ w[j] = q[l]
      BY <2>6
    <3>3. q[k] = q[l]
      BY <3>2
    <3> HIDE DEF k, l
    <3>4. k = l
      BY <3>1, <3>3 DEF OnceIn
    <3> QED
      BY <2>2, <3>4 DEF k, l
  <2>9. ASSUME NEW x \in Conn!ToSet(w) PROVE x \in Conn!ToSet(q) \ {h}
    <3> PICK i \in 1..(Len(q) - 1) : x = w[i]
      BY <2>7, <2>9 DEF Conn!ToSet
    <3> DEFINE j == IF i < n THEN i ELSE i + 1
    <3>1. x = IF i < n THEN q[i] ELSE q[i + 1]
      BY <2>6
    <3>2. j \in 1..Len(q) /\ j # n
      BY <2>2
    <3>3. x = q[j]
      BY <3>1
    <3> HIDE DEF j
    <3> QED
      BY <2>1, <2>2, <3>2, <3>3 DEF Conn!ToSet, OnceIn
  <2>10. ASSUME NEW x \in Conn!ToSet(q) \ {h} PROVE x \in Conn!ToSet(w)
    <3> PICK j \in 1..Len(q) : x = q[j]
      BY <2>2, <2>10 DEF Conn!ToSet
    <3> DEFINE i == IF j < n THEN j ELSE j - 1
    <3>1. j # n
      BY <2>1, <2>10
    <3>2. i \in 1..(Len(q) - 1) /\ j = IF i < n THEN i ELSE i + 1
      BY <2>2, <3>1
    <3> HIDE DEF i
    <3>3. w[i] = x
      BY <2>6, <3>2
    <3> QED
      BY <2>7, <3>2, <3>3 DEF Conn!ToSet
  <2> QED
    BY <2>3, <2>6, <2>8, <2>9, <2>10
<1> QED
  BY <1>1, <1>2

LEMMA OneAtEnd ==
  ASSUME NEW q \in Seq(Int), OnceIn(q), NEW h \in Int, h \notin Conn!ToSet(q)
  PROVE  /\ Append(q, h) \in Seq(Int) /\ OnceIn(Append(q, h))
         /\ Conn!ToSet(Append(q, h)) = Conn!ToSet(q) \cup {h}
<1> DEFINE r == Append(q, h)
<1>1. /\ r \in Seq(Int) /\ DOMAIN q = 1..Len(q) /\ DOMAIN r = 1..(Len(q) + 1) /\ Len(q) \in Nat
      /\ Len(r) = Len(q) + 1 /\ r[Len(q) + 1] = h /\ \A i \in 1..Len(q) : r[i] = q[i]
  OBVIOUS
<1> HIDE DEF r
<1>2. \A i \in 1..Len(q) : q[i] # h
  BY <1>1 DEF Conn!ToSet
<1>3. OnceIn(r)
  BY <1>1, <1>2 DEF OnceIn
<1>4. ASSUME NEW x \in Conn!ToSet(r) PROVE x \in Conn!ToSet(q) \cup {h}
  <2> PICK i \in 1..(Len(q) + 1) : x = r[i]
    BY <1>1, <1>4 DEF Conn!ToSet
  <2>1. i \in 1..Len(q) \/ i = Len(q) + 1
    BY <1>1
  <2> QED
    BY <1>1, <2>1 DEF Conn!ToSet
<1>5. Conn!ToSet(q) \subseteq Conn!ToSet(r)
  BY <1>1 DEF Conn!ToSet
<1>6. h \in Conn!ToSet(r)
  <2>1. Len(q) + 1 \in DOMAIN r
    BY <1>1
  <2> QED
    BY <1>1, <2>1 DEF Conn!ToSet
<1> QED
  BY <1>1, <1>3, <1>4, <1>5, <1>6 DEF r

LEMMA RestOfList ==
  ASSUME NEW q \in Seq(Int), q # <<>>
  PROVE  Tail(q) \in Seq(Int) /\ Head(q) \in Conn!ToSet(q) /\ Conn!ToSet(Tail(q)) \subseteq Conn!ToSet(q)
<1>1. /\ Tail(q) \in Seq(Int) /\ Head(q) = q[1] /\ Len(q) \in Nat \ {0} /\ DOMAIN q = 1..Len(q)
      /\ DOMAIN Tail(q) = 1..(Len(q) - 1) /\ \A i \in 1..(Len(q) - 1) : Tail(q)[i] = q[i + 1]
  OBVIOUS
<1> QED
  BY <1>1 DEF Conn!ToSet

\* A constant list, and the handlers made for some sockets.
LEMMA AllAlike ==
  ASSUME NEW S, NEW m \in Nat, NEW f, f \in [1..m -> S]
  PROVE  f \in Seq(S) /\ Len(f) = m /\ \A i \in 1..m : f[i] \in S
<1>1. f \in Seq(S)
  BY SeqDef
<1>2. DOMAIN f = 1..m
  OBVIOUS
<1>3. Len(f) = m
  <2>1. Len(f) \in Nat /\ DOMAIN f = 1..Len(f)
    BY <1>1
  <2>2. 1..Len(f) = 1..m
    BY <1>2, <2>1
  <2>3. CASE m = 0
    <3>1. Len(f) \notin 1..m /\ (Len(f) >= 1 => Len(f) \in 1..Len(f))
      BY <2>1, <2>3
    <3> QED
      BY <2>1, <2>2, <2>3, <3>1
  <2>4. CASE m # 0
    <3>1. m \in 1..m /\ (Len(f) >= 1 => Len(f) \in 1..Len(f))
      BY <2>1, <2>4
    <3>2. m \in 1..Len(f) /\ Len(f) \in 1..m
      BY <2>1, <2>2, <3>1
    <3> QED
      BY <2>1, <3>2
  <2> QED
    BY <2>3, <2>4
<1> QED
  BY <1>1, <1>3

LEMMA JoinedLists ==
  ASSUME NEW S, NEW s \in Seq(S), NEW t \in Seq(S)
  PROVE  /\ s \o t \in Seq(S) /\ Len(s \o t) = Len(s) + Len(t)
         /\ \A i \in 1..Len(s) : (s \o t)[i] = s[i]
         /\ \A i \in 1..Len(t) : (s \o t)[Len(s) + i] = t[i]
<1>1. Len(s) \in Nat /\ Len(t) \in Nat
  OBVIOUS
<1>2. /\ s \o t \in Seq(S) /\ Len(s \o t) = Len(s) + Len(t)
      /\ \A i \in 1..(Len(s) + Len(t)) :
           (s \o t)[i] = IF i <= Len(s) THEN s[i] ELSE t[i - Len(s)]
  BY ConcatProperties
<1>3. ASSUME NEW i \in 1..Len(t) PROVE (s \o t)[Len(s) + i] = t[i]
  <2>1. Len(s) + i \in 1..(Len(s) + Len(t)) /\ ~(Len(s) + i <= Len(s)) /\ (Len(s) + i) - Len(s) = i
    BY <1>1
  <2> QED
    BY <1>2, <2>1
<1>4. ASSUME NEW i \in 1..Len(s) PROVE (s \o t)[i] = s[i]
  <2>1. i \in 1..(Len(s) + Len(t)) /\ i <= Len(s)
    BY <1>1
  <2> QED
    BY <1>2, <2>1
<1> QED
  BY <1>2, <1>3, <1>4

LEMMA OrdersAre ==
  ASSUME NEW order \in Conn!Orders
  PROVE  /\ order \in Seq(Conn!Sockets) /\ Len(order) \in 0..2 /\ DOMAIN order = 1..Len(order)
         /\ \A i \in 1..Len(order) : order[i] \in Conn!Sockets
         /\ OnceIn(order) /\ \A s : s \in Conn!ToSet(order) <=> \E i \in 1..Len(order) : s = order[i]
<1>1. order \in Seq(Conn!Sockets)
  <2> DEFINE S == {"modemd", "time"}
  <2>1. <<>> \in Seq(S) /\ <<"modemd">> \in Seq(S) /\ <<"time">> \in Seq(S)
    OBVIOUS
  <2>2. <<"modemd", "time">> \in Seq(S)
    OBVIOUS
  <2>3. <<"time", "modemd">> \in Seq(S)
    OBVIOUS
  <2> QED
    BY <2>1, <2>2, <2>3 DEF Conn!Orders, Conn!Sockets
<1>2. Len(order) \in 0..2
  BY DEF Conn!Orders, Conn!Sockets
<1>3. DOMAIN order = 1..Len(order)
  BY <1>1
<1>4. OnceIn(order)
  <2>1. CASE order \in {<<>>, <<"modemd">>, <<"time">>}
    <3>1. Len(order) \in 0..1
      BY <2>1
    <3> QED
      BY <3>1 DEF OnceIn
  <2>2. CASE order \in {<<"modemd", "time">>, <<"time", "modemd">>}
    <3>1. Len(order) = 2 /\ order[1] # order[2]
      BY <2>2
    <3> QED
      BY <3>1 DEF OnceIn
  <2> QED
    BY <2>1, <2>2 DEF Conn!Orders
<1>5. \A i \in 1..Len(order) : order[i] \in Conn!Sockets
  BY <1>1
<1>6. \A s : s \in Conn!ToSet(order) <=> \E i \in 1..Len(order) : s = order[i]
  BY <1>3 DEF Conn!ToSet
<1> QED
  BY <1>1, <1>2, <1>3, <1>4, <1>5, <1>6

LEMMA ListsGrow ==
  ASSUME ConnTypes, NEW order \in Conn!Orders, Conn!HandlersFor(order)
  PROVE  LET n == Len(kind)
             m == Len(order)
             r == Len(connRequests)
         IN  /\ n \in Nat /\ r \in Nat /\ m \in 0..2 /\ n + m <= MaxHandlers
             /\ kind' \in Seq(ConnKinds) /\ Len(kind') = n + m
             /\ \A h \in 1..n : kind'[h] = kind[h]
             /\ \A i \in 1..m : kind'[n + i] = order[i]
             /\ conn' \in Seq({"none", "open", "data", "eof"}) /\ Len(conn') = n + m
             /\ \A h \in 1..n : conn'[h] = conn[h]
             /\ connTold' \in Seq(Nat) /\ Len(connTold') = n + m
             /\ \A h \in 1..n : connTold'[h] = connTold[h]
             /\ connRequests' \in Seq(ConnRequest) /\ Len(connRequests') = r + m
             /\ \A i \in 1..r : connRequests'[i] = connRequests[i]
             /\ \A i \in 1..m : connRequests'[r + i] = [type |-> "register", h |-> n + i]
             /\ slot' \in [Conn!Sockets -> (1..(n + m)) \cup {0}]
             /\ \A s \in Conn!Sockets : s \notin Conn!ToSet(order) => slot'[s] = slot[s]
             /\ \A i \in 1..m : slot'[order[i]] = n + i
<1> DEFINE n == Len(kind)
           m == Len(order)
           r == Len(connRequests)
           opens == [i \in DOMAIN order |-> "open"]
           none == [i \in DOMAIN order |-> 0]
           asks == [i \in DOMAIN order |-> [type |-> "register", h |-> n + i]]
<1>1. /\ n \in Nat /\ r \in Nat /\ m \in Nat /\ DOMAIN order = 1..m /\ order \in Seq(Conn!Sockets)
      /\ kind \in Seq(ConnKinds) /\ connRequests \in Seq(ConnRequest) /\ connTold \in Seq(Nat)
      /\ conn \in Seq({"none", "open", "data", "eof"}) /\ Len(conn) = n /\ Len(connTold) = n
  BY OrdersAre DEF ConnTypes
<1>2. /\ kind' = kind \o order /\ conn' = conn \o opens /\ connTold' = connTold \o none
      /\ connRequests' = connRequests \o asks /\ n + m <= MaxHandlers
  BY DEF Conn!HandlersFor
<1>3. order \in Seq(ConnKinds)
  BY <1>1, SeqMonotonic DEF Conn!Sockets, ConnKinds
<1>4. /\ kind' \in Seq(ConnKinds) /\ Len(kind') = n + m
      /\ \A h \in 1..n : kind'[h] = kind[h]
      /\ \A i \in 1..m : kind'[n + i] = order[i]
  BY <1>1, <1>2, <1>3, JoinedLists
<1>5. /\ opens \in Seq({"none", "open", "data", "eof"}) /\ Len(opens) = m
  BY <1>1, AllAlike
<1>6. /\ none \in Seq(Nat) /\ Len(none) = m
  BY <1>1, AllAlike
<1>7. /\ asks \in Seq(ConnRequest) /\ Len(asks) = m /\ \A i \in 1..m : asks[i] = [type |-> "register", h |-> n + i]
  <2>1. asks \in [1..m -> ConnRequest]
    BY <1>1 DEF ConnRequest
  <2> QED
    BY <1>1, <2>1, AllAlike
<1> HIDE DEF opens, none, asks
<1>8. conn' \in Seq({"none", "open", "data", "eof"}) /\ Len(conn') = n + m
      /\ \A h \in 1..n : conn'[h] = conn[h]
  <2>1. conn \in Seq({"none", "open", "data", "eof"}) /\ opens \in Seq({"none", "open", "data", "eof"})
    BY <1>1, <1>5
  <2>2. /\ conn \o opens \in Seq({"none", "open", "data", "eof"}) /\ Len(conn \o opens) = Len(conn) + Len(opens)
        /\ \A h \in 1..Len(conn) : (conn \o opens)[h] = conn[h]
    BY <2>1, JoinedLists
  <2> QED
    BY <1>1, <1>2, <1>5, <2>2
<1>9. connTold' \in Seq(Nat) /\ Len(connTold') = n + m
      /\ \A h \in 1..n : connTold'[h] = connTold[h]
  <2>1. connTold \in Seq(Nat) /\ none \in Seq(Nat)
    BY <1>1, <1>6
  <2>2. /\ connTold \o none \in Seq(Nat) /\ Len(connTold \o none) = Len(connTold) + Len(none)
        /\ \A h \in 1..Len(connTold) : (connTold \o none)[h] = connTold[h]
    BY <2>1, JoinedLists
  <2> QED
    BY <1>1, <1>2, <1>6, <2>2
<1>10. /\ connRequests' \in Seq(ConnRequest) /\ Len(connRequests') = r + m
       /\ \A i \in 1..r : connRequests'[i] = connRequests[i]
       /\ \A i \in 1..m : connRequests'[r + i] = asks[i]
  <2>1. connRequests \in Seq(ConnRequest) /\ asks \in Seq(ConnRequest)
    BY <1>1, <1>7
  <2>2. /\ connRequests \o asks \in Seq(ConnRequest)
        /\ Len(connRequests \o asks) = Len(connRequests) + Len(asks)
        /\ \A i \in 1..Len(connRequests) : (connRequests \o asks)[i] = connRequests[i]
        /\ \A i \in 1..Len(asks) : (connRequests \o asks)[Len(connRequests) + i] = asks[i]
    BY <2>1, JoinedLists
  <2> QED
    BY <1>1, <1>2, <1>7, <2>2
<1>11. /\ slot' \in [Conn!Sockets -> (1..(n + m)) \cup {0}]
       /\ \A s \in Conn!Sockets : s \notin Conn!ToSet(order) => slot'[s] = slot[s]
       /\ \A i \in 1..m : slot'[order[i]] = n + i
  <2> DEFINE id(s) == n + CHOOSE i \in DOMAIN order : order[i] = s
  <2>1. slot' = [s \in Conn!Sockets |-> IF s \in Conn!ToSet(order) THEN id(s) ELSE slot[s]]
    BY DEF Conn!HandlersFor
  <2>2. ASSUME NEW i \in 1..m PROVE (CHOOSE j \in DOMAIN order : order[j] = order[i]) = i
    <3> DEFINE c == CHOOSE j \in DOMAIN order : order[j] = order[i]
    <3>1. c \in DOMAIN order /\ order[c] = order[i]
      BY <1>1
    <3> QED
      BY <1>1, <3>1, OrdersAre DEF OnceIn
  <2>3. \A i \in 1..m : id(order[i]) = n + i
    BY <2>2
  <2> HIDE DEF id
  <2>4. \A s \in Conn!Sockets : slot[s] \in (1..n) \cup {0}
    BY DEF ConnTypes, Conn!None
  <2>5. ASSUME NEW s \in Conn!Sockets PROVE slot'[s] \in (1..(n + m)) \cup {0}
    <3>1. CASE s \notin Conn!ToSet(order)
      BY <1>1, <2>1, <2>4, <3>1
    <3>2. CASE s \in Conn!ToSet(order)
      <4> PICK i \in 1..m : s = order[i]
        BY <3>2, OrdersAre
      <4> QED
        BY <1>1, <2>1, <2>3, <3>2
    <3> QED
      BY <3>1, <3>2
  <2>6. ASSUME NEW i \in 1..m PROVE slot'[order[i]] = n + i
    <3>1. order[i] \in Conn!Sockets /\ order[i] \in Conn!ToSet(order)
      BY OrdersAre
    <3> QED
      BY <2>1, <2>3, <3>1
  <2> QED
    BY <2>1, <2>5, <2>6
<1>12. m \in 0..2
  BY OrdersAre
<1> QED
  BY <1>1, <1>2, <1>4, <1>7, <1>8, <1>9, <1>10, <1>11, <1>12

\* The handler that is waited for is one there is.
LEMMA ClosingIs ==
  ASSUME ConnInv
  PROVE  /\ Len(kind) \in Nat /\ closing.h \in 0..Len(kind) /\ closing.s \in Conn!Sockets \cup {"none"}
         /\ \A i \in 1..Len(connRequests) :
              connRequests[i].h \in 0..Len(kind) /\ (Unregisters(i) <=> ~Registers(i))
<1>1. ConnTypes /\ ConnAsked /\ ConnOrder
  BY DEF ConnInv
<1>2. Len(kind) \in Nat
  BY <1>1 DEF ConnTypes
<1>3. closing.h \in 0..Len(kind)
  BY <1>1, <1>2 DEF ConnTypes, ConnAsked, Conn!NoClose, Conn!None
<1>4. closing.s \in Conn!Sockets \cup {"none"}
  BY <1>1 DEF ConnTypes, Conn!NoClose
<1>5. ASSUME NEW i \in 1..Len(connRequests)
      PROVE  connRequests[i].h \in 0..Len(kind) /\ (Unregisters(i) <=> ~Registers(i))
  <2>1. connRequests[i] \in ConnRequest
    BY <1>1 DEF ConnTypes
  <2>2. connRequests[i].type \in {"register", "unregister"} /\ connRequests[i].h \in Nat
    BY <2>1 DEF ConnRequest
  <2>3. Unregisters(i) <=> ~Registers(i)
    BY <2>2 DEF Unregisters, Registers
  <2>4. Unregisters(i) => connRequests[i].h \in 0..Len(kind)
    BY <1>1, <1>2, <1>3 DEF ConnAsked, Conn!None
  <2>5. Registers(i) => connRequests[i].h \in 0..Len(kind)
    BY <1>1, <1>2 DEF ConnOrder
  <2> QED
    BY <2>3, <2>4, <2>5
<1> QED
  BY <1>2, <1>3, <1>4, <1>5

LEMMA HandlersMade ==
  ASSUME ConnInv, NEW order \in Conn!Orders, Conn!HandlersFor(order),
         \A i \in 1..Len(order) : slot[order[i]] = Conn!None,
         UNCHANGED <<gone, handlerTimers, answers, closing, polling_hdl, current, ready, phase,
                     dueHandlers, misused, revived>>,
         sockets' = sockets \ Conn!ToSet(order), timers' \in 0..MaxTimers, due' \in Nat,
         due' <= timers', sockets' # {} => timers' > 0
  PROVE  ConnInv'
<1> DEFINE n == Len(kind)
           m == Len(order)
           r == Len(connRequests)
<1>0. /\ ConnTypes /\ ConnSlots /\ ConnGone /\ ConnAsked /\ ConnOrder /\ ConnDone
      /\ OnceIn(polling_hdl)
  BY DEF ConnInv
<1>1. /\ n \in Nat /\ r \in Nat /\ m \in 0..2 /\ n + m <= MaxHandlers
      /\ kind' \in Seq(ConnKinds) /\ Len(kind') = n + m
      /\ \A h \in 1..n : kind'[h] = kind[h]
      /\ \A i \in 1..m : kind'[n + i] = order[i]
      /\ conn' \in Seq({"none", "open", "data", "eof"}) /\ Len(conn') = n + m
      /\ \A h \in 1..n : conn'[h] = conn[h]
      /\ connTold' \in Seq(Nat) /\ Len(connTold') = n + m
      /\ \A h \in 1..n : connTold'[h] = connTold[h]
      /\ connRequests' \in Seq(ConnRequest) /\ Len(connRequests') = r + m
      /\ \A i \in 1..r : connRequests'[i] = connRequests[i]
      /\ \A i \in 1..m : connRequests'[r + i] = [type |-> "register", h |-> n + i]
      /\ slot' \in [Conn!Sockets -> (1..(n + m)) \cup {0}]
      /\ \A s \in Conn!Sockets : s \notin Conn!ToSet(order) => slot'[s] = slot[s]
      /\ \A i \in 1..m : slot'[order[i]] = n + i
  BY <1>0, ListsGrow
<1>2. /\ \A i \in 1..m : order[i] \in Conn!Sockets
      /\ \A s : s \in Conn!ToSet(order) <=> \E i \in 1..m : s = order[i]
  BY OrdersAre
<1>3. closing.h \in 0..n /\ \A i \in 1..r : connRequests[i].h \in 0..n
  BY ClosingIs
<1>4. /\ gone \subseteq 1..n /\ handlerTimers \subseteq 1..n /\ sockets \subseteq Conn!Sockets
      /\ slot \in [Conn!Sockets -> (1..n) \cup {0}]
  BY <1>0 DEF ConnTypes, Conn!None
<1> HIDE DEF n, m, r
<1>5. \A i \in 1..(r + m) : i \in 1..r \/ \E k \in 1..m : i = r + k
  <2> SUFFICES ASSUME NEW i \in 1..(r + m), i \notin 1..r PROVE \E k \in 1..m : i = r + k
    OBVIOUS
  <2>1. i - r \in 1..m /\ i = r + (i - r)
    BY <1>1
  <2> QED
    BY <2>1
<1>6. \A i \in 1..(n + m) : i \in 1..n \/ \E k \in 1..m : i = n + k
  <2> SUFFICES ASSUME NEW i \in 1..(n + m), i \notin 1..n PROVE \E k \in 1..m : i = n + k
    OBVIOUS
  <2>1. i - n \in 1..m /\ i = n + (i - n)
    BY <1>1
  <2> QED
    BY <2>1
<1>7. ConnTypes'
  <2>1. gone' \subseteq 1..(n + m) /\ handlerTimers' \subseteq 1..(n + m)
    BY <1>1, <1>4
  <2> QED
    BY <1>0, <1>1, <1>4, <2>1 DEF ConnTypes, Conn!None
<1>8. ConnSlots'
  <2>1. ASSUME NEW s \in Conn!Sockets, slot'[s] # 0
        PROVE  kind'[slot'[s]] = s /\ slot'[s] \notin gone' /\ s \notin sockets'
    <3>1. CASE s \in Conn!ToSet(order)
      <4> PICK i \in 1..m : s = order[i]
        BY <1>2, <3>1
      <4>1. slot'[s] = n + i /\ kind'[n + i] = s
        BY <1>1
      <4>2. n + i \notin 1..n
        BY <1>1
      <4> QED
        BY <1>4, <3>1, <4>1, <4>2
    <3>2. CASE s \notin Conn!ToSet(order)
      <4>1. slot'[s] = slot[s] /\ slot[s] \in 1..n
        BY <1>1, <1>4, <2>1, <3>2
      <4> QED
        BY <1>0, <1>1, <4>1, SMTT(30) DEF ConnSlots, Conn!None
    <3> QED
      BY <3>1, <3>2
  <2> QED
    BY <2>1 DEF ConnSlots, Conn!None
<1>9. ConnGone'
  <2>1. \A h \in gone' : conn'[h] = "none"
    BY <1>0, <1>1, <1>4 DEF ConnGone
  <2>2. \A h \in handlerTimers' : kind'[h] = "modemd" /\ h \notin gone'
    BY <1>0, <1>1, <1>4 DEF ConnGone
  <2>3. phase' # "timers" => dueHandlers' = {}
    BY <1>0 DEF ConnGone
  <2>4. ASSUME NEW h \in 1..(n + m), kind'[h] = "client"
        PROVE  connTold'[h] = IF h \in gone' THEN 1 ELSE 0
    <3>1. CASE h \in 1..n
      BY <1>0, <1>1, <2>4, <3>1 DEF ConnGone, n
    <3>2. ASSUME NEW k \in 1..m, h = n + k PROVE FALSE
      BY <1>1, <1>2, <2>4, <3>2 DEF Conn!Sockets
    <3> QED
      BY <1>6, <3>1, <3>2
  <2> QED
    BY <1>1, <2>1, <2>2, <2>3, <2>4 DEF ConnGone
<1>16. /\ \A i \in 1..r : connRequests'[i] = connRequests[i]
       /\ \A k \in 1..m : connRequests'[r + k].type = "register" /\ connRequests'[r + k].h = n + k
  <2>1. /\ \A i \in 1..r : connRequests'[i] = connRequests[i]
        /\ \A k \in 1..m : connRequests'[r + k] = [type |-> "register", h |-> n + k]
    BY <1>1
  <2>2. ASSUME NEW k \in 1..m
        PROVE  connRequests'[r + k].type = "register" /\ connRequests'[r + k].h = n + k
    <3>1. connRequests'[r + k] = [type |-> "register", h |-> n + k]
      BY <2>1
    <3> QED
      BY <3>1
  <2> QED
    BY <2>1, <2>2
<1>10. \A i \in 1..(r + m) : /\ Unregisters(i)' => i \in 1..r /\ Unregisters(i)
                             /\ i \in 1..r => connRequests'[i] = connRequests[i]
  BY <1>5, <1>16 DEF Unregisters
<1>11. ConnAsked'
  <2>1. \A i \in 1..r : Unregisters(i)' <=> Unregisters(i)
    BY <1>1 DEF Unregisters
  <2>2. \A i \in 1..(r + m) : Unregisters(i)' => connRequests'[i].h \in {Conn!None, closing'.h}
    BY <1>0, <1>10 DEF ConnAsked, r
  <2>3. closing'.h = Conn!None => answers' = 0
    BY <1>0 DEF ConnAsked
  <2>4. ASSUME closing.h # Conn!None
        PROVE  /\ closing.s \in Conn!Sockets /\ slot'[closing.s] = closing.h
               /\ answers = 1 => \A i \in 1..(r + m) : Unregisters(i)' => connRequests'[i].h # closing.h
               /\ answers = 0 => \E i \in 1..(r + m) : \A j \in 1..(r + m) :
                                   Unregisters(j)' /\ connRequests'[j].h = closing.h <=> j = i
    <3>1. closing.s \in Conn!Sockets /\ slot[closing.s] = closing.h
      BY <1>0, <2>4 DEF ConnAsked
    <3>2. closing.s \notin Conn!ToSet(order)
      BY <1>2, <2>4, <3>1 DEF m
    <3>3. answers = 1 => \A i \in 1..(r + m) : Unregisters(i)' => connRequests'[i].h # closing.h
      BY <1>0, <1>10, <2>4 DEF ConnAsked, r
    <3>4. ASSUME answers = 0
          PROVE  \E i \in 1..(r + m) : \A j \in 1..(r + m) :
                   Unregisters(j)' /\ connRequests'[j].h = closing.h <=> j = i
      <4> PICK i \in 1..r : \A j \in 1..r : Unregisters(j) /\ connRequests[j].h = closing.h <=> j = i
        BY <1>0, <2>4, <3>4 DEF ConnAsked, r
      <4>1. i \in 1..(r + m)
        BY <1>1
      <4> QED
        BY <1>10, <2>1, <4>1
    <3> QED
      BY <1>1, <3>1, <3>2, <3>3, <3>4
  <2> QED
    BY <1>1, <2>2, <2>3, <2>4 DEF ConnAsked
<1>12. \A i \in 1..(r + m) : Registers(i)' =>
         \/ i \in 1..r /\ Registers(i) /\ connRequests'[i].h = connRequests[i].h
         \/ \E k \in 1..m : i = r + k /\ connRequests'[i].h = n + k
  BY <1>5, <1>16 DEF Registers
<1>13. ConnOrder'
  <2>1. ASSUME NEW i \in 1..(r + m), Registers(i)'
        PROVE  /\ connRequests'[i].h \in 1..(n + m) /\ kind'[connRequests'[i].h] \in Conn!Sockets
               /\ connRequests'[i].h \in gone' => connRequests'[i].h \in revived'
    <3>1. CASE i \in 1..r /\ Registers(i) /\ connRequests'[i].h = connRequests[i].h
      <4>1. /\ connRequests[i].h \in 1..n /\ kind[connRequests[i].h] \in Conn!Sockets
            /\ connRequests[i].h \in gone => connRequests[i].h \in revived
        BY <1>0, <3>1 DEF ConnOrder, r, n
      <4>2. connRequests[i].h \in 1..(n + m)
        BY <1>1, <4>1
      <4> QED
        BY <1>1, <3>1, <4>1, <4>2, SMTT(30)
    <3>2. ASSUME NEW k \in 1..m, connRequests'[i].h = n + k
          PROVE  /\ n + k \in 1..(n + m) /\ kind'[n + k] \in Conn!Sockets /\ n + k \notin gone
      <4>1. n \in Nat /\ m \in 0..2
        BY <1>1
      <4>2. n + k \in 1..(n + m) /\ n + k \notin 1..n
        BY <4>1
      <4>3. kind'[n + k] \in Conn!Sockets
        BY <1>1, <1>2
      <4> QED
        BY <1>4, <4>2, <4>3
    <3> QED
      BY <1>12, <2>1, <3>1, <3>2
  <2>2. ASSUME NEW i \in 1..(r + m), NEW j \in 1..(r + m), Unregisters(i)', Registers(j)',
               connRequests'[i].h = connRequests'[j].h
        PROVE  j < i
    <3>1. i \in 1..r /\ Unregisters(i) /\ connRequests'[i].h = connRequests[i].h
      BY <1>10, <2>2
    <3>2. CASE j \in 1..r /\ Registers(j) /\ connRequests'[j].h = connRequests[j].h
      BY <1>0, <2>2, <3>1, <3>2 DEF ConnOrder, r
    <3>3. ASSUME NEW k \in 1..m, connRequests'[j].h = n + k PROVE FALSE
      <4>1. n + k \in 0..n
        BY <1>3, <2>2, <3>1, <3>3
      <4> QED
        BY <1>1, <4>1
    <3> QED
      BY <1>12, <2>2, <3>2, <3>3
  <2> QED
    BY <1>1, <2>1, <2>2 DEF ConnOrder
<1>14. ConnDone'
  <2>1. ASSUME LetGo(closing.h) PROVE LetGo(closing.h)'
    <3>1. ASSUME NEW i \in 1..(r + m), Registers(i)' PROVE connRequests'[i].h # closing.h
      <4>1. CASE i \in 1..r /\ Registers(i) /\ connRequests'[i].h = connRequests[i].h
        BY <2>1, <4>1 DEF LetGo, r
      <4>2. ASSUME NEW k \in 1..m, connRequests'[i].h = n + k PROVE connRequests'[i].h # closing.h
        BY <1>1, <1>3, <4>2, SMTT(30)
      <4> QED
        BY <1>12, <3>1, <4>1, <4>2
    <3> QED
      BY <1>1, <2>1, <3>1 DEF LetGo
  <2> QED
    BY <1>0, <2>1 DEF ConnDone
<1>15. OnceIn(polling_hdl)'
  BY <1>0 DEF OnceIn
<1> QED
  BY <1>7, <1>8, <1>9, <1>11, <1>13, <1>14, <1>15 DEF ConnInv

LEMMA SocketConnectStep ==
  ASSUME ConnInv, NEW s \in Conn!Sockets, Conn!SocketConnect(s)
  PROVE  ConnInv'
<1>0. /\ ConnTypes /\ ConnSlots /\ ConnGone /\ ConnAsked /\ ConnOrder /\ ConnDone
      /\ OnceIn(polling_hdl)
  BY DEF ConnInv
<1>1. CASE Conn!HandlersFor(<<s>>) /\ UNCHANGED <<sockets, timers>>
  <2> DEFINE order == <<s>>
  <2>1. order \in Conn!Orders
    BY DEF Conn!Orders, Conn!Sockets
  <2>2. Len(order) = 1 /\ order[1] = s /\ Conn!ToSet(order) = {s}
    BY DEF Conn!ToSet
  <2>3. \A i \in 1..Len(order) : slot[order[i]] = Conn!None
    BY <2>2 DEF Conn!SocketConnect
  <2>4. sockets' = sockets \ Conn!ToSet(order)
    BY <1>1, <2>2 DEF Conn!SocketConnect
  <2>5. UNCHANGED <<gone, handlerTimers, answers, closing, polling_hdl, current, ready, phase, due,
                    dueHandlers, misused, revived>>
    BY DEF Conn!SocketConnect, Conn!loopVars
  <2>6. timers' \in 0..MaxTimers /\ due' \in Nat /\ due' <= timers' /\ (sockets' # {} => timers' > 0)
    BY <1>0, <1>1, <2>5 DEF ConnTypes, ConnSlots
  <2> HIDE DEF order
  <2>7. Conn!HandlersFor(order)
    BY <1>1 DEF order
  <2> QED
    BY <2>1, <2>3, <2>4, <2>5, <2>6, <2>7, HandlersMade
<1>2. CASE /\ timers < MaxTimers /\ timers' = timers + 1 /\ sockets' = sockets \cup {s}
           /\ UNCHANGED <<kind, conn, connTold, slot, connRequests>>
  <2>1. /\ UNCHANGED <<gone, handlerTimers, answers, closing, polling_hdl, current, ready, phase, due,
                       dueHandlers, misused, revived>>
        /\ slot[s] = Conn!None
    BY DEF Conn!SocketConnect, Conn!loopVars
  <2>2. timers' \in 0..MaxTimers /\ due' <= timers' /\ timers' > 0
    BY <1>0, <1>2, <2>1, Bounds DEF ConnTypes, ConnSlots
  <2>3. ConnTypes'
    BY <1>0, <1>2, <2>1, <2>2 DEF ConnTypes
  <2>4. ConnSlots'
    BY <1>0, <1>2, <2>1, <2>2 DEF ConnSlots
  <2>5. ConnGone' /\ ConnAsked' /\ ConnOrder' /\ ConnDone' /\ OnceIn(polling_hdl)'
    BY <1>0, <1>2, <2>1
    DEF ConnGone, ConnAsked, ConnOrder, ConnDone, OnceIn, LetGo, Unregisters, Registers
  <2> QED
    BY <2>3, <2>4, <2>5 DEF ConnInv
<1> QED
  BY <1>1, <1>2 DEF Conn!SocketConnect

LEMMA SocketReconnectStep == ASSUME ConnInv, Conn!SocketReconnect PROVE ConnInv'
<1>0. ConnTypes /\ ConnSlots
  BY DEF ConnInv
<1> PICK open \in Conn!Orders :
       /\ Conn!ToSet(open) \subseteq sockets
       /\ Conn!HandlersFor(open) /\ sockets' = sockets \ Conn!ToSet(open)
       /\ timers' = Conn!NewTimers(sockets \ Conn!ToSet(open)) /\ timers' <= MaxTimers
  BY DEF Conn!SocketReconnect
<1>1. \A i \in 1..Len(open) : slot[open[i]] = Conn!None
  <2>1. \A i \in 1..Len(open) : open[i] \in Conn!ToSet(open) /\ open[i] \in Conn!Sockets
    BY OrdersAre
  <2> QED
    BY <1>0, <2>1 DEF ConnSlots
<1>2. /\ UNCHANGED <<gone, handlerTimers, answers, closing, polling_hdl, current, ready, phase,
                     dueHandlers, misused, revived>>
      /\ due > 0 /\ due' = due - 1
  BY DEF Conn!SocketReconnect
<1>3. IsFiniteSet(sockets') /\ Cardinality(sockets') \in Nat
      /\ (sockets' # {} => Cardinality(sockets') > 0)
  <2>1. IsFiniteSet(Conn!Sockets)
    <3>1. IsFiniteSet({"modemd"}) /\ Conn!Sockets = {"modemd"} \cup {"time"}
      BY FS_Singleton DEF Conn!Sockets
    <3> QED
      BY <3>1, FS_AddElement
  <2>2. IsFiniteSet(sockets')
    BY <1>0, <2>1, FS_Subset DEF ConnTypes
  <2> QED
    BY <2>2, FS_CardinalityType, FS_EmptySet
<1>4. timers' = timers - 1 + Cardinality(sockets')
  <2>1. Conn!Cardinality(sockets') = Cardinality(sockets')
    BY DEF Conn!Cardinality, Cardinality
  <2>2. timers' = timers - 1 + Conn!Cardinality(sockets')
    BY DEF Conn!NewTimers
  <2> QED
    BY <2>1, <2>2
<1>5. due \in Nat /\ timers \in Nat /\ due <= timers
  BY <1>0 DEF ConnTypes, ConnSlots
<1>6. due' \in Nat /\ timers' \in Nat /\ due' <= timers' /\ (sockets' # {} => timers' > 0)
  BY <1>2, <1>3, <1>4, <1>5
<1>7. timers' \in 0..MaxTimers
  BY <1>6, Bounds
<1> QED
  BY <1>1, <1>2, <1>6, <1>7, HandlersMade

LEMMA SocketCloseStep ==
  ASSUME ConnInv, NEW s \in Conn!Sockets, Conn!SocketClose(s)
  PROVE  ConnInv'
<1> DEFINE r == Len(connRequests)
           h == slot[s]
           q == Append(connRequests, [type |-> "unregister", h |-> slot[s]])
<1>0. /\ ConnTypes /\ ConnSlots /\ ConnGone /\ ConnAsked /\ ConnOrder /\ ConnDone
      /\ OnceIn(polling_hdl)
  BY DEF ConnInv
<1>1. /\ UNCHANGED <<slot, kind, conn, gone, sockets, timers, handlerTimers, answers, polling_hdl,
                     current, ready, phase, due, dueHandlers, connTold, misused, revived>>
      /\ connRequests' = q /\ closing' = [s |-> s, h |-> slot[s]] /\ closing = Conn!NoClose
  BY DEF Conn!SocketClose, Conn!loopVars, Conn!worldVars
<1>2. h \in Nat /\ h \in 0..Len(kind) /\ r \in Nat /\ connRequests \in Seq(ConnRequest)
  BY <1>0 DEF ConnTypes, Conn!None
<1>3. closing'.s = s /\ closing'.h = h /\ closing' \in [s : Conn!Sockets, h : Nat]
  BY <1>1, <1>2
<1>4. /\ q \in Seq(ConnRequest) /\ Len(q) = r + 1
      /\ \A i \in 1..r : q[i] = connRequests[i]
      /\ q[r + 1].type = "unregister" /\ q[r + 1].h = h
  <2>1. [type |-> "unregister", h |-> slot[s]] \in ConnRequest
    BY <1>2 DEF ConnRequest
  <2> QED
    BY <1>2, <2>1
<1>5. answers = 0 /\ \A i \in 1..r : Unregisters(i) => connRequests[i].h = Conn!None
  BY <1>0, <1>1 DEF ConnAsked, Conn!NoClose, Conn!None
<1> HIDE DEF q, h
<1>6. \A i \in 1..(r + 1) : i \in 1..r \/ i = r + 1
  BY <1>2
<1>7. \A i \in 1..r : i \in 1..(r + 1) /\ i < r + 1
  BY <1>2
<1>8. \A i \in 1..(r + 1) : (Registers(i)' <=> i \in 1..r /\ Registers(i))
                            /\ (Unregisters(i)' <=> i = r + 1 \/ (i \in 1..r /\ Unregisters(i)))
  BY <1>1, <1>4, <1>6, <1>7 DEF Registers, Unregisters
<1>9. \A i \in 1..r : connRequests'[i].h = connRequests[i].h
  BY <1>1, <1>4
<1>10. Len(connRequests') = r + 1 /\ connRequests'[r + 1].h = h
  BY <1>1, <1>4
<1> HIDE DEF r
<1>11. ConnTypes'
  BY <1>0, <1>1, <1>3, <1>4 DEF ConnTypes
<1>12. ConnSlots' /\ ConnGone' /\ OnceIn(polling_hdl)'
  BY <1>0, <1>1 DEF ConnSlots, ConnGone, OnceIn
<1>13. ConnAsked'
  <2>1. \A i \in 1..(r + 1) : Unregisters(i)' => connRequests'[i].h \in {Conn!None, h}
    BY <1>5, <1>8, <1>9, <1>10
  <2>2. ASSUME h # Conn!None
        PROVE  \E i \in 1..(r + 1) : \A j \in 1..(r + 1) :
                 Unregisters(j)' /\ connRequests'[j].h = h <=> j = i
    <3>1. r + 1 \in 1..(r + 1)
      BY <1>2
    <3>2. \A j \in 1..(r + 1) : Unregisters(j)' /\ connRequests'[j].h = h <=> j = r + 1
      BY <1>5, <1>6, <1>8, <1>9, <1>10, <2>2
    <3> QED
      BY <3>1, <3>2
  <2>3. slot'[closing'.s] = closing'.h
    BY <1>1, <1>3 DEF h
  <2> QED
    BY <1>1, <1>3, <1>5, <1>10, <2>1, <2>2, <2>3 DEF ConnAsked
<1>14. ConnOrder'
  <2>1. \A i \in 1..(r + 1) : Registers(i)' =>
          /\ connRequests'[i].h \in 1..Len(kind) /\ kind[connRequests'[i].h] \in Conn!Sockets
          /\ connRequests'[i].h \in gone => connRequests'[i].h \in revived
    BY <1>0, <1>8, <1>9 DEF ConnOrder, r
  <2>2. ASSUME NEW i \in 1..(r + 1), NEW j \in 1..(r + 1), Unregisters(i)', Registers(j)',
               connRequests'[i].h = connRequests'[j].h
        PROVE  j < i
    <3>1. j \in 1..r /\ Registers(j) /\ j < r + 1
      BY <1>7, <1>8, <2>2
    <3>2. CASE i \in 1..r /\ Unregisters(i)
      BY <1>0, <1>9, <2>2, <3>1, <3>2 DEF ConnOrder, r
    <3> QED
      BY <1>8, <2>2, <3>1, <3>2
  <2> QED
    BY <1>1, <1>10, <2>1, <2>2 DEF ConnOrder
<1>15. ConnDone'
  BY <1>0, <1>1, <1>5 DEF ConnDone
<1> QED
  BY <1>11, <1>12, <1>13, <1>14, <1>15 DEF ConnInv

\* A step that leaves sockets, slots, requests and answers alone.
LEMMA LoopStep ==
  ASSUME ConnInv, ConnTypes',
         UNCHANGED <<slot, kind, gone, sockets, timers, answers, closing, connRequests, connTold,
                     revived>>,
         due' <= due, \A x \in gone : conn'[x] = "none",
         \A x \in handlerTimers' : kind[x] = "modemd" /\ x \notin gone,
         phase' # "timers" => dueHandlers' = {},
         LetGo(closing.h) => LetGo(closing.h)',
         gone \cap (ready' \cup Conn!ToSet(polling_hdl')) \subseteq revived,
         misused' \subseteq gone \cap revived, OnceIn(polling_hdl')
  PROVE  ConnInv'
<1>0. /\ ConnTypes /\ ConnSlots /\ ConnGone /\ ConnAsked /\ ConnOrder /\ ConnDone
  BY DEF ConnInv
<1>1. due \in Nat /\ due' \in Nat /\ timers \in Nat /\ due' <= timers'
  BY <1>0 DEF ConnTypes, ConnSlots
<1>2. ConnSlots'
  BY <1>0, <1>1 DEF ConnSlots
<1>3. ConnGone'
  BY <1>0 DEF ConnGone
<1>4. ConnAsked' /\ ConnOrder'
  BY <1>0 DEF ConnAsked, ConnOrder, Unregisters, Registers
<1>5. ConnDone'
  BY <1>0 DEF ConnDone
<1>6. OnceIn(polling_hdl)'
  OBVIOUS
<1> QED
  BY <1>2, <1>3, <1>4, <1>5, <1>6 DEF ConnInv

LEMMA PrepareStep == ASSUME ConnInv, Conn!Prepare PROVE ConnInv'
<1>0. ConnTypes /\ ConnGone /\ ConnDone /\ OnceIn(polling_hdl)
  BY DEF ConnInv
<1>1. /\ UNCHANGED <<slot, kind, conn, gone, sockets, timers, handlerTimers, connRequests, answers,
                     closing, polling_hdl, due, dueHandlers, connTold, revived>>
      /\ phase = "prepare" /\ phase' = "poll" /\ current' = polling_hdl /\ ready' = {}
      /\ misused' = misused \cup (Conn!ToSet(polling_hdl) \cap gone)
  BY DEF Conn!Prepare
<1>2. ConnTypes'
  BY <1>0, <1>1 DEF ConnTypes
<1>3. LetGo(closing.h) => LetGo(closing.h)'
  BY <1>1 DEF LetGo, Registers
<1>4. /\ gone \cap (ready' \cup Conn!ToSet(polling_hdl')) \subseteq revived
      /\ misused' \subseteq gone \cap revived
  BY <1>0, <1>1 DEF ConnDone
<1>5. /\ \A x \in gone : conn'[x] = "none" /\ due' <= due
      /\ \A x \in handlerTimers' : kind[x] = "modemd" /\ x \notin gone
      /\ dueHandlers' = {}
  BY <1>0, <1>1 DEF ConnGone, ConnTypes
<1>6. due' <= due
  BY <1>0, <1>1 DEF ConnTypes
<1> QED
  BY <1>0, <1>1, <1>2, <1>3, <1>4, <1>5, <1>6, LoopStep

LEMMA PollStep == ASSUME ConnInv, Conn!Poll PROVE ConnInv'
<1>0. /\ ConnTypes /\ ConnSlots /\ ConnGone /\ ConnAsked /\ ConnOrder /\ ConnDone
      /\ OnceIn(polling_hdl)
  BY DEF ConnInv
<1>1. /\ UNCHANGED <<slot, kind, conn, gone, sockets, timers, handlerTimers, connRequests, answers,
                     closing, polling_hdl, current, connTold, revived, misused>>
      /\ phase = "poll" /\ phase' = "timers" /\ due' \in 0..timers
      /\ ready' = {h \in Conn!ToSet(current) : Conn!Readable(h)}
      /\ dueHandlers' \in SUBSET handlerTimers
  BY DEF Conn!Poll, Conn!worldVars
<1>2. ready' \subseteq Int
  <2>1. Conn!ToSet(current) \subseteq Int
    BY <1>0 DEF Conn!ToSet, ConnTypes
  <2> QED
    BY <1>1, <2>1
<1>3. due' \in Nat /\ timers' \in Nat /\ due' <= timers'
  BY <1>0, <1>1 DEF ConnTypes
<1>4. ConnTypes'
  BY <1>0, <1>1, <1>2, <1>3 DEF ConnTypes
<1>5. gone \cap ready' = {}
  <2>1. ASSUME NEW h \in gone, Conn!Readable(h) PROVE FALSE
    <3>1. conn[h] = "none" /\ h \in 1..Len(kind) /\ Len(kind) \in Nat
      BY <1>0 DEF ConnGone, ConnTypes
    <3>2. h # Conn!ClientManager /\ h # Conn!RequestsManager
      BY <3>1 DEF Conn!ClientManager, Conn!RequestsManager
    <3> QED
      BY <2>1, <3>1, <3>2 DEF Conn!Readable
  <2> QED
    BY <1>1, <2>1
<1>6. ConnSlots'
  BY <1>0, <1>1, <1>3 DEF ConnSlots
<1>7. ConnGone'
  BY <1>0, <1>1 DEF ConnGone
<1>8. ConnAsked' /\ ConnOrder' /\ OnceIn(polling_hdl)'
  BY <1>0, <1>1 DEF ConnAsked, ConnOrder, Unregisters, Registers, OnceIn
<1>9. LetGo(closing.h) => LetGo(closing.h)'
  BY <1>1 DEF LetGo, Registers
<1>10. ConnDone'
  BY <1>0, <1>1, <1>5, <1>9 DEF ConnDone
<1> QED
  BY <1>4, <1>6, <1>7, <1>8, <1>10 DEF ConnInv

\* A handler that the daemon works for is not one it has let go.
LEMMA ReconnectsStep ==
  ASSUME ConnInv, NEW h \in (ready \cup handlerTimers) \cap (1..Len(kind)), h \notin gone,
         kind[h] = "modemd", Conn!Reconnects(h),
         UNCHANGED <<slot, kind, gone, sockets, timers, connRequests, answers, closing, ready, phase,
                     due, connTold, misused, revived>>,
         current' \in Seq(Int), phase # "poll", dueHandlers' = dueHandlers \ {h}
  PROVE  ConnInv'
<1>0. /\ ConnTypes /\ ConnGone /\ ConnDone /\ OnceIn(polling_hdl)
  BY DEF ConnInv
<1>1. /\ polling_hdl \in Seq(Int) /\ h \in Int /\ Len(kind) \in Nat
      /\ conn \in Seq({"none", "open", "data", "eof"}) /\ h \in 1..Len(conn)
  BY <1>0 DEF ConnTypes
<1> DEFINE w == Conn!Without(polling_hdl, h)
<1>2. w \in Seq(Int) /\ OnceIn(w) /\ Conn!ToSet(w) = Conn!ToSet(polling_hdl) \ {h}
  BY <1>0, <1>1, WithoutOne
<1> HIDE DEF w
<1>3. /\ Append(w, h) \in Seq(Int) /\ OnceIn(Append(w, h))
      /\ Conn!ToSet(Append(w, h)) = Conn!ToSet(w) \cup {h}
  BY <1>1, <1>2, OneAtEnd
<1>4. /\ polling_hdl' \in Seq(Int) /\ OnceIn(polling_hdl')
      /\ Conn!ToSet(polling_hdl') \subseteq Conn!ToSet(polling_hdl) \cup {h}
      /\ handlerTimers' \subseteq handlerTimers \cup {h}
      /\ \E c \in {"open", "none"} : conn' = [conn EXCEPT ![h] = c]
      /\ dueHandlers' \subseteq handlerTimers'
  <2>1. CASE /\ conn' = [conn EXCEPT ![h] = "open"] /\ polling_hdl' = Append(w, h)
             /\ handlerTimers' = handlerTimers \ {h}
    BY <1>0, <1>2, <1>3, <2>1 DEF ConnTypes
  <2>2. CASE /\ conn' = [conn EXCEPT ![h] = "none"] /\ polling_hdl' = w
             /\ handlerTimers' = handlerTimers \cup {h}
    BY <1>0, <1>2, <2>2 DEF ConnTypes
  <2>3. CASE /\ conn' = [conn EXCEPT ![h] = "none"] /\ polling_hdl' = w
             /\ handlerTimers' = handlerTimers \ {h}
    BY <1>0, <1>2, <2>3 DEF ConnTypes
  <2> QED
    BY <2>1, <2>2, <2>3 DEF Conn!Reconnects, w
<1>5. /\ conn' \in Seq({"none", "open", "data", "eof"}) /\ Len(conn') = Len(conn)
      /\ \A x \in 1..Len(conn) : x # h => conn'[x] = conn[x]
  <2> PICK c \in {"open", "none"} : conn' = [conn EXCEPT ![h] = c]
    BY <1>4
  <2> QED
    BY <1>1
<1>6. ConnTypes'
  BY <1>0, <1>1, <1>4, <1>5 DEF ConnTypes
<1>7. \A x \in gone : conn'[x] = "none"
  BY <1>0, <1>5 DEF ConnGone, ConnTypes
<1>8. \A x \in handlerTimers' : kind[x] = "modemd" /\ x \notin gone
  BY <1>0, <1>4 DEF ConnGone
<1>9. phase' # "timers" => dueHandlers' = {}
  BY <1>0 DEF ConnGone
<1>10. LetGo(closing.h) => LetGo(closing.h)'
  BY <1>4 DEF LetGo, Registers
<1>11. gone \cap (ready' \cup Conn!ToSet(polling_hdl')) \subseteq revived
  BY <1>0, <1>4 DEF ConnDone
<1>12. misused' \subseteq gone \cap revived /\ due' <= due
  BY <1>0 DEF ConnDone, ConnTypes
<1> QED
  BY <1>4, <1>6, <1>7, <1>8, <1>9, <1>10, <1>11, <1>12, LoopStep

LEMMA ConnectServerStep == ASSUME ConnInv, Conn!ConnectServer PROVE ConnInv'
<1>0. ConnTypes /\ ConnGone
  BY DEF ConnInv
<1> PICK h \in dueHandlers :
       /\ dueHandlers' = dueHandlers \ {h}
       /\ misused' = misused \cup ({h} \cap gone)
       /\ IF h \in gone THEN UNCHANGED <<conn, polling_hdl, handlerTimers>> ELSE Conn!Reconnects(h)
  BY DEF Conn!ConnectServer
<1>1. h \in handlerTimers /\ kind[h] = "modemd" /\ h \notin gone /\ h \in 1..Len(kind)
  BY <1>0 DEF ConnTypes, ConnGone
<1>2. /\ UNCHANGED <<slot, kind, gone, sockets, timers, connRequests, answers, closing, ready, phase,
                     due, connTold, revived, current>>
      /\ misused' = misused /\ phase = "timers"
  BY <1>1 DEF Conn!ConnectServer
<1>3. current' \in Seq(Int)
  BY <1>0, <1>2 DEF ConnTypes
<1> QED
  BY <1>1, <1>2, <1>3, ReconnectsStep

LEMMA CalledIs ==
  ASSUME ConnTypes, NEW h, Conn!Called(h)
  PROVE  h \in ready /\ phase = "events" /\ current' \in Seq(Int)
<1>1. current \in Seq(Int) /\ current # <<>>
  BY DEF ConnTypes, Conn!Called
<1>2. Tail(current) \in Seq(Int)
  BY <1>1, RestOfList
<1> QED
  BY <1>2 DEF Conn!Called

LEMMA StateClosedStep ==
  ASSUME ConnInv, NEW h \in DOMAIN kind, Conn!StateClosed(h)
  PROVE  ConnInv'
<1>0. ConnTypes /\ ConnGone
  BY DEF ConnInv
<1>1. h \in ready /\ phase = "events" /\ current' \in Seq(Int)
  BY <1>0, CalledIs DEF Conn!StateClosed
<1>2. /\ UNCHANGED <<slot, kind, gone, sockets, timers, connRequests, answers, closing, ready, phase,
                     due, connTold, misused, revived, dueHandlers>>
      /\ h \notin gone /\ kind[h] = "modemd" /\ Conn!Reconnects(h)
  BY DEF Conn!StateClosed, Conn!worldVars
<1>3. h \in 1..Len(kind)
  BY <1>0 DEF ConnTypes
<1>4. dueHandlers' = dueHandlers \ {h}
  BY <1>0, <1>1, <1>2 DEF ConnGone
<1> QED
  BY <1>1, <1>2, <1>3, <1>4, ReconnectsStep

\* A step that only moves on, or changes the connection of handlers that are there.
LEMMA GoesOnStep ==
  ASSUME ConnInv,
         UNCHANGED <<slot, kind, gone, sockets, timers, handlerTimers, connRequests, answers, closing,
                     polling_hdl, ready, due, dueHandlers, connTold, revived>>,
         current' \in Seq(Int), phase' \in {phase, "prepare", "events"}, phase # "poll" \/ current' = current,
         phase' # "timers" => dueHandlers = {},
         conn' \in Seq({"none", "open", "data", "eof"}), Len(conn') = Len(conn),
         \A x \in gone : conn'[x] = conn[x], misused' \subseteq gone \cap revived
  PROVE  ConnInv'
<1>0. ConnTypes /\ ConnGone /\ ConnDone /\ OnceIn(polling_hdl)
  BY DEF ConnInv
<1>1. ConnTypes'
  BY <1>0 DEF ConnTypes
<1>2. \A x \in gone : conn'[x] = "none"
  BY <1>0 DEF ConnGone
<1>3. \A x \in handlerTimers' : kind[x] = "modemd" /\ x \notin gone
  BY <1>0 DEF ConnGone
<1>4. LetGo(closing.h) => LetGo(closing.h)'
  BY DEF LetGo, Registers
<1>5. gone \cap (ready' \cup Conn!ToSet(polling_hdl')) \subseteq revived /\ due' <= due
  BY <1>0 DEF ConnDone, ConnTypes
<1>6. OnceIn(polling_hdl')
  BY <1>0
<1> QED
  BY <1>1, <1>2, <1>3, <1>4, <1>5, <1>6, LoopStep

\* One handler's connection becomes another.
LEMMA ConnChanged ==
  ASSUME ConnInv, NEW h \in DOMAIN kind, h \notin gone, NEW c \in {"none", "open", "data", "eof"},
         conn' = [conn EXCEPT ![h] = c]
  PROVE  /\ conn' \in Seq({"none", "open", "data", "eof"}) /\ Len(conn') = Len(conn)
         /\ h \in 1..Len(kind) /\ h \in Int /\ \A x \in gone : conn'[x] = conn[x]
<1>1. /\ conn \in Seq({"none", "open", "data", "eof"}) /\ h \in 1..Len(conn) /\ h \in 1..Len(kind)
      /\ gone \subseteq 1..Len(conn) /\ Len(conn) \in Nat
  BY DEF ConnInv, ConnTypes
<1>2. conn' \in Seq({"none", "open", "data", "eof"}) /\ Len(conn') = Len(conn)
  BY <1>1
<1>3. \A x \in gone : conn'[x] = conn[x]
  BY <1>1
<1> QED
  BY <1>1, <1>2, <1>3

LEMMA PassingSteps ==
  ASSUME ConnInv, Conn!TimersRun \/ Conn!NextEntry \/ Conn!PeerSends \/ Conn!ClientComes
  PROVE  ConnInv'
<1>0. ConnTypes /\ ConnGone /\ ConnDone
  BY DEF ConnInv
<1>1. /\ current \in Seq(Int) /\ conn \in Seq({"none", "open", "data", "eof"})
  BY <1>0 DEF ConnTypes
<1>2. misused \subseteq gone \cap revived /\ (phase # "timers" => dueHandlers = {})
  BY <1>0 DEF ConnDone, ConnGone
<1>3. CASE Conn!TimersRun
  BY <1>1, <1>2, <1>3, GoesOnStep DEF Conn!TimersRun, Conn!worldVars
<1>4. CASE Conn!NextEntry
  <2>1. CASE current = <<>> /\ phase' = "prepare" /\ UNCHANGED <<current, misused>>
    BY <1>1, <1>2, <1>4, <2>1, GoesOnStep DEF Conn!NextEntry
  <2>2. CASE current # <<>> /\ current' = Tail(current) /\ phase' = phase
             /\ misused' = misused \cup ({Head(current)} \cap ready \cap gone)
    <3>1. current' \in Seq(Int)
      BY <1>1, <2>2, RestOfList
    <3>2. misused' \subseteq gone \cap revived
      BY <1>0, <2>2 DEF ConnDone
    <3> QED
      BY <1>1, <1>2, <1>4, <2>2, <3>1, <3>2, GoesOnStep DEF Conn!NextEntry
  <2> QED
    BY <1>4, <2>1, <2>2 DEF Conn!NextEntry
<1>5. CASE Conn!PeerSends
  <2> PICK h \in DOMAIN kind, c \in {"data", "eof"} :
        conn[h] = "open" /\ conn' = [conn EXCEPT ![h] = c]
    BY <1>5 DEF Conn!PeerSends, Conn!Created
  <2>1. h \notin gone
    BY <1>0 DEF ConnGone
  <2>2. /\ conn' \in Seq({"none", "open", "data", "eof"}) /\ Len(conn') = Len(conn)
        /\ \A x \in gone : conn'[x] = conn[x]
    BY <2>1, ConnChanged
  <2>3. UNCHANGED <<slot, kind, gone, sockets, timers, handlerTimers, connRequests, answers, closing,
                    polling_hdl, current, ready, phase, due, dueHandlers, connTold, revived, misused>>
    BY <1>5 DEF Conn!PeerSends, Conn!loopVars, Conn!worldVars
  <2> QED
    BY <1>1, <1>2, <2>2, <2>3, GoesOnStep
<1>6. CASE Conn!ClientComes
  BY <1>1, <1>2, <1>6, GoesOnStep DEF Conn!ClientComes, Conn!loopVars
<1> QED
  BY <1>3, <1>4, <1>5, <1>6

LEMMA ProcessDataStep ==
  ASSUME ConnInv, NEW h \in DOMAIN kind, Conn!ProcessData(h)
  PROVE  ConnInv'
<1>0. ConnTypes /\ ConnGone /\ ConnDone
  BY DEF ConnInv
<1>1. h \in ready /\ phase = "events" /\ current' \in Seq(Int)
  BY <1>0, CalledIs DEF Conn!ProcessData
<1>2. /\ conn' \in Seq({"none", "open", "data", "eof"}) /\ Len(conn') = Len(conn)
      /\ \A x \in gone : conn'[x] = conn[x]
  BY ConnChanged DEF Conn!ProcessData
<1>3. UNCHANGED <<slot, kind, gone, sockets, timers, handlerTimers, connRequests, answers, closing,
                  polling_hdl, ready, phase, due, dueHandlers, connTold, revived, misused>>
  BY DEF Conn!ProcessData, Conn!worldVars
<1>4. misused \subseteq gone \cap revived /\ dueHandlers = {}
  BY <1>0, <1>1 DEF ConnDone, ConnGone
<1> QED
  BY <1>1, <1>2, <1>3, <1>4, GoesOnStep

LEMMA TimeClosedStep ==
  ASSUME ConnInv, NEW h \in DOMAIN kind, Conn!TimeClosed(h)
  PROVE  ConnInv'
<1>0. ConnTypes /\ ConnGone /\ ConnDone /\ OnceIn(polling_hdl)
  BY DEF ConnInv
<1>1. h \in ready /\ phase = "events" /\ current' \in Seq(Int)
  BY <1>0, CalledIs DEF Conn!TimeClosed
<1>2. /\ conn' \in Seq({"none", "open", "data", "eof"}) /\ Len(conn') = Len(conn)
      /\ \A x \in gone : conn'[x] = conn[x]
  BY ConnChanged DEF Conn!TimeClosed
<1>3. /\ UNCHANGED <<slot, kind, gone, sockets, timers, handlerTimers, connRequests, answers, closing,
                     ready, phase, due, dueHandlers, connTold, revived, misused>>
      /\ polling_hdl' = Conn!Without(polling_hdl, h)
  BY DEF Conn!TimeClosed, Conn!worldVars
<1>4. /\ polling_hdl' \in Seq(Int) /\ OnceIn(polling_hdl')
      /\ Conn!ToSet(polling_hdl') = Conn!ToSet(polling_hdl) \ {h}
  BY <1>0, <1>3, WithoutOne DEF ConnTypes
<1>5. ConnTypes'
  BY <1>0, <1>1, <1>2, <1>3, <1>4 DEF ConnTypes
<1>6. \A x \in gone : conn'[x] = "none"
  BY <1>0, <1>2 DEF ConnGone
<1>7. /\ \A x \in handlerTimers' : kind[x] = "modemd" /\ x \notin gone
      /\ phase' # "timers" => dueHandlers' = {}
  BY <1>0, <1>3 DEF ConnGone
<1>8. LetGo(closing.h) => LetGo(closing.h)'
  BY <1>1, <1>3, <1>4 DEF LetGo, Registers
<1>9. gone \cap (ready' \cup Conn!ToSet(polling_hdl')) \subseteq revived
  BY <1>0, <1>3, <1>4 DEF ConnDone
<1>10. misused' \subseteq gone \cap revived /\ due' <= due
  BY <1>0, <1>3 DEF ConnDone, ConnTypes
<1> QED
  BY <1>3, <1>4, <1>5, <1>6, <1>7, <1>8, <1>9, <1>10, LoopStep

LEMMA ClientClosedStep ==
  ASSUME ConnInv, NEW h \in DOMAIN kind, Conn!ClientClosed(h)
  PROVE  ConnInv'
<1>0. /\ ConnTypes /\ ConnSlots /\ ConnGone /\ ConnAsked /\ ConnOrder /\ ConnDone
      /\ OnceIn(polling_hdl)
  BY DEF ConnInv
<1>1. h \in ready /\ phase = "events" /\ current' \in Seq(Int)
  BY <1>0, CalledIs DEF Conn!ClientClosed
<1>2. /\ UNCHANGED <<slot, kind, sockets, timers, handlerTimers, connRequests, answers, closing,
                     phase, due, dueHandlers, misused, revived>>
      /\ h \notin gone /\ kind[h] = "client" /\ conn' = [conn EXCEPT ![h] = "none"]
      /\ connTold' = [connTold EXCEPT ![h] = @ + 1] /\ gone' = gone \cup {h}
      /\ polling_hdl' = Conn!Without(polling_hdl, h) /\ ready' = ready \ {h}
  BY DEF Conn!ClientClosed
<1>3. /\ conn' \in Seq({"none", "open", "data", "eof"}) /\ Len(conn') = Len(conn)
      /\ h \in 1..Len(kind) /\ h \in Int /\ \A x \in gone : conn'[x] = conn[x]
  BY <1>2, ConnChanged
<1>4. /\ polling_hdl' \in Seq(Int) /\ OnceIn(polling_hdl')
      /\ Conn!ToSet(polling_hdl') = Conn!ToSet(polling_hdl) \ {h}
  BY <1>0, <1>2, WithoutOne DEF ConnTypes
<1>5. /\ connTold \in Seq(Nat) /\ Len(connTold) = Len(kind) /\ Len(kind) \in Nat
      /\ conn \in Seq({"none", "open", "data", "eof"}) /\ Len(conn) = Len(kind)
  BY <1>0 DEF ConnTypes
<1>6. /\ connTold' \in Seq(Nat) /\ Len(connTold') = Len(kind) /\ connTold'[h] = connTold[h] + 1
      /\ \A x \in 1..Len(kind) : x # h => connTold'[x] = connTold[x]
  <2>1. connTold[h] + 1 \in Nat
    BY <1>3, <1>5
  <2> QED
    BY <1>2, <1>3, <1>5, <2>1
<1>7. ConnTypes'
  BY <1>0, <1>1, <1>2, <1>3, <1>4, <1>6 DEF ConnTypes
<1>8. ConnSlots'
  BY <1>0, <1>2 DEF ConnSlots, Conn!Sockets
<1>9. ConnGone'
  <2>1. conn'[h] = "none"
    BY <1>2, <1>3, <1>5
  <2>2. \A x \in gone' : conn'[x] = "none"
    BY <1>0, <1>2, <1>3, <2>1 DEF ConnGone
  <2>3. \A x \in handlerTimers' : kind'[x] = "modemd" /\ x \notin gone'
    BY <1>0, <1>2 DEF ConnGone
  <2>4. \A x \in 1..Len(kind) : kind[x] = "client" => connTold'[x] = IF x \in gone' THEN 1 ELSE 0
    BY <1>0, <1>2, <1>3, <1>6 DEF ConnGone
  <2> QED
    BY <1>0, <1>2, <2>2, <2>3, <2>4 DEF ConnGone
<1>10. ConnAsked'
  BY <1>0, <1>2 DEF ConnAsked, Unregisters
<1>11. ConnOrder'
  BY <1>0, <1>2 DEF ConnOrder, Unregisters, Registers, Conn!Sockets
<1>12. LetGo(closing.h) => LetGo(closing.h)'
  BY <1>1, <1>2, <1>4 DEF LetGo, Registers
<1>13. ConnDone'
  BY <1>0, <1>2, <1>4, <1>12 DEF ConnDone
<1> QED
  BY <1>4, <1>7, <1>8, <1>9, <1>10, <1>11, <1>13 DEF ConnInv

\* Each entry is polled once; what the daemon reads was there when poll returned, and only it
\* takes requests.
ConnWork ==
  /\ OnceIn(current)
  /\ phase \in {"timers", "events"} /\ Conn!RequestsManager \in ready \cap Conn!ToSet(current)
       => connRequests # <<>>

LEMMA RestOnce ==
  ASSUME NEW q \in Seq(Int), q # <<>>, OnceIn(q)
  PROVE  OnceIn(Tail(q)) /\ Head(q) \notin Conn!ToSet(Tail(q)) /\ Conn!ToSet(Tail(q)) \subseteq Conn!ToSet(q)
<1>1. /\ Tail(q) \in Seq(Int) /\ Head(q) = q[1] /\ Len(q) \in Nat \ {0} /\ Len(Tail(q)) = Len(q) - 1
      /\ DOMAIN Tail(q) = 1..(Len(q) - 1) /\ \A i \in 1..(Len(q) - 1) : Tail(q)[i] = q[i + 1]
  OBVIOUS
<1>2. \A i \in 1..(Len(q) - 1) : i + 1 \in 1..Len(q) /\ i + 1 # 1 /\ 1 \in 1..Len(q)
  BY <1>1
<1>3. OnceIn(Tail(q))
  <2> SUFFICES ASSUME NEW i \in 1..(Len(q) - 1), NEW j \in 1..(Len(q) - 1), Tail(q)[i] = Tail(q)[j]
               PROVE  i = j
    BY <1>1 DEF OnceIn
  <2>1. i + 1 = j + 1
    BY <1>1, <1>2 DEF OnceIn
  <2> QED
    BY <2>1
<1>4. Head(q) \notin Conn!ToSet(Tail(q))
  BY <1>1, <1>2 DEF OnceIn, Conn!ToSet
<1>5. Conn!ToSet(Tail(q)) \subseteq Conn!ToSet(q)
  BY RestOfList
<1> QED
  BY <1>3, <1>4, <1>5

LEMMA RequestsStay ==
  ASSUME ConnInv, ConnWork, \/ \E s \in Conn!Sockets : Conn!SocketConnect(s) \/ Conn!SocketClose(s)
                            \/ Conn!SocketReconnect
  PROVE  ConnWork'
<1>0. ConnTypes
  BY DEF ConnInv
<1>1. connRequests \in Seq(ConnRequest)
  BY <1>0 DEF ConnTypes
<1>2. ASSUME NEW order \in Conn!Orders, Conn!HandlersFor(order), connRequests # <<>>
      PROVE  connRequests' # <<>>
  <2>1. Len(connRequests) \in Nat \ {0} /\ Len(order) \in Nat
    BY <1>1, <1>2, OrdersAre
  <2>2. Len(connRequests') = Len(connRequests) + Len(order)
    BY <1>0, <1>2, ListsGrow
  <2>3. Len(connRequests') # 0
    BY <2>1, <2>2
  <2> QED
    BY <2>3
<1>3. ASSUME NEW s \in Conn!Sockets, Conn!SocketConnect(s), connRequests # <<>>
      PROVE  connRequests' # <<>>
  <2>1. <<s>> \in Conn!Orders
    BY DEF Conn!Orders, Conn!Sockets
  <2> QED
    BY <1>2, <1>3, <2>1 DEF Conn!SocketConnect
<1>4. ASSUME NEW s \in Conn!Sockets, Conn!SocketClose(s) PROVE connRequests' # <<>>
  <2> DEFINE e == [type |-> "unregister", h |-> slot[s]]
  <2>1. e \in ConnRequest
    BY <1>0 DEF ConnTypes, ConnRequest, Conn!None
  <2> HIDE DEF e
  <2>2. Append(connRequests, e) # <<>>
    BY <1>1, <2>1
  <2> QED
    BY <1>4, <2>2 DEF Conn!SocketClose, e
<1>5. Conn!SocketReconnect /\ connRequests # <<>> => connRequests' # <<>>
  BY <1>2 DEF Conn!SocketReconnect
<1>6. UNCHANGED <<current, phase, ready>>
  BY DEF Conn!SocketConnect, Conn!SocketClose, Conn!SocketReconnect, Conn!loopVars
<1> QED
  BY <1>3, <1>4, <1>5, <1>6 DEF ConnWork

LEMMA RequestsThere ==
  ASSUME ConnInv, ConnWork,
         \/ current' = current
         \/ current # <<>> /\ current' = Tail(current),
         ready' \subseteq ready, phase' \notin {"timers", "events"} \/ phase \in {"timers", "events"},
         \/ connRequests' = connRequests
         \/ Conn!Called(Conn!RequestsManager)
  PROVE  ConnWork'
<1>1. current \in Seq(Int) /\ OnceIn(current)
  BY DEF ConnInv, ConnTypes, ConnWork
<1>2. OnceIn(current') /\ Conn!ToSet(current') \subseteq Conn!ToSet(current)
  BY <1>1, RestOnce
<1>3. CASE connRequests' = connRequests
  BY <1>2, <1>3 DEF ConnWork
<1>4. CASE Conn!Called(Conn!RequestsManager)
  <2>1. Conn!RequestsManager \notin Conn!ToSet(current')
    BY <1>1, <1>4, RestOnce DEF Conn!Called
  <2> QED
    BY <1>2, <2>1 DEF ConnWork
<1> QED
  BY <1>3, <1>4

LEMMA WorkStep == ASSUME ConnInv, ConnWork, Conn!Next PROVE ConnWork'
<1>0. ConnTypes /\ OnceIn(polling_hdl)
  BY DEF ConnInv
<1>1. CASE \/ \E s \in Conn!Sockets : Conn!SocketConnect(s) \/ Conn!SocketClose(s)
           \/ Conn!SocketReconnect
  BY <1>1, RequestsStay
<1>2. CASE Conn!DeleteHandler
  <2>1. ready' \subseteq ready
    BY <1>2 DEF Conn!DeleteHandler
  <2> QED
    BY <1>2, <2>1, RequestsThere DEF Conn!DeleteHandler
<1>3. CASE Conn!Prepare
  BY <1>0, <1>3 DEF Conn!Prepare, ConnWork
<1>4. CASE Conn!Poll
  <2>1. Conn!RequestsManager \in ready' => connRequests # <<>>
    <3>1. Conn!RequestsManager \notin DOMAIN kind /\ Conn!RequestsManager # Conn!ClientManager
      BY <1>0 DEF ConnTypes, Conn!RequestsManager, Conn!ClientManager
    <3> QED
      BY <1>4, <3>1 DEF Conn!Poll, Conn!Readable, Conn!Created
  <2> QED
    BY <1>4, <2>1 DEF Conn!Poll, ConnWork
<1>5. CASE Conn!ConnectServer
  BY <1>5, RequestsThere DEF Conn!ConnectServer
<1>6. CASE Conn!TimersRun
  BY <1>6, RequestsThere DEF Conn!TimersRun
<1>7. CASE Conn!NextEntry
  BY <1>7, RequestsThere DEF Conn!NextEntry
<1>8. CASE Conn!ProcessRequest
  <2>1. ready' \subseteq ready
    BY <1>8 DEF Conn!ProcessRequest, Conn!EntryRemoved
  <2> QED
    BY <1>8, <2>1, RequestsThere DEF Conn!ProcessRequest, Conn!Called
<1>9. CASE Conn!AcceptClient
  BY <1>9, RequestsThere DEF Conn!AcceptClient, Conn!Called
<1>10. ASSUME NEW h \in DOMAIN kind, Conn!ProcessData(h) PROVE ConnWork'
  BY <1>10, RequestsThere DEF Conn!ProcessData, Conn!Called
<1>11. ASSUME NEW h \in DOMAIN kind, Conn!StateClosed(h) PROVE ConnWork'
  BY <1>11, RequestsThere DEF Conn!StateClosed, Conn!Called
<1>12. ASSUME NEW h \in DOMAIN kind, Conn!TimeClosed(h) PROVE ConnWork'
  BY <1>12, RequestsThere DEF Conn!TimeClosed, Conn!Called
<1>13. ASSUME NEW h \in DOMAIN kind, Conn!ClientClosed(h) PROVE ConnWork'
  <2>1. ready' \subseteq ready
    BY <1>13 DEF Conn!ClientClosed
  <2> QED
    BY <1>13, <2>1, RequestsThere DEF Conn!ClientClosed, Conn!Called
<1>14. CASE Conn!PeerSends
  BY <1>14, RequestsThere DEF Conn!PeerSends, Conn!loopVars
<1>15. CASE Conn!ClientComes
  BY <1>15, RequestsThere DEF Conn!ClientComes, Conn!loopVars
<1> QED
  BY <1>1, <1>2, <1>3, <1>4, <1>5, <1>6, <1>7, <1>8, <1>9, <1>10, <1>11, <1>12, <1>13, <1>14, <1>15
  DEF Conn!Next, Conn!Created

\* The first request is taken.
LEMMA RequestTaken ==
  ASSUME ConnInv, connRequests # <<>>
  PROVE  /\ Len(connRequests) \in Nat \ {0} /\ Tail(connRequests) \in Seq(ConnRequest)
         /\ Head(connRequests) = connRequests[1] /\ connRequests[1] \in ConnRequest
         /\ Len(Tail(connRequests)) = Len(connRequests) - 1 /\ 1 \in 1..Len(connRequests)
         /\ \A i \in 1..(Len(connRequests) - 1) :
              Tail(connRequests)[i] = connRequests[i + 1] /\ i + 1 \in 1..Len(connRequests)
<1>1. connRequests \in Seq(ConnRequest)
  BY DEF ConnInv, ConnTypes
<1> QED
  BY <1>1

LEMMA RequestIs ==
  ASSUME ConnInv, ConnWork, Conn!ProcessRequest, NEW r, r = connRequests[1],
         NEW served, served = (r.type = "unregister" /\ r.h # Conn!None)
  PROVE  /\ connRequests # <<>> /\ connRequests' = Tail(connRequests) /\ r \in ConnRequest
         /\ polling_hdl' = IF served THEN Conn!Without(polling_hdl, r.h)
                           ELSE IF r.type = "register" /\ r.h \notin Conn!ToSet(polling_hdl)
                           THEN Append(polling_hdl, r.h) ELSE polling_hdl
         /\ ready' = IF served THEN ready \ {r.h} ELSE ready
         /\ answers' = IF served THEN answers + 1 ELSE answers
         /\ revived' = revived \cup (IF served THEN {r.h} \cap handlerTimers ELSE {})
         /\ UNCHANGED <<slot, kind, conn, gone, sockets, timers, handlerTimers, closing, phase, due,
                        dueHandlers, connTold, misused>>
         /\ current' \in Seq(Int) /\ phase = "events"
<1>1. Conn!Called(Conn!RequestsManager)
  BY DEF Conn!ProcessRequest
<1>2. current \in Seq(Int) /\ current # <<>> /\ Head(current) = Conn!RequestsManager
      /\ Conn!RequestsManager \in ready /\ phase = "events" /\ current' = Tail(current)
  BY <1>1 DEF Conn!Called, ConnInv, ConnTypes
<1>3. Conn!RequestsManager \in Conn!ToSet(current) /\ current' \in Seq(Int)
  BY <1>2, RestOfList
<1>4. connRequests # <<>>
  BY <1>2, <1>3 DEF ConnWork
<1>5. Head(connRequests) = r /\ r \in ConnRequest
  BY <1>4, RequestTaken
<1>6. polling_hdl' = IF served THEN Conn!Without(polling_hdl, r.h)
                     ELSE IF r.type = "register" /\ r.h \notin Conn!ToSet(polling_hdl)
                     THEN Append(polling_hdl, r.h) ELSE polling_hdl
  BY <1>5 DEF Conn!ProcessRequest
<1> QED
  BY <1>2, <1>3, <1>4, <1>5, <1>6 DEF Conn!ProcessRequest, Conn!EntryRemoved

LEMMA ProcessRequestStep == ASSUME ConnInv, ConnWork, Conn!ProcessRequest PROVE ConnInv'
<1> DEFINE r == connRequests[1]
           served == r.type = "unregister" /\ r.h # Conn!None
           n == Len(connRequests)
<1>0. /\ ConnTypes /\ ConnSlots /\ ConnGone /\ ConnAsked /\ ConnOrder /\ ConnDone
      /\ OnceIn(polling_hdl)
  BY DEF ConnInv
<1>1. /\ connRequests # <<>> /\ connRequests' = Tail(connRequests) /\ r \in ConnRequest
      /\ polling_hdl' = IF served THEN Conn!Without(polling_hdl, r.h)
                        ELSE IF r.type = "register" /\ r.h \notin Conn!ToSet(polling_hdl)
                        THEN Append(polling_hdl, r.h) ELSE polling_hdl
      /\ ready' = IF served THEN ready \ {r.h} ELSE ready
      /\ answers' = IF served THEN answers + 1 ELSE answers
      /\ revived' = revived \cup (IF served THEN {r.h} \cap handlerTimers ELSE {})
      /\ UNCHANGED <<slot, kind, conn, gone, sockets, timers, handlerTimers, closing, phase, due,
                     dueHandlers, connTold, misused>>
      /\ current' \in Seq(Int) /\ phase = "events"
  BY RequestIs
<1>2. /\ n \in Nat \ {0} /\ connRequests' \in Seq(ConnRequest) /\ Len(connRequests') = n - 1
      /\ 1 \in 1..n
      /\ \A i \in 1..(n - 1) : connRequests'[i] = connRequests[i + 1] /\ i + 1 \in 1..n
  BY <1>1, RequestTaken
<1>3. Unregisters(1) = (r.type = "unregister") /\ Registers(1) = (r.type = "register")
      /\ \A i \in 1..(n - 1) : /\ Unregisters(i)' <=> Unregisters(i + 1)
                               /\ Registers(i)' <=> Registers(i + 1)
  BY <1>1, <1>2 DEF Unregisters, Registers
<1>4. served => /\ r.h = closing.h /\ answers = 0
                /\ \A j \in 1..n : Unregisters(j) /\ connRequests[j].h = closing.h => j = 1
                /\ \A j \in 1..n : Registers(j) => connRequests[j].h # closing.h
  <2> HAVE served
  <2>1. r.h = closing.h /\ closing.h # Conn!None
    BY <1>0, <1>2, <1>3 DEF ConnAsked
  <2>2. answers = 0
    <3>1. answers \in 0..1
      BY <1>0 DEF ConnTypes
    <3>2. answers # 1
      BY <1>0, <1>2, <1>3, <2>1 DEF ConnAsked
    <3> QED
      BY <3>1, <3>2
  <2>3. PICK i \in 1..n : \A j \in 1..n : Unregisters(j) /\ connRequests[j].h = closing.h <=> j = i
    BY <1>0, <2>1, <2>2 DEF ConnAsked
  <2>4. i = 1
    BY <1>2, <1>3, <2>1, <2>3
  <2>5. ASSUME NEW j \in 1..n, Registers(j), connRequests[j].h = closing.h PROVE FALSE
    <3>1. j < 1
      BY <1>0, <1>2, <1>3, <2>1, <2>5 DEF ConnOrder
    <3> QED
      BY <1>2, <3>1
  <2> QED
    BY <2>1, <2>2, <2>3, <2>4, <2>5
<1>5. served => r.type # "register"
  OBVIOUS
<1>6. r.type = "register" => r.h \in 1..Len(kind) /\ (r.h \in gone => r.h \in revived) /\ r.h \in Int
  <2> HAVE r.type = "register"
  <2>1. r.h \in 1..Len(kind) /\ (r.h \in gone => r.h \in revived)
    BY <1>0, <1>2, <1>3 DEF ConnOrder
  <2> QED
    BY <2>1
<1>7. /\ polling_hdl' \in Seq(Int) /\ OnceIn(polling_hdl')
      /\ served => Conn!ToSet(polling_hdl') = Conn!ToSet(polling_hdl) \ {r.h}
      /\ r.type = "register" => Conn!ToSet(polling_hdl') = Conn!ToSet(polling_hdl) \cup {r.h}
      /\ ~served /\ r.type # "register" => Conn!ToSet(polling_hdl') = Conn!ToSet(polling_hdl)
  <2>1. polling_hdl \in Seq(Int)
    BY <1>0 DEF ConnTypes
  <2>2. CASE served
    <3>1. polling_hdl' = Conn!Without(polling_hdl, r.h)
      BY <1>1, <2>2
    <3> QED
      BY <1>0, <2>1, <2>2, <3>1, WithoutOne
  <2>3. CASE r.type = "register" /\ r.h \notin Conn!ToSet(polling_hdl)
    <3>1. polling_hdl' = Append(polling_hdl, r.h)
      BY <1>1, <2>3
    <3> QED
      BY <1>0, <1>6, <2>1, <2>3, <3>1, OneAtEnd
  <2>4. CASE ~served /\ ~(r.type = "register" /\ r.h \notin Conn!ToSet(polling_hdl))
    <3>1. polling_hdl' = polling_hdl
      BY <1>1, <2>4
    <3> QED
      BY <1>0, <2>1, <2>4, <3>1
  <2> QED
    BY <2>2, <2>3, <2>4
<1>8. answers' \in 0..1
  BY <1>0, <1>1, <1>4 DEF ConnTypes
<1>9. ready' \subseteq ready
  BY <1>1
<1> HIDE DEF r, served, n
<1>10. ConnTypes'
  BY <1>0, <1>1, <1>2, <1>7, <1>8, <1>9 DEF ConnTypes
<1>11. ConnSlots'
  BY <1>0, <1>1 DEF ConnSlots, Conn!Sockets
<1>12. ConnGone'
  BY <1>0, <1>1 DEF ConnGone
<1>13. \A i \in 1..(n - 1) : Unregisters(i)' => connRequests'[i].h \in {Conn!None, closing.h}
  BY <1>0, <1>2, <1>3 DEF ConnAsked, n
<1>14. closing.h = Conn!None => answers' = 0
  <2>1. served => closing.h # Conn!None
    BY <1>4 DEF served
  <2> QED
    BY <1>0, <1>1, <2>1 DEF ConnAsked
<1>15. ASSUME answers' = 1
       PROVE  \A i \in 1..(n - 1) : Unregisters(i)' => connRequests'[i].h # closing.h
  <2>1. CASE served
    <3>1. \A i \in 1..(n - 1) : i + 1 # 1
      OBVIOUS
    <3> QED
      BY <1>2, <1>3, <1>4, <2>1, <3>1
  <2>2. CASE ~served
    <3>1. answers = 1
      BY <1>1, <1>15, <2>2
    <3>2. \A j \in 1..n : Unregisters(j) => connRequests[j].h # closing.h
      BY <1>0, <3>1 DEF ConnAsked, n, Conn!None
    <3> QED
      BY <1>2, <1>3, <3>2
  <2> QED
    BY <2>1, <2>2
<1>16. ASSUME answers' = 0, closing.h # Conn!None
       PROVE  \E i \in 1..(n - 1) : \A j \in 1..(n - 1) :
                Unregisters(j)' /\ connRequests'[j].h = closing.h <=> j = i
  <2>1. ~served
    BY <1>1, <1>4, <1>16
  <2>2. answers = 0
    BY <1>1, <1>16, <2>1
  <2>3. PICK i \in 1..n : \A j \in 1..n : Unregisters(j) /\ connRequests[j].h = closing.h <=> j = i
    BY <1>0, <1>16, <2>2 DEF ConnAsked, n
  <2>4. i # 1
    BY <1>3, <1>16, <2>1, <2>3 DEF served, r
  <2>5. i - 1 \in 1..(n - 1) /\ \A j \in 1..(n - 1) : j + 1 = i <=> j = i - 1
    BY <1>2, <2>4
  <2>6. \A j \in 1..(n - 1) : Unregisters(j)' /\ connRequests'[j].h = closing.h <=> j = i - 1
    BY <1>2, <1>3, <2>3, <2>5
  <2> QED
    BY <2>5, <2>6
<1>17. ConnAsked'
  <2>1. closing.h # Conn!None => closing.s \in Conn!Sockets /\ slot[closing.s] = closing.h
    BY <1>0 DEF ConnAsked
  <2>2. closing' = closing /\ slot' = slot /\ Len(connRequests') = n - 1
    BY <1>1, <1>2
  <2>3. Conn!None' = Conn!None /\ Conn!Sockets' = Conn!Sockets
    BY DEF Conn!None, Conn!Sockets
  <2>4. closing.h # Conn!None /\ answers' = 0 =>
          \E i \in 1..(n - 1) : \A j \in 1..(n - 1) :
            Unregisters(j)' /\ connRequests'[j].h = closing.h <=> j = i
    BY <1>16
  <2> QED
    BY <1>13, <1>14, <1>15, <2>1, <2>2, <2>3, <2>4 DEF ConnAsked
<1>18. ConnOrder'
  <2>1. \A i \in 1..(n - 1) :
          Registers(i)' => /\ connRequests'[i].h \in 1..Len(kind)
                           /\ kind[connRequests'[i].h] \in Conn!Sockets
                           /\ connRequests'[i].h \in gone => connRequests'[i].h \in revived'
    BY <1>0, <1>1, <1>2, <1>3 DEF ConnOrder, n
  <2>2. \A i, j \in 1..(n - 1) :
          Unregisters(i)' /\ Registers(j)' /\ connRequests'[i].h = connRequests'[j].h => j < i
    <3>1. ASSUME NEW i \in 1..(n - 1), NEW j \in 1..(n - 1), Unregisters(i)', Registers(j)',
                 connRequests'[i].h = connRequests'[j].h
          PROVE  j < i
      <4>1. Unregisters(i + 1) /\ Registers(j + 1) /\ connRequests[i + 1].h = connRequests[j + 1].h
            /\ i + 1 \in 1..n /\ j + 1 \in 1..n
        BY <1>2, <1>3, <3>1
      <4>2. j + 1 < i + 1
        BY <1>0, <4>1 DEF ConnOrder, n
      <4> QED
        BY <4>2
    <3> QED
      BY <3>1
  <2> QED
    BY <1>1, <1>2, <2>1, <2>2 DEF ConnOrder, Conn!Sockets
<1>19. ConnDone'
  <2>1. answers' > 0 => LetGo(closing.h)' \/ closing.h \in revived'
    <3> SUFFICES ASSUME answers' > 0, closing.h \notin revived' PROVE LetGo(closing.h)'
      OBVIOUS
    <3>1. CASE served
      <4>1. closing.h \notin handlerTimers
        BY <1>1, <1>4, <3>1
      <4>2. \A i \in 1..(n - 1) : Registers(i)' => connRequests'[i].h # closing.h
        BY <1>2, <1>3, <1>4, <3>1
      <4>3. closing.h \notin ready' /\ closing.h \notin Conn!ToSet(polling_hdl')
        BY <1>1, <1>4, <1>7, <3>1
      <4>4. phase' = "events" /\ handlerTimers' = handlerTimers /\ closing' = closing
        BY <1>1
      <4> QED
        BY <1>2, <4>1, <4>2, <4>3, <4>4 DEF LetGo
    <3>2. CASE ~served
      <4>1. LetGo(closing.h)
        BY <1>0, <1>1, <3>2 DEF ConnDone
      <4>2. r.type = "register" => r.h # closing.h
        BY <1>2, <1>3, <4>1 DEF LetGo, r, n
      <4>3. closing.h \notin Conn!ToSet(polling_hdl')
        BY <1>7, <3>2, <4>1, <4>2 DEF LetGo
      <4>4. \A i \in 1..(n - 1) : Registers(i)' => connRequests'[i].h # closing.h
        BY <1>2, <1>3, <4>1 DEF LetGo, n
      <4>5. phase' = "events" /\ handlerTimers' = handlerTimers /\ closing' = closing /\ ready' = ready
        BY <1>1, <3>2
      <4> QED
        BY <1>2, <4>1, <4>3, <4>4, <4>5 DEF LetGo
    <3> QED
      BY <3>1, <3>2
  <2>2. gone \cap (ready' \cup Conn!ToSet(polling_hdl')) \subseteq revived'
    <3>1. gone \cap (ready \cup Conn!ToSet(polling_hdl)) \subseteq revived /\ revived \subseteq revived'
      BY <1>0, <1>1 DEF ConnDone
    <3>2. gone \cap Conn!ToSet(polling_hdl') \subseteq revived'
      BY <1>6, <1>7, <3>1
    <3> QED
      BY <1>9, <3>1, <3>2
  <2>3. misused' \subseteq gone' \cap revived'
    BY <1>0, <1>1 DEF ConnDone
  <2> QED
    BY <1>1, <2>1, <2>2, <2>3 DEF ConnDone
<1> QED
  BY <1>7, <1>10, <1>11, <1>12, <1>17, <1>18, <1>19 DEF ConnInv

\* The daemon polls its own two handlers and those it was asked to register.
ConnPolled == Conn!ToSet(polling_hdl) \subseteq {Conn!ClientManager, Conn!RequestsManager} \cup (1..Len(kind))

LEMMA PolledStays ==
  ASSUME ConnInv, ConnPolled, kind' = kind, NEW h \in 1..Len(kind),
         \/ polling_hdl' = polling_hdl
         \/ polling_hdl' = Conn!Without(polling_hdl, h)
         \/ polling_hdl' = Append(Conn!Without(polling_hdl, h), h)
         \/ polling_hdl' = Append(polling_hdl, h) /\ h \notin Conn!ToSet(polling_hdl)
  PROVE  ConnPolled'
<1> DEFINE q == Conn!Without(polling_hdl, h)
<1>1. polling_hdl \in Seq(Int) /\ OnceIn(polling_hdl) /\ h \in Int
  BY DEF ConnInv, ConnTypes
<1>2. q \in Seq(Int) /\ OnceIn(q) /\ Conn!ToSet(q) = Conn!ToSet(polling_hdl) \ {h}
  BY <1>1, WithoutOne
<1>3. Conn!ToSet(Append(q, h)) = Conn!ToSet(q) \cup {h}
  <2> HIDE DEF q
  <2> QED
    BY <1>1, <1>2, OneAtEnd
<1>4. h \notin Conn!ToSet(polling_hdl) => Conn!ToSet(Append(polling_hdl, h)) = Conn!ToSet(polling_hdl) \cup {h}
  BY <1>1, OneAtEnd
<1> HIDE DEF q
<1>5. Conn!ToSet(polling_hdl') \subseteq Conn!ToSet(polling_hdl) \cup {h}
  <2>1. CASE polling_hdl' = polling_hdl
    BY <2>1
  <2>2. CASE polling_hdl' = q
    BY <1>2, <2>2
  <2>3. CASE polling_hdl' = Append(q, h)
    BY <1>2, <1>3, <2>3
  <2>4. CASE polling_hdl' = Append(polling_hdl, h) /\ h \notin Conn!ToSet(polling_hdl)
    BY <1>4, <2>4
  <2> QED
    BY <2>1, <2>2, <2>3, <2>4, Zenon DEF q
<1> QED
  BY <1>5 DEF ConnPolled, Conn!ClientManager, Conn!RequestsManager

\* The daemon accepts a client, and polls a handler nothing knows yet.
LEMMA AcceptClientStep ==
  ASSUME ConnInv, ConnPolled, Conn!AcceptClient
  PROVE  ConnInv' /\ ConnPolled'
<1> DEFINE n == Len(kind)
<1>0. /\ ConnTypes /\ ConnSlots /\ ConnGone /\ ConnAsked /\ ConnOrder /\ ConnDone
      /\ OnceIn(polling_hdl)
  BY DEF ConnInv
<1>1. phase = "events" /\ current' \in Seq(Int)
  BY <1>0, CalledIs DEF Conn!AcceptClient
<1>2. /\ UNCHANGED <<slot, gone, sockets, timers, handlerTimers, connRequests, answers, closing, ready,
                     phase, due, dueHandlers, misused, revived>>
      /\ kind' = Append(kind, "client") /\ conn' = Append(conn, "open")
      /\ connTold' = Append(connTold, 0) /\ polling_hdl' = Append(polling_hdl, n + 1)
      /\ n + 1 <= MaxHandlers
  BY DEF Conn!AcceptClient, Conn!Fresh
<1>3. /\ n \in Nat /\ kind \in Seq(ConnKinds) /\ connTold \in Seq(Nat) /\ Len(connTold) = n
      /\ conn \in Seq({"none", "open", "data", "eof"}) /\ Len(conn) = n
  BY <1>0 DEF ConnTypes
<1>4. /\ kind' \in Seq(ConnKinds) /\ Len(kind') = n + 1 /\ kind'[n + 1] = "client"
      /\ \A x \in 1..n : kind'[x] = kind[x]
  <2>1. "client" \in ConnKinds
    BY DEF ConnKinds
  <2> QED
    BY <1>2, <1>3, <2>1
<1>5. /\ conn' \in Seq({"none", "open", "data", "eof"}) /\ Len(conn') = n + 1
      /\ \A x \in 1..n : conn'[x] = conn[x]
  BY <1>2, <1>3
<1>6. /\ connTold' \in Seq(Nat) /\ Len(connTold') = n + 1 /\ connTold'[n + 1] = 0
      /\ \A x \in 1..n : connTold'[x] = connTold[x]
  BY <1>2, <1>3
<1>7. /\ n + 1 \in Int /\ n + 1 \notin 1..n /\ 1..n \subseteq 1..(n + 1)
      /\ n + 1 # Conn!ClientManager /\ n + 1 # Conn!RequestsManager
      /\ \A x \in 1..(n + 1) : x \in 1..n \/ x = n + 1
  BY <1>3 DEF Conn!ClientManager, Conn!RequestsManager
<1>8. n + 1 \notin Conn!ToSet(polling_hdl)
  BY <1>7 DEF ConnPolled
<1>9. /\ polling_hdl' \in Seq(Int) /\ OnceIn(polling_hdl')
      /\ Conn!ToSet(polling_hdl') = Conn!ToSet(polling_hdl) \cup {n + 1}
  <2>1. polling_hdl \in Seq(Int)
    BY <1>0 DEF ConnTypes
  <2> QED
    BY <1>0, <1>2, <1>7, <1>8, <2>1, OneAtEnd
<1>10. ConnPolled'
  <2>1. Conn!ToSet(polling_hdl') \subseteq
          {Conn!ClientManager, Conn!RequestsManager} \cup (1..n) \cup {n + 1}
    BY <1>9 DEF ConnPolled
  <2>2. n + 1 \in 1..(n + 1)
    BY <1>3
  <2> QED
    BY <1>4, <1>7, <2>1, <2>2 DEF ConnPolled, Conn!ClientManager, Conn!RequestsManager
<1>11. /\ slot \in [Conn!Sockets -> (1..n) \cup {Conn!None}]
       /\ gone \subseteq 1..n /\ handlerTimers \subseteq 1..n
       /\ \A i \in 1..Len(connRequests) : Registers(i) => connRequests[i].h \in 1..n
       /\ closing.h \in 0..n
  BY <1>0, ClosingIs DEF ConnTypes, ConnOrder
<1> HIDE DEF n
<1>12. ConnTypes'
  <2>1. slot' \in [Conn!Sockets -> (1..(n + 1)) \cup {Conn!None}]
    BY <1>2, <1>7, <1>11
  <2>2. gone' \subseteq 1..(n + 1) /\ handlerTimers' \subseteq 1..(n + 1)
    BY <1>2, <1>7, <1>11
  <2>3. Conn!None' = Conn!None /\ Conn!Sockets' = Conn!Sockets /\ Conn!NoClose' = Conn!NoClose
    BY DEF Conn!None, Conn!Sockets, Conn!NoClose
  <2>4. Len(kind') <= MaxHandlers
    BY <1>2, <1>4
  <2>5. /\ sockets' \subseteq Conn!Sockets /\ timers' \in 0..MaxTimers /\ answers' \in 0..1
        /\ connRequests' \in Seq(ConnRequest)
        /\ closing' \in [s : Conn!Sockets, h : Nat] \cup {Conn!NoClose}
        /\ ready' \subseteq Int /\ due' \in Nat /\ dueHandlers' \subseteq handlerTimers'
    BY <1>0, <1>2 DEF ConnTypes
  <2> QED
    BY <1>1, <1>4, <1>5, <1>6, <1>9, <2>1, <2>2, <2>3, <2>4, <2>5 DEF ConnTypes
<1>13. ConnSlots'
  <2>1. \A s \in Conn!Sockets : slot[s] # Conn!None => kind'[slot[s]] = kind[slot[s]]
    BY <1>4, <1>11
  <2> QED
    BY <1>0, <1>2, <2>1 DEF ConnSlots, Conn!Sockets, Conn!None
<1>14. ConnGone'
  <2>1. \A h \in gone : conn'[h] = "none"
    BY <1>0, <1>5, <1>11 DEF ConnGone
  <2>2. \A h \in handlerTimers : kind'[h] = "modemd" /\ h \notin gone
    BY <1>0, <1>4, <1>11 DEF ConnGone
  <2>3. \A h \in 1..n : kind'[h] = "client" => connTold'[h] = IF h \in gone THEN 1 ELSE 0
    BY <1>0, <1>4, <1>6 DEF ConnGone, n
  <2>4. connTold'[n + 1] = IF n + 1 \in gone THEN 1 ELSE 0
    BY <1>6, <1>7, <1>11
  <2>5. \A h \in 1..(n + 1) : kind'[h] = "client" => connTold'[h] = IF h \in gone THEN 1 ELSE 0
    BY <1>7, <2>3, <2>4
  <2>6. phase # "timers" => dueHandlers = {}
    BY <1>0 DEF ConnGone
  <2> QED
    BY <1>2, <1>4, <2>1, <2>2, <2>5, <2>6 DEF ConnGone
<1>15. ConnAsked'
  BY <1>0, <1>2 DEF ConnAsked, Unregisters, Conn!None, Conn!Sockets
<1>16. ConnOrder'
  <2>1. \A i \in 1..Len(connRequests) :
          Registers(i) => /\ connRequests[i].h \in 1..(n + 1)
                          /\ kind'[connRequests[i].h] \in Conn!Sockets
                          /\ connRequests[i].h \in gone => connRequests[i].h \in revived
    BY <1>0, <1>4, <1>7, <1>11 DEF ConnOrder
  <2>2. \A i, j \in 1..Len(connRequests) :
          Unregisters(i) /\ Registers(j) /\ connRequests[i].h = connRequests[j].h => j < i
    BY <1>0 DEF ConnOrder
  <2>3. Conn!Sockets' = Conn!Sockets
    BY DEF Conn!Sockets
  <2> QED
    BY <1>2, <1>4, <2>1, <2>2, <2>3 DEF ConnOrder, Registers, Unregisters
<1>17. ConnDone'
  <2>1. LetGo(closing.h) => LetGo(closing.h)'
    <3>1. closing.h # n + 1
      BY <1>3, <1>11 DEF n
    <3> QED
      BY <1>1, <1>2, <1>9, <3>1 DEF LetGo, Registers
  <2>2. n + 1 \notin gone
    BY <1>7, <1>11
  <2>3. gone \cap (ready' \cup Conn!ToSet(polling_hdl')) \subseteq revived
    BY <1>0, <1>2, <1>9, <2>2 DEF ConnDone
  <2> QED
    BY <1>0, <1>2, <2>1, <2>3 DEF ConnDone
<1> QED
  BY <1>9, <1>10, <1>12, <1>13, <1>14, <1>15, <1>16, <1>17 DEF ConnInv

\* The binder thread deletes a handler the daemon has let go.
LEMMA DeleteHandlerStep ==
  ASSUME ConnInv, Conn!DeleteHandler
  PROVE  ConnInv'
<1> DEFINE h == slot[closing.s]
<1>0. /\ ConnTypes /\ ConnSlots /\ ConnGone /\ ConnAsked /\ ConnOrder /\ ConnDone
      /\ OnceIn(polling_hdl)
  BY DEF ConnInv
<1>1. /\ UNCHANGED <<kind, sockets, timers, connRequests, current, phase, due, connTold, misused, revived>>
      /\ gone' = gone \cup {h} /\ handlerTimers' = handlerTimers \ {h}
      /\ dueHandlers' = dueHandlers \ {h} /\ conn' = [conn EXCEPT ![h] = "none"]
      /\ slot' = [slot EXCEPT ![closing.s] = Conn!None] /\ closing' = Conn!NoClose
      /\ answers' = answers - 1 /\ answers > 0
      /\ IF conn[h] = "none" THEN UNCHANGED <<polling_hdl, ready>>
         ELSE polling_hdl' = Conn!Without(polling_hdl, h) /\ ready' = ready \ {h}
  BY DEF Conn!DeleteHandler, Conn!worldVars, Conn!boundVars
<1>2. answers = 1 /\ answers' = 0
  BY <1>0, <1>1 DEF ConnTypes
<1>3. /\ closing.h # Conn!None /\ closing.s \in Conn!Sockets /\ h = closing.h
      /\ \A i \in 1..Len(connRequests) : Unregisters(i) => connRequests[i].h # h
  BY <1>0, <1>2 DEF ConnAsked
<1>4. /\ h \in 1..Len(kind) /\ kind[h] = closing.s /\ h \notin gone /\ Len(kind) \in Nat
      /\ closing.s \notin sockets
  <2>1. slot \in [Conn!Sockets -> (1..Len(kind)) \cup {Conn!None}] /\ Len(kind) \in Nat
    BY <1>0 DEF ConnTypes
  <2> QED
    BY <1>0, <1>3, <2>1 DEF ConnSlots
<1>5. LetGo(h) \/ h \in revived
  BY <1>0, <1>2, <1>3 DEF ConnDone
<1>6. /\ polling_hdl' \in Seq(Int) /\ OnceIn(polling_hdl') /\ ready' \subseteq ready
      /\ Conn!ToSet(polling_hdl') \subseteq Conn!ToSet(polling_hdl)
  <2>1. polling_hdl \in Seq(Int)
    BY <1>0 DEF ConnTypes
  <2> HIDE DEF h
  <2> QED
    BY <1>0, <1>1, <2>1, WithoutOne
<1> HIDE DEF h
<1>7. /\ conn' \in Seq({"none", "open", "data", "eof"}) /\ Len(conn') = Len(kind)
      /\ conn'[h] = "none" /\ \A x \in 1..Len(kind) : x # h => conn'[x] = conn[x]
  <2>1. conn \in Seq({"none", "open", "data", "eof"}) /\ Len(conn) = Len(kind)
    BY <1>0 DEF ConnTypes
  <2> QED
    BY <1>1, <1>4, <2>1
<1>8. /\ slot' \in [Conn!Sockets -> (1..Len(kind)) \cup {Conn!None}]
      /\ slot'[closing.s] = Conn!None
      /\ \A s \in Conn!Sockets : s # closing.s => slot'[s] = slot[s]
  <2>1. slot \in [Conn!Sockets -> (1..Len(kind)) \cup {Conn!None}]
    BY <1>0 DEF ConnTypes
  <2> QED
    BY <1>1, <1>3, <2>1
<1>9. ConnTypes'
  <2>1. gone' \subseteq 1..Len(kind) /\ handlerTimers' \subseteq 1..Len(kind)
        /\ dueHandlers' \subseteq handlerTimers'
    BY <1>0, <1>1, <1>4 DEF ConnTypes
  <2>2. Conn!None' = Conn!None /\ Conn!Sockets' = Conn!Sockets /\ Conn!NoClose' = Conn!NoClose
    BY DEF Conn!None, Conn!Sockets, Conn!NoClose
  <2>3. /\ kind' \in Seq(ConnKinds) /\ Len(kind') <= MaxHandlers
        /\ connTold' \in Seq(Nat) /\ Len(connTold') = Len(kind)
        /\ sockets' \subseteq Conn!Sockets /\ timers' \in 0..MaxTimers
        /\ connRequests' \in Seq(ConnRequest) /\ current' \in Seq(Int) /\ due' \in Nat
        /\ ready' \subseteq Int
    BY <1>0, <1>1, <1>6 DEF ConnTypes
  <2>4. answers' \in 0..1
    BY <1>2
  <2> QED
    BY <1>1, <1>6, <1>7, <1>8, <2>1, <2>2, <2>3, <2>4 DEF ConnTypes
<1>10. ConnSlots'
  <2>1. ASSUME NEW s \in Conn!Sockets, slot'[s] # Conn!None
        PROVE  kind[slot'[s]] = s /\ slot'[s] \notin gone' /\ s \notin sockets
    <3>1. s # closing.s /\ slot'[s] = slot[s]
      BY <1>8, <2>1
    <3>2. kind[slot[s]] = s /\ slot[s] \notin gone /\ s \notin sockets
      BY <1>0, <2>1, <3>1 DEF ConnSlots
    <3>3. slot[s] # h
      BY <1>4, <3>1, <3>2
    <3> QED
      BY <1>1, <3>1, <3>2, <3>3
  <2>2. Conn!None' = Conn!None /\ Conn!Sockets' = Conn!Sockets
    BY DEF Conn!None, Conn!Sockets
  <2>3. due' <= timers' /\ (sockets' # {} => timers' > 0)
    BY <1>0, <1>1 DEF ConnSlots
  <2> QED
    BY <1>1, <2>1, <2>2, <2>3 DEF ConnSlots
<1>11. ConnGone'
  <2>1. gone \subseteq 1..Len(kind)
    BY <1>0 DEF ConnTypes
  <2>2. \A x \in gone' : conn'[x] = "none"
    BY <1>0, <1>1, <1>7, <2>1 DEF ConnGone
  <2>3. \A x \in handlerTimers' : kind[x] = "modemd" /\ x \notin gone'
    BY <1>0, <1>1 DEF ConnGone
  <2>4. kind[h] # "client"
    BY <1>3, <1>4 DEF Conn!Sockets
  <2>5. \A x \in 1..Len(kind) : kind[x] = "client" => connTold[x] = IF x \in gone' THEN 1 ELSE 0
    BY <1>0, <1>1, <2>4 DEF ConnGone
  <2>6. phase' # "timers" => dueHandlers' = {}
    BY <1>0, <1>1 DEF ConnGone
  <2> QED
    BY <1>1, <2>2, <2>3, <2>5, <2>6 DEF ConnGone
<1>12. ConnAsked'
  <2>1. closing'.h = Conn!None
    BY <1>1 DEF Conn!NoClose
  <2>2. \A i \in 1..Len(connRequests) : Unregisters(i) => connRequests[i].h = Conn!None
    BY <1>0, <1>3 DEF ConnAsked
  <2>3. Conn!None' = Conn!None
    BY DEF Conn!None
  <2> QED
    BY <1>1, <1>2, <2>1, <2>2, <2>3 DEF ConnAsked, Unregisters
<1>13. ConnOrder'
  <2>1. \A i \in 1..Len(connRequests) :
          Registers(i) => (connRequests[i].h \in gone' => connRequests[i].h \in revived)
    BY <1>0, <1>1, <1>5 DEF ConnOrder, LetGo
  <2> QED
    BY <1>0, <1>1, <2>1 DEF ConnOrder, Registers, Unregisters, Conn!Sockets
<1>14. ConnDone'
  <2>1. gone \cap (ready' \cup Conn!ToSet(polling_hdl')) \subseteq revived
    BY <1>0, <1>6 DEF ConnDone
  <2>2. {h} \cap (ready' \cup Conn!ToSet(polling_hdl')) \subseteq revived
    BY <1>5, <1>6 DEF LetGo
  <2>3. gone' \cap (ready' \cup Conn!ToSet(polling_hdl')) \subseteq revived
    BY <1>1, <2>1, <2>2
  <2>4. misused' \subseteq gone' \cap revived'
    BY <1>0, <1>1 DEF ConnDone
  <2>5. ~(answers' > 0)
    BY <1>2
  <2> QED
    BY <1>1, <2>3, <2>4, <2>5 DEF ConnDone
<1> QED
  BY <1>6, <1>9, <1>10, <1>11, <1>12, <1>13, <1>14, Zenon DEF ConnInv

LEMMA PolledGrows ==
  ASSUME ConnInv, ConnPolled, NEW order \in Conn!Orders, Conn!HandlersFor(order),
         polling_hdl' = polling_hdl
  PROVE  ConnPolled'
<1>1. Len(kind) \in Nat /\ Len(order) \in Nat /\ Len(kind') = Len(kind) + Len(order)
  BY OrdersAre, ListsGrow, SMTT(30) DEF ConnInv, ConnTypes
<1>2. 1..Len(kind) \subseteq 1..Len(kind')
  BY <1>1
<1> QED
  BY <1>2 DEF ConnPolled, Conn!ClientManager, Conn!RequestsManager

LEMMA PolledStep == ASSUME ConnInv, ConnWork, ConnPolled, Conn!Next PROVE ConnPolled'
<1>0. ConnTypes
  BY DEF ConnInv
<1>1. ASSUME UNCHANGED <<kind, polling_hdl>> PROVE ConnPolled'
  BY <1>1 DEF ConnPolled, Conn!ClientManager, Conn!RequestsManager
<1>2. ASSUME NEW h \in DOMAIN kind, kind' = kind,
             \/ polling_hdl' = Conn!Without(polling_hdl, h)
             \/ polling_hdl' = Append(Conn!Without(polling_hdl, h), h)
      PROVE  ConnPolled'
  <2>1. h \in 1..Len(kind)
    BY <1>0 DEF ConnTypes
  <2> QED
    BY <1>2, <2>1, PolledStays
<1>3. ASSUME NEW s \in Conn!Sockets, Conn!SocketConnect(s) PROVE ConnPolled'
  <2>1. <<s>> \in Conn!Orders /\ polling_hdl' = polling_hdl
    BY <1>3 DEF Conn!Orders, Conn!Sockets, Conn!SocketConnect, Conn!loopVars
  <2>2. CASE Conn!HandlersFor(<<s>>)
    BY <2>1, <2>2, PolledGrows
  <2>3. CASE kind' = kind
    BY <1>1, <2>1, <2>3
  <2> QED
    BY <1>3, <2>2, <2>3 DEF Conn!SocketConnect
<1>4. ASSUME Conn!SocketReconnect PROVE ConnPolled'
  BY <1>4, PolledGrows DEF Conn!SocketReconnect
<1>5. ASSUME Conn!DeleteHandler PROVE ConnPolled'
  <2> DEFINE h == slot[closing.s]
  <2>1. kind' = kind /\ (polling_hdl' = polling_hdl \/ polling_hdl' = Conn!Without(polling_hdl, h))
    BY <1>5 DEF Conn!DeleteHandler
  <2>2. h \in 1..Len(kind)
    <3>1. answers > 0 /\ answers \in 0..1
      BY <1>0, <1>5 DEF Conn!DeleteHandler, ConnTypes
    <3>2. closing.h # Conn!None /\ closing.s \in Conn!Sockets /\ h = closing.h
      BY <3>1 DEF ConnInv, ConnAsked
    <3> QED
      BY <1>0, <3>2 DEF ConnTypes
  <2> HIDE DEF h
  <2> QED
    BY <2>1, <2>2, PolledStays
<1>6. ASSUME Conn!ConnectServer PROVE ConnPolled'
  <2> PICK h \in dueHandlers : IF h \in gone THEN UNCHANGED <<conn, polling_hdl, handlerTimers>>
                               ELSE Conn!Reconnects(h)
    BY <1>6 DEF Conn!ConnectServer
  <2>1. h \in DOMAIN kind
    BY <1>0 DEF ConnTypes
  <2>2. kind' = kind
    BY <1>6 DEF Conn!ConnectServer
  <2> QED
    BY <1>1, <1>2, <2>1, <2>2 DEF Conn!Reconnects
<1>7. ASSUME Conn!ProcessRequest PROVE ConnPolled'
  <2> DEFINE r == connRequests[1]
             served == r.type = "unregister" /\ r.h # Conn!None
  <2>1. /\ connRequests # <<>> /\ kind' = kind
        /\ polling_hdl' = IF served THEN Conn!Without(polling_hdl, r.h)
                          ELSE IF r.type = "register" /\ r.h \notin Conn!ToSet(polling_hdl)
                          THEN Append(polling_hdl, r.h) ELSE polling_hdl
    BY <1>7, RequestIs
  <2>2. 1 \in 1..Len(connRequests) /\ Len(kind) \in Nat
    BY <1>0, <2>1, RequestTaken DEF ConnTypes
  <2>3. r.h \in 0..Len(kind)
    BY <2>2, ClosingIs
  <2>4. served => r.h \in 1..Len(kind)
    BY <2>2, <2>3 DEF Conn!None
  <2>5. r.type = "register" => r.h \in 1..Len(kind)
    BY <2>2 DEF ConnInv, ConnOrder, Registers
  <2> HIDE DEF r
  <2> QED
    BY <1>1, <2>1, <2>4, <2>5, PolledStays
<1>8. ASSUME Conn!AcceptClient PROVE ConnPolled'
  BY <1>8, AcceptClientStep
<1>9. ASSUME NEW h \in DOMAIN kind, Conn!StateClosed(h) \/ Conn!TimeClosed(h) \/ Conn!ClientClosed(h)
      PROVE  ConnPolled'
  BY <1>2, <1>9 DEF Conn!StateClosed, Conn!TimeClosed, Conn!ClientClosed, Conn!Reconnects
<1>10. ASSUME \/ \E s \in Conn!Sockets : Conn!SocketClose(s)
              \/ Conn!Prepare \/ Conn!Poll \/ Conn!TimersRun \/ Conn!NextEntry
              \/ \E h \in DOMAIN kind : Conn!ProcessData(h)
              \/ Conn!PeerSends \/ Conn!ClientComes
       PROVE  ConnPolled'
  <2>1. UNCHANGED <<kind, polling_hdl>>
    BY <1>10 DEF Conn!SocketClose, Conn!Prepare, Conn!Poll, Conn!TimersRun, Conn!NextEntry,
       Conn!ProcessData, Conn!PeerSends, Conn!ClientComes, Conn!loopVars
  <2> QED
    BY <1>1, <2>1
<1> QED
  BY <1>3, <1>4, <1>5, <1>6, <1>7, <1>8, <1>9, <1>10 DEF Conn!Next, Conn!Created

LEMMA ConnStep == ASSUME ConnInv, ConnWork, ConnPolled, Conn!Next PROVE ConnInv'
<1>1. ASSUME NEW h \in DOMAIN kind,
             Conn!ProcessData(h) \/ Conn!StateClosed(h) \/ Conn!TimeClosed(h) \/ Conn!ClientClosed(h)
      PROVE  ConnInv'
  BY <1>1, ProcessDataStep, StateClosedStep, TimeClosedStep, ClientClosedStep
<1> QED
  BY <1>1, SocketConnectStep, SocketCloseStep, DeleteHandlerStep, PrepareStep, PollStep,
     SocketReconnectStep, ConnectServerStep, ProcessRequestStep, AcceptClientStep, PassingSteps
  DEF Conn!Next, Conn!Created

LEMMA ConnInit == ASSUME Conn!Init PROVE ConnInv /\ ConnWork /\ ConnPolled
<1> USE DEF Conn!ClientManager, Conn!RequestsManager, Conn!None, Conn!NoClose
<1>1. /\ slot = [s \in Conn!Sockets |-> 0] /\ kind = <<>> /\ conn = <<>> /\ gone = {}
      /\ sockets = {} /\ timers = 0 /\ handlerTimers = {}
      /\ connRequests = <<>> /\ answers = 0 /\ closing = [s |-> "none", h |-> 0]
      /\ polling_hdl = <<-1, -2>> /\ current = <<>> /\ ready = {}
      /\ phase = "prepare" /\ due = 0 /\ dueHandlers = {} /\ connTold = <<>> /\ misused = {}
  BY DEF Conn!Init
<1>2. MaxHandlers \in Nat /\ MaxTimers \in Nat
  BY Bounds
<1>3. ConnTypes
  <2>1. Len(kind) = 0 /\ Len(conn) = 0 /\ Len(connTold) = 0
    BY <1>1
  <2>2. kind \in Seq(ConnKinds) /\ conn \in Seq({"none", "open", "data", "eof"}) /\ connTold \in Seq(Nat)
        /\ connRequests \in Seq(ConnRequest) /\ current \in Seq(Int)
    BY <1>1
  <2>3. polling_hdl \in Seq(Int)
    BY <1>1
  <2>4. slot \in [Conn!Sockets -> (1..Len(kind)) \cup {0}]
    BY <1>1
  <2>5. timers \in 0..MaxTimers /\ answers \in 0..1 /\ due \in Nat /\ Len(kind) <= MaxHandlers
    BY <1>1, <1>2, <2>1
  <2> QED
    BY <1>1, <2>1, <2>2, <2>3, <2>4, <2>5 DEF ConnTypes
<1>4. ConnSlots
  BY <1>1 DEF ConnSlots
<1>5. ConnGone
  <2>1. 1..Len(kind) = {}
    BY <1>1
  <2> QED
    BY <1>1, <2>1 DEF ConnGone
<1>6. 1..Len(connRequests) = {}
  BY <1>1
<1>7. ConnAsked /\ ConnOrder
  BY <1>1, <1>6 DEF ConnAsked, ConnOrder
<1>8. ConnDone
  BY <1>1 DEF ConnDone
<1>9. OnceIn(polling_hdl) /\ OnceIn(current)
  BY <1>1 DEF OnceIn
<1>10. ConnWork
  BY <1>1, <1>9 DEF ConnWork
<1>11. ConnPolled
  BY <1>1 DEF ConnPolled, Conn!ToSet
<1> QED
  BY <1>3, <1>4, <1>5, <1>7, <1>8, <1>9, <1>10, <1>11 DEF ConnInv

LEMMA ConnInvHolds == SuiteSpec => [](ConnInv /\ ConnWork /\ ConnPolled)
<1> DEFINE I == ConnInv /\ ConnWork /\ ConnPolled
<1>1. SuiteInit => I
  <2>1. SuiteInit => Conn!Init
    BY DEF SuiteInit
  <2> QED
    BY <2>1, ConnInit
<1>2. I /\ [SuiteNext]_suiteVars => I'
  <2>1. ASSUME I, UNCHANGED connVars PROVE I'
    <3>1. ConnInv'
      BY <2>1, SMTT(30) DEF connVars, ConnInv, ConnTypes, ConnSlots, ConnGone, ConnAsked, ConnOrder, ConnDone,
         LetGo, Registers, Unregisters, OnceIn
    <3>2. ConnWork' /\ ConnPolled'
      BY <2>1 DEF connVars, ConnWork, ConnPolled, OnceIn
    <3> QED
      BY <3>1, <3>2
  <2>2. [SuiteNext]_suiteVars => Conn!Next \/ UNCHANGED connVars
    BY DEF SuiteNext, Still, suiteVars
  <2>3. I /\ Conn!Next => I'
    BY ConnStep, WorkStep, PolledStep
  <2> QED
    BY <2>1, <2>2, <2>3
<1> HIDE DEF I
<1>3. SuiteSpec => []I
  BY <1>1, <1>2, PTL DEF SuiteSpec
<1> QED
  BY <1>3 DEF I

\* The poll loop uses no handler after the binder thread has deleted it, but one that waited
\* for its own reconnection when it was unregistered; a socket that waits to be opened has a
\* timer; the end of a client is told once, and the close of a socket that has a handler has
\* its request or its answer under way.
THEOREM ConnectionsHeld == SuiteSpec => []ConnectionsKept
<1>1. ConnInv => Conn!NoneUsedAfterwards
  BY DEF ConnInv, ConnDone, Conn!NoneUsedAfterwards
<1>2. ConnInv => Conn!RetryPending
  BY DEF ConnInv, ConnSlots, Conn!RetryPending
<1>3. ConnInv => Conn!EndsTold
  <2> SUFFICES ASSUME ConnInv PROVE Conn!EndsTold
    OBVIOUS
  <2> DEFINE n == Len(connRequests)
             A == {i \in DOMAIN connRequests :
                     connRequests[i].type = "unregister" /\ connRequests[i].h = closing.h}
  <2>1. DOMAIN connRequests = 1..n /\ DOMAIN kind = 1..Len(kind) /\ answers \in 0..1
    BY DEF ConnInv, ConnTypes
  <2>2. \A h \in DOMAIN kind : kind[h] = "client" => connTold[h] = IF h \in gone THEN 1 ELSE 0
    BY <2>1 DEF ConnInv, ConnGone
  <2>3. ASSUME closing.h # Conn!None PROVE answers + Cardinality(A) = 1
    <3>1. CASE answers = 1
      <4>1. \A i \in 1..n : ~(connRequests[i].type = "unregister" /\ connRequests[i].h = closing.h)
        BY <2>3, <3>1 DEF ConnInv, ConnAsked, Unregisters
      <4>2. A = {}
        BY <2>1, <4>1
      <4>3. Cardinality(A) = 0
        BY <4>2, FS_EmptySet
      <4> QED
        BY <3>1, <4>3
    <3>2. CASE answers = 0
      <4>1. PICK i \in 1..n : \A j \in 1..n :
                connRequests[j].type = "unregister" /\ connRequests[j].h = closing.h <=> j = i
        BY <2>3, <3>2 DEF ConnInv, ConnAsked, Unregisters
      <4>2. A = {i}
        BY <2>1, <4>1
      <4>3. Cardinality(A) = 1
        BY <4>2, FS_Singleton
      <4> QED
        BY <3>2, <4>3
    <3> QED
      BY <2>1, <3>1, <3>2
  <2>4. Conn!Cardinality(A) = Cardinality(A)
    BY DEF Conn!Cardinality, Cardinality
  <2> QED
    BY <2>2, <2>3, <2>4 DEF Conn!EndsTold, Conn!Created
<1>4. ConnInv /\ ConnWork /\ ConnPolled => ConnectionsKept
  BY <1>1, <1>2, <1>3 DEF ConnectionsKept, Conn!ConnectionsKept
<1> QED
  BY <1>4, ConnInvHolds, PTL
=============================================================================
