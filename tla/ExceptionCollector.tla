-------------------------- MODULE ExceptionCollector --------------------------
(***************************************************************************)
(* The exception collector (aprd/1.0/default).  Five threads wait for the  *)
(* client's callback and then report to it: the versions of the modem, of  *)
(* the WCN and of the GPS chip, the exceptions that modemd and wcnd tell   *)
(* through their sockets, and the changes of the modem's configuration.    *)
(* A call that fails, because the client is dead, is tried again five      *)
(* times a second apart; then the report is lost.                          *)
(*                                                                         *)
(* The threads share only the callback: each behaviour follows one.        *)
(***************************************************************************)
EXTENDS Naturals, FiniteSets, Sequences, SequencesExt

CONSTANTS
  MaxClients,   (* bound: clients that register, one after the other         *)
  MaxEvents     (* bound: changes of the world outside                       *)

Threads == {"objmodem", "objwcn", "objgps", "objmodem_exp", "objprop"}
Daemons == {"modemd", "wcnd"}
Unknown == 0
Failed  == "failed"

\* Setup of the modem's thread: the number of phones is not kept if the property comes too
\* late or is larger than four.
PhoneNums(t) == IF t = "objmodem" THEN {0, 1, 2} ELSE {1}

VARIABLES
  watched,      \* the thread that is followed
  mCallback,    \* the last client that registered, or 0
  clients, living, \* clients so far, and the one that lives, or 0
  sem,          \* the thread's semaphore
  pc, report, retry_num,
  phoneNum,
  up,           \* which of modem and daemons run
  fd,           \* the daemons the thread is connected to
  stream,       \* messages of each daemon, not read
  readable,     \* what select has found
  et,           \* the type of the last WCN report
  config, value_old,
  events,
  tries,        \* history: calls made for this report
  told          \* history: the reports concluded, with whether the client got them

procVars  == <<mCallback, sem, pc, report, retry_num, fd, readable, et, value_old>>
worldVars == <<clients, living, up, stream, config, events>>
expVars   == <<watched, procVars, phoneNum, worldVars, tries, told>>

NoReport == [what |-> "none"]

Init ==
  /\ watched \in Threads /\ phoneNum \in PhoneNums(watched)
  /\ mCallback = 0 /\ clients = 0 /\ living = 0 /\ sem = 0 /\ pc = "start"
  /\ report = NoReport /\ retry_num = 0 /\ tries = 0 /\ told = <<>>
  /\ up = Daemons \cup {"modem"} /\ fd = {} /\ stream = [d \in Daemons |-> <<>>]
  /\ readable = {} /\ et = "E_ANR"
  /\ config \in {Unknown, 1} /\ (watched # "objprop" => config = 1) /\ value_old = Unknown
  /\ events = 0

---------------------------------------------------------------------------
(* The callback *)

\* By a new client, or again by the one that lives when the process was started anew.
SetCallback ==
  /\ \/ living = 0 /\ clients < MaxClients /\ clients' = clients + 1 /\ living' = clients'
     \/ living # 0 /\ mCallback = 0 /\ UNCHANGED <<clients, living>>
  /\ mCallback' = living' /\ sem' = sem + 1
  /\ UNCHANGED <<watched, pc, report, retry_num, fd, readable, et, value_old, phoneNum, up, stream,
                 config, events, tries, told>>

\* The service is not told.
ClientDies ==
  /\ living # 0 /\ living' = 0
  /\ UNCHANGED <<watched, procVars, phoneNum, clients, up, stream, config, events, tries, told>>

\* LVendorFunc
Start ==
  /\ pc = "start" /\ pc' = IF mCallback = 0 THEN "sem_wait" ELSE "work"
  /\ UNCHANGED <<watched, mCallback, sem, report, retry_num, fd, readable, et, value_old, phoneNum,
                 worldVars, tries, told>>

SemWait ==
  /\ pc = "sem_wait" /\ sem > 0 /\ sem' = sem - 1 /\ pc' = "start"
  /\ UNCHANGED <<watched, mCallback, report, retry_num, fd, readable, et, value_old, phoneNum,
                 worldVars, tries, told>>

\* The thread has something to report.
Reports(r) == report' = r /\ tries' = 0 /\ pc' = "triger"

\* The thread goes on at another place.
At(t, p) == watched = t /\ pc = p
GoOn(p)  == pc' = p /\ UNCHANGED <<report, tries>>
Rest     == UNCHANGED <<watched, mCallback, sem, phoneNum, worldVars, told>>
NoSocket == UNCHANGED <<fd, readable, et>>

\* Where each thread goes when its report is concluded.
After(what) ==
  CASE what = "version"   -> "PROCESSIMEI"
    [] what = "exception" -> IF readable = {} THEN "select" ELSE "read"
    [] what = "config"    -> "poll"
    [] OTHER              -> "done"

Concluded(ok) ==
  /\ told' = Append(told, [report |-> report, ok |-> ok, tries |-> tries'])
  /\ pc' = After(report.what) /\ report' = NoReport
  /\ value_old' = IF report.what = "config" THEN report.data ELSE value_old

\* CALLBACK_RETRY
Trigger ==
  /\ pc = "triger" /\ tries' = tries + 1
  /\ \/ living = mCallback /\ Concluded(TRUE) /\ UNCHANGED retry_num
     \/ /\ living # mCallback /\ retry_num' = retry_num + 1
        /\ IF retry_num < 5 THEN UNCHANGED <<pc, report, told, value_old>> ELSE Concluded(FALSE)
  /\ UNCHANGED <<watched, mCallback, sem, fd, readable, et, phoneNum, worldVars>>

---------------------------------------------------------------------------
(* ModemInfoThread: the version, then the numbers of the phones *)

\* REWAITING
ModemPrepared ==
  /\ At("objmodem", "work") /\ "modem" \in up /\ GoOn("isModemAlive")
  /\ Rest /\ NoSocket /\ UNCHANGED <<retry_num, value_old>>

\* isModemAlive
IfModemAlive(next) == IF "modem" \in up THEN GoOn(next) ELSE GoOn("work")
AskModem ==
  /\ \/ At("objmodem", "isModemAlive") /\ IfModemAlive("GetVer")
     \/ At("objmodem", "PROCESSIMEI") /\ IfModemAlive("GetIMEIs")
  /\ Rest /\ NoSocket /\ UNCHANGED <<retry_num, value_old>>

\* GetVer: no version if the modem's answer is missing, empty, an error or too long.
ModemVer == {Failed} \cup {v \in {"version"} : "modem" \in up}

\* The count of failed calls is that of the function, not of the report.
GetModemVer ==
  /\ At("objmodem", "GetVer")
  /\ \E v \in ModemVer : IF v = Failed THEN GoOn("isModemAlive") ELSE Reports([what |-> "version"])
  /\ Rest /\ NoSocket /\ UNCHANGED <<retry_num, value_old>>

\* Mutant: the numbers are told with the failures of the version counted.
KeepRetries  == retry_num
ResetRetries == 0

\* GetIMEIs of all phones, each of which may fail.
GetIMEIs == {ok \in BOOLEAN : IF ok THEN "modem" \in up \/ phoneNum = 0 ELSE phoneNum > 0}

ProcessImei ==
  /\ At("objmodem", "GetIMEIs")
  /\ \E ok \in GetIMEIs :
       IF ok THEN Reports([what |-> "imei", data |-> phoneNum]) /\ retry_num' = ResetRetries
       ELSE GoOn("PROCESSIMEI") /\ UNCHANGED retry_num
  /\ Rest /\ NoSocket /\ UNCHANGED value_old

(* WCNInfoThread and GeInfoThread *)

\* GetVer: of an answer of wcnd that has the form of one of the chips.
WcnVer == {Failed} \cup {v \in {"version"} : "wcnd" \in up}

WcnExecute ==
  /\ At("objwcn", "work")
  /\ \E v \in WcnVer : IF v = Failed THEN GoOn("work") ELSE Reports([what |-> "wcn", data |-> v])
  /\ Rest /\ NoSocket /\ UNCHANGED <<retry_num, value_old>>

\* GetVer: a file without a version counts as an empty one.
GpsVer == {Failed, "", "version"}

GpsExecute ==
  /\ At("objgps", "work")
  /\ \E v \in GpsVer : IF v = Failed THEN GoOn("work") ELSE Reports([what |-> "gps", data |-> v])
  /\ Rest /\ NoSocket /\ UNCHANGED <<retry_num, value_old>>

---------------------------------------------------------------------------
(* ModemThread: the sockets *)

\* reconnect, ConnectService: each daemon that is not connected is tried for half a minute.
\* The process ends if neither answers; init starts it again.
ConnectModemd ==
  /\ At("objmodem_exp", "work") /\ GoOn("connect_wcnd")
  /\ fd' = fd \cup ({"modemd"} \cap up)
  /\ Rest /\ UNCHANGED <<retry_num, readable, et, value_old>>

ConnectWcnd ==
  /\ At("objmodem_exp", "connect_wcnd")
  /\ fd' = fd \cup ({"wcnd"} \cap up)
  /\ IF fd' # {} THEN GoOn("select") /\ UNCHANGED <<mCallback, sem, retry_num, et>>
     ELSE GoOn("start") /\ mCallback' = 0 /\ sem' = 0 /\ retry_num' = 0 /\ et' = "E_ANR"
  /\ UNCHANGED <<watched, readable, phoneNum, worldVars, told, value_old>>

\* A daemon that has gone away is found at the end of its messages.
Select ==
  /\ At("objmodem_exp", "select")
  /\ readable' = {d \in fd : stream[d] # <<>>} /\ readable' # {}
  /\ GoOn("read") /\ Rest /\ UNCHANGED <<retry_num, value_old, fd, et>>

\* What modemd says, any number of messages in one read: a reset or a living modem hides an
\* exception, and a blocked modem hides an assertion.
ModemException(text) ==
  IF {"Modem Reset", "Modem Alive"} \cap text # {} THEN "none"
  ELSE IF "Modem Blocked" \in text THEN "E_MODEM_BLOCKED"
  ELSE IF "Assert" \in text THEN "E_MODEM_ASSERT" ELSE "none"

\* What wcnd says: an unknown text has the type of the report before.
WcnException(text) ==
  IF "WCN-CP2-EXCEPTION" \in text THEN "E_WCN_ASSERT"
  ELSE IF "WCN-GE2-EXCEPTION" \in text THEN "E_WCN_GE2" ELSE et

Texts(d) == IF d = "modemd" THEN {"Modem Blocked", "Assert", "Modem Reset", "Modem Alive"}
            ELSE {"WCN-CP2-EXCEPTION", "WCN-GE2-EXCEPTION", "other"}

\* The first socket that is readable is read: as many bytes as there are, or its end.
Read ==
  /\ At("objmodem_exp", "read")
  /\ LET d == IF "modemd" \in readable THEN "modemd" ELSE "wcnd"
         text == ToSet(stream[d]) \ {"eof"}
         type == IF d = "modemd" THEN ModemException(text) ELSE WcnException(text)
     IN  IF text = {}
         THEN /\ fd' = fd \ {d} /\ stream' = [stream EXCEPT ![d] = <<>>] /\ readable' = {}
              /\ GoOn("work") /\ UNCHANGED <<et, retry_num>>
         ELSE /\ stream' = [stream EXCEPT ![d] = SelectSeq(@, LAMBDA m : m = "eof")]
              /\ readable' = readable \ {d} /\ UNCHANGED fd
              /\ et' = IF type = "none" THEN et ELSE type
              /\ IF d = "modemd" /\ type = "none"
                 THEN GoOn(IF readable' = {} THEN "select" ELSE "read") /\ UNCHANGED retry_num
                 ELSE Reports([what |-> "exception", data |-> text, type |-> type])
                      /\ retry_num' = 0
  /\ UNCHANGED <<watched, mCallback, sem, phoneNum, clients, living, up, config, events, told, value_old>>

---------------------------------------------------------------------------
(* PropMonitor *)

\* The first value, and then every value that differs from the last one told.
ReadConfig ==
  /\ At("objprop", "work") \/ At("objprop", "poll")
  /\ config # value_old
  /\ Reports([what |-> "config", data |-> config]) /\ retry_num' = 0
  /\ Rest /\ NoSocket /\ UNCHANGED value_old

---------------------------------------------------------------------------
(* The world outside *)

ModemToggles ==
  /\ watched = "objmodem" /\ events < MaxEvents /\ events' = events + 1
  /\ up' = IF "modem" \in up THEN up \ {"modem"} ELSE up \cup {"modem"}
  /\ UNCHANGED <<watched, procVars, phoneNum, clients, living, stream, config, tries, told>>

DaemonToggles ==
  /\ watched = "objmodem_exp" /\ events < MaxEvents /\ events' = events + 1
  /\ \E d \in Daemons :
       IF d \in up THEN /\ up' = up \ {d}
                        /\ stream' = IF d \in fd /\ "eof" \notin ToSet(stream[d])
                                   THEN [stream EXCEPT ![d] = Append(@, "eof")] ELSE stream
       ELSE up' = up \cup {d} /\ UNCHANGED stream
  /\ UNCHANGED <<watched, procVars, phoneNum, clients, living, config, tries, told>>

DaemonSays ==
  /\ watched = "objmodem_exp" /\ events < MaxEvents /\ events' = events + 1
  /\ \E d \in {d \in fd \cap up : "eof" \notin ToSet(stream[d])} : \E m \in Texts(d) : stream' = [stream EXCEPT ![d] = Append(@, m)]
  /\ UNCHANGED <<watched, procVars, phoneNum, clients, living, up, config, tries, told>>

ConfigChanges ==
  /\ watched = "objprop" /\ events < MaxEvents /\ events' = events + 1
  /\ config' \in {1, 2} \ {config}
  /\ UNCHANGED <<watched, procVars, phoneNum, clients, living, up, stream, tries, told>>

Next ==
  \/ SetCallback \/ ClientDies \/ Start \/ SemWait \/ Trigger
  \/ ModemPrepared \/ AskModem \/ GetModemVer \/ ProcessImei \/ WcnExecute \/ GpsExecute
  \/ ConnectModemd \/ ConnectWcnd \/ Select \/ Read \/ ReadConfig
  \/ ModemToggles \/ DaemonToggles \/ DaemonSays \/ ConfigChanges

Spec == Init /\ [][Next]_expVars

---------------------------------------------------------------------------
TypeOK ==
  /\ watched \in Threads /\ mCallback \in 0..clients /\ living \in {0, clients}
  /\ retry_num \in Nat /\ tries \in 0..6 /\ sem \in Nat
  /\ fd \cup readable \subseteq Daemons /\ (report = NoReport <=> pc # "triger")

\* A report is given up only after six failed calls.  (The version is told again when the
\* modem restarts in between, with the failures of the first time counted.)
LostAfterSixCalls ==
  \A i \in DOMAIN told : told[i].ok \/ told[i].tries = 6
                        \/ \E j \in 1..i - 1 : told[j].report.what = "version" /\ told[i].report = told[j].report

\* The numbers of the phones are told once and last, after a version.
NumbersToldLast ==
  \A i \in DOMAIN told : told[i].report.what = "imei" => i = Len(told) /\ i > 1

\* A configuration is told when it differs from the one told before; while PropMonitor
\* sleeps, the last one told is the one it compares with.
ConfigToldOnce ==
  watched = "objprop" =>
    /\ \A i \in 2..Len(told) : told[i].report # told[i - 1].report
    /\ told # <<>> => value_old = told[Len(told)].report.data

ReportsAccounted == LostAfterSixCalls /\ NumbersToldLast /\ ConfigToldOnce
=============================================================================
