--------------------------- MODULE GnssExtensions ---------------------------
(***************************************************************************)
(* The extensions of the GNSS services that the HAL may or may not have:   *)
(* how classes Gnss (2.0) and GnssExt (1.0) hand them out, and what each   *)
(* passes on between the framework and the HAL.  Measurements, messages    *)
(* and batching are in GnssService.                                        *)
(*                                                                         *)
(* Extensions share nothing, so a behaviour is about one of them, used by  *)
(* one framework after the other.  Calls run on the one binder thread;     *)
(* reports come on threads of the HAL, once it has been given callbacks.   *)
(***************************************************************************)
EXTENDS Integers, Sequences, FiniteSets

CONSTANTS
  Frameworks,       (* processes of the framework, one after the other          *)
  Fences,           (* numbers of geofences                                     *)
  Constellations,   (* of satellites; the HAL knows those from 1 to 6           *)
  Blacklists,       (* that are set, sequences of <<constellation, svid>>       *)
  Intervals,        (* that are asked for between positions, in milliseconds    *)
  MaxCalls, MaxReports       (* bounds                                          *)

VARIABLES
  kind,             \* "1.0" or "2.0" and the extension this behaviour is about
  implemented,      \* the HAL has it
  made, handed,     \* instances that were made, what the last getter returned
  running,          \* the framework that runs
  extCb, latest,    \* the callback of the extension; the last one given to it
  mBlacklistedConstellationSet, mBlacklistedSourceSet,
  setting,          \* what the HAL has been told
  listSet,          \* the blacklist last set
  fences,           \* the HAL's geofences: number -> "active" or "paused"
  told,             \* of the last report: who was told, and what
  crashed,          \* why the service's process ended
  extCalls, extReports

extVars == <<kind, implemented, made, handed, running, extCb, latest,
             mBlacklistedConstellationSet, mBlacklistedSourceSet, setting, listSet, fences, told,
             crashed, extCalls, extReports>>

None == [none |-> TRUE]
Nobody == 0

stays == <<kind, implemented, running>>
cbVars == <<extCb, latest>>
listVars == <<mBlacklistedConstellationSet, mBlacklistedSourceSet, listSet>>

Kinds2 == {"geofencing", "agnss", "ril", "config", "visibility", "corrections", "xtra", "debug",
           "unisoc", "navigation"}
Kinds1 == {"geofencing", "agnss", "ril", "config", "xtra", "debug", "ni", "navigation"}

Init ==
  /\ kind \in ({"2.0"} \X Kinds2) \cup ({"1.0"} \X Kinds1)
  /\ implemented \in BOOLEAN
  /\ made = IF kind[2] = "navigation" THEN 1 ELSE 0
  /\ handed = 0 /\ running = 1 /\ extCb = Nobody /\ latest = Nobody
  /\ mBlacklistedConstellationSet = {} /\ mBlacklistedSourceSet = {} /\ listSet = <<>>
  /\ setting = None /\ fences = <<>> /\ told = None /\ crashed = "no"
  /\ extCalls = 0 /\ extReports = 0

\* A call of the framework to this kind of extension, of any release or of one.
Called(k) ==
  /\ crashed = "no" /\ kind[2] = k /\ extCalls < MaxCalls
  /\ extCalls' = extCalls + 1
  /\ UNCHANGED <<stays, extReports>>

Used(k) == made > 0 /\ Called(k) /\ UNCHANGED <<made, handed>>

---------------------------------------------------------------------------
(* Handing out the extensions *)

\* Most getters: what the HAL has not is null; else one is made at the first request.  A
\* second instance would end the process (LOG_ALWAYS_FATAL_IF(sInterfaceExists)).
Extension(rel, k) ==
  /\ kind[1] = rel /\ Called(k)
  /\ made' = IF made = 0 /\ implemented THEN made + 1 ELSE made
  /\ handed' = made'
  /\ crashed' = IF made' > 1 THEN "second instance" ELSE crashed
  /\ UNCHANGED <<cbVars, listVars, setting, fences, told>>

\* Getters that are stubs.
NoExtension(rel, k) ==
  /\ kind[1] = rel /\ Called(k) /\ handed' = 0
  /\ UNCHANGED <<made, cbVars, listVars, setting, fences, told, crashed>>

GetExtensionGnssGeofencing         == Extension("2.0", "geofencing")
GetExtensionAGnss                  == NoExtension("2.0", "agnss")
GetExtensionAGnss_2_0              == Extension("2.0", "agnss")
GetExtensionAGnssRil               == NoExtension("2.0", "ril")
GetExtensionAGnssRil_2_0           == Extension("2.0", "ril")
GetExtensionXtra                   == Extension("2.0", "xtra")
GetExtensionGnssConfiguration      == Extension("2.0", "config")
GetExtensionGnssConfiguration_1_1  == Extension("2.0", "config")
GetExtensionGnssConfiguration_2_0  == Extension("2.0", "config")
GetExtensionGnssDebug              == Extension("2.0", "debug")
GetExtensionGnssDebug_2_0          == Extension("2.0", "debug")
GetExtensionMeasurementCorrections == Extension("2.0", "corrections")
GetExtensionVisibilityControl      == Extension("2.0", "visibility")
GetExtensionUnisocExt              == Extension("2.0", "unisoc")

GnssExtGetExtensionAGnssRilExt        == Extension("1.0", "ril")
GnssExtGetExtensionGnssConfiguration  == Extension("1.0", "config")
GnssExtGetExtensionGnssGeofencing     == Extension("1.0", "geofencing")
GnssExtGetExtensionAGnss              == Extension("1.0", "agnss")
GnssExtGetExtensionGnssNi             == Extension("1.0", "ni")
GnssExtGetExtensionXtra               == Extension("1.0", "xtra")
GnssExtGetExtensionGnssDebug          == Extension("1.0", "debug")

GetExtension ==
  \/ GetExtensionGnssGeofencing \/ GetExtensionAGnss \/ GetExtensionAGnss_2_0
  \/ GetExtensionAGnssRil \/ GetExtensionAGnssRil_2_0 \/ GetExtensionXtra
  \/ GetExtensionGnssConfiguration \/ GetExtensionGnssConfiguration_1_1
  \/ GetExtensionGnssConfiguration_2_0 \/ GetExtensionGnssDebug \/ GetExtensionGnssDebug_2_0
  \/ GetExtensionMeasurementCorrections \/ GetExtensionVisibilityControl
  \/ GetExtensionUnisocExt
  \/ GnssExtGetExtensionAGnssRilExt \/ GnssExtGetExtensionGnssConfiguration
  \/ GnssExtGetExtensionGnssGeofencing \/ GnssExtGetExtensionAGnss
  \/ GnssExtGetExtensionGnssNi \/ GnssExtGetExtensionXtra \/ GnssExtGetExtensionGnssDebug

---------------------------------------------------------------------------
(* Callbacks and reports *)

\* setCallback of the extensions that have one: it replaces the other.
SetCallback ==
  /\ \E k \in {"geofencing", "agnss", "ril", "visibility", "corrections", "xtra", "ni"} : Used(k)
  /\ extCb' = running /\ latest' = running
  /\ UNCHANGED <<listVars, setting, fences, told, crashed>>

\* A report on a thread of the HAL: told to the callback.  A call to a dead process fails,
\* which is only logged.
Report(k, what) ==
  /\ crashed = "no" /\ kind[2] = k /\ extCb # Nobody /\ extReports < MaxReports
  /\ extReports' = extReports + 1
  /\ told' = [to |-> extCb, what |-> what, heard |-> extCb = running]
  /\ UNCHANGED <<stays, made, handed, cbVars, listVars, setting, fences, crashed, extCalls>>

\* AGnss::statusCb of 1.0: a status of today's size carries an IPv4 or IPv6 address; an
\* older one an IPv4 address in the host's order, and it is told of as type AF_INET (2).
AGnssStatus(size, family, type, addr) ==
  CASE size = "today" /\ family = "inet"  -> [as |-> "v4", type |-> type, addr |-> addr]
    [] size = "today" /\ family = "inet6" -> [as |-> "v6", type |-> type, addr |-> addr]
    [] size = "old"                       -> [as |-> "v4", type |-> 2, addr |-> addr]
    [] OTHER                              -> None

AGnssStatusCb_1_0 ==
  \E size \in {"today", "old", "other"}, family \in {"inet", "inet6", "other"}, type \in {1, 3} :
    LET status == AGnssStatus(size, family, type, "addr")
    IN  kind[1] = "1.0" /\ status # None /\ Report("agnss", status)

\* AGnss::statusCb of 2.0: type and value.
AGnssStatusCb == kind[1] = "2.0" /\ \E type \in {1, 3} : Report("agnss", [type |-> type])

RequestSetId == Report("ril", "setId")
RequestRefLoc == Report("ril", "refLoc")
NiNotifyCb == kind[1] = "1.0" /\ Report("ni", "notification")
GnssXtraDownloadRequestCb == Report("xtra", "download")
NoFrameworkNotifyCb == Report("visibility", "nfw")
GnssMeasurementCorrectionCapabilityCb == Report("corrections", "capabilities")

\* isInEmergencySessionCb: the answer is taken unseen; if the framework has died, that
\* ends the process.
IsInEmergencySessionCb ==
  /\ crashed = "no" /\ kind[2] = "visibility" /\ extCb # Nobody /\ extReports < MaxReports
  /\ extReports' = extReports + 1
  /\ told' = [to |-> extCb, what |-> "emergency", heard |-> extCb = running]
  /\ crashed' = IF extCb = running THEN crashed ELSE "asked the dead"
  /\ UNCHANGED <<stays, made, handed, cbVars, listVars, setting, fences, extCalls>>

---------------------------------------------------------------------------
(* Geofences *)

\* addGeofence
AddGeofence ==
  /\ Used("geofencing")
  /\ \E f \in Fences : fences' = [g \in DOMAIN fences \cup {f} |->
                                    IF g = f THEN "active" ELSE fences[g]]
  /\ UNCHANGED <<cbVars, listVars, setting, told, crashed>>

\* pauseGeofence, resumeGeofence: of a fence the HAL does not know nothing comes.
PauseGeofence ==
  /\ Used("geofencing")
  /\ \E f \in Fences : fences' = [g \in DOMAIN fences |-> IF g = f THEN "paused" ELSE fences[g]]
  /\ UNCHANGED <<cbVars, listVars, setting, told, crashed>>

ResumeGeofence ==
  /\ Used("geofencing")
  /\ \E f \in Fences : fences' = [g \in DOMAIN fences |-> IF g = f THEN "active" ELSE fences[g]]
  /\ UNCHANGED <<cbVars, listVars, setting, told, crashed>>

RemoveGeofence ==
  /\ Used("geofencing")
  /\ \E f \in Fences : fences' = [g \in DOMAIN fences \ {f} |-> fences[g]]
  /\ UNCHANGED <<cbVars, listVars, setting, told, crashed>>

\* gnssGfTransitionCb, of an active fence.
GnssGfTransitionCb ==
  \E f \in DOMAIN fences : fences[f] = "active" /\ Report("geofencing", [transition |-> f])

GnssGfStatusCb == Report("geofencing", "availability")

\* gnssGfAddCb and those of the other calls: the HAL's answers.
GnssGfAddCb    == \E f \in DOMAIN fences : Report("geofencing", [added |-> f])
GnssGfRemoveCb == \E f \in Fences \ DOMAIN fences : Report("geofencing", [removed |-> f])
GnssGfPauseCb  == \E f \in DOMAIN fences :
                    fences[f] = "paused" /\ Report("geofencing", [paused |-> f])
GnssGfResumeCb == \E f \in DOMAIN fences :
                    fences[f] = "active" /\ Report("geofencing", [resumed |-> f])

---------------------------------------------------------------------------
(* Configuration *)

\* What is handed on to the HAL, and answered with its verdict or with TRUE.
Passed(k, what, answer) ==
  /\ Used(k)
  /\ setting' = [what |-> what, answer |-> answer]
  /\ UNCHANGED <<cbVars, listVars, fences, told, crashed>>

\* Of 2.0 setSuplEs answers whether it was enabled, setGpsLock whether it was locked.
SetSuplEs ==
  \E enabled \in BOOLEAN :
    Passed("config", <<"SUPL_ES", enabled>>, enabled \/ kind[1] = "1.0")
SetSuplVersion == Passed("config", "SUPL_VER", TRUE)
SetSuplMode    == Passed("config", "SUPL_MODE", TRUE)
SetLppProfile  == Passed("config", "LPP_PROFILE", TRUE)
SetGpsLock     ==
  kind[1] = "2.0" /\ \E lock \in 0..1 : Passed("config", <<"GPS_LOCK", lock>>, lock # 0)
SetGpsLock_1_0 ==
  kind[1] = "1.0" /\ \E lock \in 0..1 : Passed("config", <<"GPS_LOCK", lock>>, TRUE)

SetGlonassPositioningProtocol == Passed("config", "A_GLONASS_POS_PROTOCOL_SELECT", TRUE)
SetEmergencySuplPdn == Passed("config", "USE_EMERGENCY_PDN_FOR_EMERGENCY_SUPL", TRUE)

\* setBlacklist: svid 0 stands for the whole constellation.  The HAL is told of the
\* constellations, but of single satellites only the last one, with the constellations of
\* all of them.
Whole(list)  == {list[i][1] : i \in {j \in DOMAIN list : list[j][2] = 0}}
Single(list) == {list[i] : i \in {j \in DOMAIN list : list[j][2] # 0}}
Sendable(S)  == S \cap 1..6

LastSvid(list) ==
  LET sent == {i \in DOMAIN list : list[i][2] # 0 /\ list[i][1] \in 1..6}
  IN  IF sent = {} THEN 0 ELSE list[CHOOSE i \in sent : \A j \in sent : j <= i][2]

SetBlacklist ==
  /\ kind[1] = "2.0" /\ Used("config")
  /\ \E list \in Blacklists :
       /\ listSet' = list
       /\ mBlacklistedConstellationSet' = Whole(list)
       /\ mBlacklistedSourceSet' = Single(list)
       /\ setting' = [mask |-> Sendable(Whole(list)), svid |-> LastSvid(list),
                      of |-> Sendable({s[1] : s \in Single(list)})]
  /\ UNCHANGED <<cbVars, fences, told, crashed>>

IsBlacklisted(constellation, svid) ==
  \/ constellation \in mBlacklistedConstellationSet
  \/ <<constellation, svid>> \in mBlacklistedSourceSet

---------------------------------------------------------------------------
(* Calls that are handed on *)

DataConnOpen   == \E ok \in BOOLEAN : Passed("agnss", "open", ok)
DataConnClosed == \E ok \in BOOLEAN : Passed("agnss", "closed", ok)
DataConnFailed == \E ok \in BOOLEAN : Passed("agnss", "failed", ok)
SetServer      == \E ok \in BOOLEAN : Passed("agnss", "server", ok)

SetRefLocation            == Passed("ril", "refLocation", TRUE)
SetSetId                  == Passed("ril", "setId", TRUE)
UpdateNetworkAvailability == Passed("ril", "availability", TRUE)
AgpsNiMessage             == Passed("ril", "niMessage", TRUE)

\* updateNetworkState; updateNetworkState_2_0 gives neither the type nor the roaming.
UpdateNetworkState ==
  \E type \in 0..1, roaming \in BOOLEAN : Passed("ril", <<"network", type, roaming>>, TRUE)
UpdateNetworkState_2_0 == kind[1] = "2.0" /\ Passed("ril", <<"network", 0, FALSE>>, TRUE)

EnableNfwLocationAccess == \E ok \in BOOLEAN : Passed("visibility", "proxyApps", ok)
InjectXtraData          == \E ok \in BOOLEAN : Passed("xtra", "data", ok)
SetNetWorkHandle        == Passed("unisoc", "handle", TRUE)
Respond                 == Passed("ni", "response", TRUE)

\* getDebugData, getDebugData_2_0: fixed values, the HAL is not asked.  1.0 answers nothing
\* and asks the HAL for its state, which it only logs.
GetDebugData     == kind[1] = "2.0" /\ Passed("debug", "fixed", TRUE)
GetDebugData_1_0 == kind[1] = "1.0" /\ Passed("debug", "empty", TRUE)

\* setCorrections clears the structure that holds the array it is about to clear: it writes
\* through a null pointer.
SetCorrections ==
  /\ Used("corrections") /\ crashed' = "corrections"
  /\ UNCHANGED <<cbVars, listVars, setting, fences, told>>

InjectTime     == \E ok \in BOOLEAN : Passed("navigation", "time", ok)
InjectLocation == \E ok \in BOOLEAN : Passed("navigation", "location", ok)

InjectBestLocation_2_0 ==
  kind[1] = "2.0" /\ \E ok \in BOOLEAN : Passed("navigation", "bestLocation", ok)

DeleteAidingData == Passed("navigation", "delete", TRUE)

\* setPositionMode hands the interval on as it is, setPositionMode_1_1 not below 100.
SetPositionMode ==
  \E i \in Intervals, ok \in BOOLEAN : Passed("navigation", [interval |-> i], ok)

MinInterval(i) == IF i < 100 THEN 100 ELSE i

SetPositionMode_1_1 ==
  /\ kind[1] = "2.0"
  /\ \E i \in Intervals : Passed("navigation", [interval |-> MinInterval(i), asked |-> i], TRUE)

---------------------------------------------------------------------------
\* The framework's process dies, and the next one starts; handleHidlDeath reaches none of
\* these extensions.
Die ==
  /\ crashed = "no" /\ running + 1 \in Frameworks /\ running' = running + 1
  /\ UNCHANGED <<kind, implemented, made, handed, cbVars, listVars, setting, fences, told,
                 crashed, extCalls, extReports>>

Next ==
  \/ GetExtension \/ SetCallback \/ Die
  \/ AGnssStatusCb_1_0 \/ AGnssStatusCb \/ RequestSetId \/ RequestRefLoc \/ NiNotifyCb
  \/ GnssXtraDownloadRequestCb \/ NoFrameworkNotifyCb \/ IsInEmergencySessionCb
  \/ GnssMeasurementCorrectionCapabilityCb
  \/ AddGeofence \/ PauseGeofence \/ ResumeGeofence \/ RemoveGeofence
  \/ GnssGfTransitionCb \/ GnssGfStatusCb \/ GnssGfAddCb \/ GnssGfRemoveCb \/ GnssGfPauseCb
  \/ GnssGfResumeCb
  \/ SetSuplEs \/ SetSuplVersion \/ SetSuplMode \/ SetLppProfile \/ SetGpsLock
  \/ SetGlonassPositioningProtocol \/ SetEmergencySuplPdn \/ SetBlacklist
  \/ DataConnOpen \/ DataConnClosed \/ DataConnFailed \/ SetServer
  \/ SetRefLocation \/ SetSetId \/ UpdateNetworkAvailability \/ AgpsNiMessage
  \/ UpdateNetworkState \/ UpdateNetworkState_2_0
  \/ EnableNfwLocationAccess \/ InjectXtraData \/ SetNetWorkHandle \/ Respond \/ GetDebugData
  \/ GetDebugData_1_0 \/ SetGpsLock_1_0
  \/ SetCorrections \/ InjectTime \/ InjectLocation \/ InjectBestLocation_2_0
  \/ DeleteAidingData \/ SetPositionMode \/ SetPositionMode_1_1

Spec == Init /\ [][Next]_extVars

---------------------------------------------------------------------------
TypeOK ==
  /\ implemented \in BOOLEAN /\ {made, handed} \subseteq 0..2 /\ running \in Frameworks
  /\ {extCb, latest} \subseteq Frameworks \cup {Nobody}
  /\ mBlacklistedConstellationSet \subseteq Constellations
  /\ DOMAIN fences \subseteq Fences
  /\ extCalls \in 0..MaxCalls /\ extReports \in 0..MaxReports

\* A satellite is blacklisted exactly if the list set last says so, whatever lists came
\* before; the HAL has been told of whole constellations (1 to 6) exactly, and of a single
\* satellite if there is no more than one.
BlacklistExact ==
  /\ \A c \in Constellations, svid \in 1..3 :
       IsBlacklisted(c, svid) <=> \E i \in DOMAIN listSet : listSet[i] \in {<<c, 0>>, <<c, svid>>}
  /\ setting # None /\ "mask" \in DOMAIN setting =>
       /\ setting.mask = {c \in 1..6 : \E i \in DOMAIN listSet : listSet[i] = <<c, 0>>}
       /\ Cardinality(Single(listSet)) = 1 =>
            \A s \in Single(listSet) : s[1] \in 1..6 => setting.of = {s[1]} /\ setting.svid = s[2]

\* No extension is made twice, by whichever getters it is asked for; what is handed out is
\* the one there is, unless by a stub.
OneOfEach == made <= 1 /\ handed <= made /\ crashed # "second instance"

\* Reports go to the callback set last, and are heard while its framework runs.  The
\* process ends only by corrections, and by asking a framework that has died and has not
\* been replaced.
ReportsReach ==
  /\ told # None => told.to <= latest
  /\ extCb = latest
  /\ crashed = "asked the dead" => kind[2] = "visibility" /\ extCb < running
  /\ crashed = "corrections" => kind[2] = "corrections"

ExtensionsKept == BlacklistExact /\ OneOfEach /\ ReportsReach
=============================================================================
