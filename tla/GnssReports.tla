---------------------------- MODULE GnssReports ----------------------------
(***************************************************************************)
(* What the GNSS services, Gnss of 2.0 and GnssExt of 1.0, make of the     *)
(* reports of the vendor's HAL before they reach the framework's           *)
(* callbacks: satellite lists and measurements of the old GPS interface    *)
(* are converted to GNSS ones, batches of locations are filtered, and each *)
(* report goes to the callbacks of the versions that are to see it.        *)
(* Angles, strengths and the like are copied as they are, and left out.    *)
(***************************************************************************)
EXTENDS Integers, FiniteSets, Sequences, SequencesExt

CONSTANTS
  Prns,        (* satellite numbers a list of the old interface may hold    *)
  SvsCount,    (* GnssMax::SVS_COUNT                                        *)
  MaxBatch,    (* MAX_LOCATIONS_PER_BATCH                                   *)
  MaxReports   (* bound: reports                                            *)

Versions == {"1.0", "1.1", "2.0"}

VARIABLES
  service,        \* "1.0" or "2.0"
  registered,     \* versions with a callback of the service
  measuring,      \* versions with a callback for measurements
  oldClocks,      \* discontinuity_count_to_handle_old_clock_type
  input,          \* the last report of the HAL
  delivered,      \* what the callbacks have been given for it
  reports

reportVars == <<service, registered, measuring, oldClocks, input, delivered, reports>>

Nothing == [kind |-> "none"]

\* A framework registers the same version for both; the 1.0 service knows only its own.
Init ==
  /\ service \in {"1.0", "2.0"}
  /\ registered \in SUBSET IF service = "1.0" THEN {"1.0"} ELSE Versions
  /\ measuring = registered
  /\ oldClocks = 0 /\ input = Nothing /\ delivered = {}
  /\ reports = 0

Clamped(s, n) == SubSeq(s, 1, IF Len(s) < n THEN Len(s) ELSE n)
Sent(V, m)    == {[to |-> v, message |-> m] : v \in V}

\* A report arrives and `sent' is what the callbacks are given.
Report(r, sent) ==
  /\ reports < MaxReports /\ reports' = reports + 1
  /\ input' = r /\ delivered' = sent
  /\ UNCHANGED <<service, registered, measuring>>

---------------------------------------------------------------------------
(* Satellites *)

\* SvidValues.
GlonassCount == 24

Constellation(prn) ==
  CASE prn \in 1..32                     -> "GPS"
    [] prn \in 65..64 + GlonassCount     -> "GLONASS"
    [] prn \in 201..200 + 35             -> "BEIDOU"
    [] prn \in 33..64                    -> "SBAS"
    [] prn \in 193..200                  -> "QZSS"
    [] OTHER                             -> "UNKNOWN"

Svid(prn) ==
  CASE Constellation(prn) = "GLONASS" -> prn - 64
    [] Constellation(prn) = "BEIDOU"  -> prn - 200
    [] Constellation(prn) = "SBAS"    -> prn + 87
    [] OTHER                          -> prn

\* The masks of a GpsSvStatus have a bit for each GPS satellite.
Satellite(prn, mask) ==
  [constellation |-> Constellation(prn), svid |-> Svid(prn),
   flags |-> {f \in {"EPHEMERIS"} : Constellation(prn) = "GPS" /\ Svid(prn) - 1 \in mask}]

\* gpsSvStatusCb: of a list of the old interface each satellite is converted.
OldSatellites ==
  \E list \in UNION {[1..n -> Prns] : n \in 0..2}, mask \in {{0, 31}} :
    /\ IsInjective(list)
    /\ Report([kind |-> "satellites", list |-> list],
              Sent(registered,
                   [i \in 1..Len(Clamped(list, SvsCount)) |-> Satellite(list[i], mask)]))
    /\ UNCHANGED oldClocks

GpsSvStatusCb        == service = "2.0" /\ OldSatellites
GnssExtGpsSvStatusCb == service = "1.0" /\ OldSatellites

\* gnssSvStatusCb: a list of the new interface is only cut to the cap; the 1.0 service takes
\* the carrier frequency from it.
NewSatellites(dropped) ==
  \E n \in 0..SvsCount + 1 :
    /\ Report([kind |-> "satellites"],
              Sent(registered,
                   Clamped([i \in 1..n |-> [constellation |-> "BEIDOU", svid |-> i,
                                            flags |-> {"CARRIER_FREQUENCY"} \ dropped]],
                           SvsCount)))
    /\ UNCHANGED oldClocks

GnssSvStatusCb        == service = "2.0" /\ NewSatellites({})
GnssExtGnssSvStatusCb == service = "1.0" /\ NewSatellites({"CARRIER_FREQUENCY"})

---------------------------------------------------------------------------
(* Positions, status, time *)

\* convertToGnssLocation, convertToGnssLocation_2_0: old chips give no accuracy of height,
\* speed and bearing, so that the conversion of 1.0 and those of batches clear their flags.
Cleared(location) == [flags |-> location.flags \ {"VERTICAL_ACCURACY"}, vertical |-> 0]

ConvertToGnssLocation(location) == IF service = "1.0" THEN Cleared(location) ELSE location
ConvertToGnssLocation_2_0(location) == location

Positions == [flags : SUBSET {"LAT_LONG", "VERTICAL_ACCURACY"}, vertical : {0, 5}]

\* What is to be passed on goes to whoever is registered; a null pointer goes to nobody.
PassedOn(svc, what) ==
  /\ service = svc
  /\ \E valid \in BOOLEAN :
       Report([kind |-> what], IF valid THEN Sent(registered, what) ELSE {})
  /\ UNCHANGED oldClocks

LocationCb ==
  /\ service = "2.0"
  /\ \E position \in Positions :
       Report([kind |-> "position", position |-> position],
              Sent(registered \ {"2.0"}, ConvertToGnssLocation(position))
                \cup Sent(registered \cap {"2.0"}, ConvertToGnssLocation_2_0(position)))
  /\ UNCHANGED oldClocks

GnssExtLocationCb ==
  /\ service = "1.0"
  /\ \E position \in Positions :
       Report([kind |-> "position", position |-> position],
              Sent(registered, ConvertToGnssLocation(position)))
  /\ UNCHANGED oldClocks

StatusCb         == PassedOn("2.0", "status")
NmeaCb           == PassedOn("2.0", "nmea")
RequestUtcTimeCb == PassedOn("2.0", "request of the time")
SetSystemInfoCb  == PassedOn("2.0", "system info")
GnssNavigationMessageCb == PassedOn("2.0", "navigation message")

GnssExtStatusCb         == PassedOn("1.0", "status")
GnssExtNmeaCb           == PassedOn("1.0", "nmea")
GnssExtRequestUtcTimeCb == PassedOn("1.0", "request of the time")
GnssExtSetSystemInfoCb  == PassedOn("1.0", "system info")
GnssExtGnssNavigationMessageCb == PassedOn("1.0", "navigation message")

---------------------------------------------------------------------------
(* Measurements *)

States == {"TOW_DECODED", "TOW_KNOWN", "GLO_TOD_DECODED", "GLO_TOD_KNOWN"}

\* A time that was decoded is known.
Known(states) ==
  states \cup {s \in {"TOW_KNOWN"} : "TOW_DECODED" \in states}
         \cup {s \in {"GLO_TOD_KNOWN"} : "GLO_TOD_DECODED" \in states}

\* gnssMeasurementCb, for the older callbacks; gnssMeasurementCb_2_0 for the newest.
GnssMeasurementCb(list) ==
  Sent(measuring \cap {"1.0", "1.1"}, [i \in DOMAIN Clamped(list, SvsCount) |-> Known(list[i])])
GnssMeasurementCb_2_0(list) ==
  Sent({"2.0"}, [i \in DOMAIN Clamped(list, SvsCount) |-> Known(list[i])])

\* gnssMeasurementCb of 1.0 copies nothing: it gives one measurement, which holds whatever
\* the memory held.
GnssExtGnssMeasurementCb ==
  /\ service = "1.0"
  /\ \E n \in 0..SvsCount + 1, garbage \in {{}, {"TOW_DECODED"}} :
       Report([kind |-> "garbage"],
              Sent(measuring, [i \in 1..(IF n = 0 THEN 0 ELSE 1) |-> garbage]))
  /\ UNCHANGED oldClocks

\* gnssMeasurementCbs: the 2.0 callback excludes the others.
GnssMeasurementCbs ==
  /\ service = "2.0"
  /\ \E list \in UNION {[1..n -> {{}, {"TOW_DECODED"}, States}] : n \in 0..SvsCount + 1} :
       Report([kind |-> "measurements", list |-> list],
              IF "2.0" \in measuring THEN GnssMeasurementCb_2_0(list) ELSE GnssMeasurementCb(list))
  /\ UNCHANGED oldClocks

\* gpsMeasurementCb: a clock that shows GPS time becomes an always discontinuous hardware
\* clock, and the biases change their sign.  The count of a hardware clock is not set: it
\* is what the memory held.
ConvertedClock(clock, garbage) ==
  LET gps == clock.type = "GPS_TIME"
  IN  [timeNs |-> IF gps THEN 0 ELSE clock.time,
       fullBiasNs |-> -(IF gps THEN clock.time ELSE clock.fullBias),
       hasFullBias |-> gps \/ clock.hasFullBias,
       discontinuities |-> IF gps THEN oldClocks ELSE garbage]

\* Mutant: the count stands still.
SameCount(clock) == oldClocks
NextCount(clock) == IF clock.type = "GPS_TIME" THEN oldClocks + 1 ELSE oldClocks

Clocks == [type : {"UNKNOWN", "LOCAL_HW_TIME", "GPS_TIME"}, time : {7, 9}, fullBias : {-3, 0},
           hasFullBias : BOOLEAN]

\* The count given with the report before this one, if it was of an old clock.
LastCount == {d.message.discontinuities : d \in {e \in delivered :
                input.kind = "clock" /\ input.clock.type = "GPS_TIME"}}

OldMeasurement(svc) ==
  /\ service = svc /\ "1.0" \in measuring
  /\ \E clock \in Clocks, garbage \in {0, 5} :
       /\ Report([kind |-> "clock", clock |-> clock, last |-> LastCount],
                 Sent({"1.0"}, ConvertedClock(clock, garbage)))
       /\ oldClocks' = NextCount(clock)

GpsMeasurementCb        == OldMeasurement("2.0")
GnssExtGpsMeasurementCb == OldMeasurement("1.0")

---------------------------------------------------------------------------
(* Batches: GnssBatching::locationCb *)

Locations == {"null", "gnss", "sensors", "wifi"}    \* by the sources used

\* Null pointers and places of other sources are left out.
Kept(list, negative) ==
  {i \in DOMAIN (IF negative THEN <<>> ELSE Clamped(list, MaxBatch)) : list[i] \in {"gnss", "sensors"}}

\* The numbers of P, from the least to the greatest.
Ascending(P) ==
  {order \in [1..Cardinality(P) -> P] : \A i, j \in DOMAIN order : i < j => order[i] < order[j]}

\* What is kept is converted, in its order.
Batch(list, order) ==
  [i \in DOMAIN order |->
     [source |-> list[order[i]], position |-> Cleared([flags |-> {"VERTICAL_ACCURACY"}, vertical |-> 5])]]

BatchReport(svc) ==
  /\ service = svc
  /\ \E list \in UNION {[1..n -> Locations] : n \in 0..MaxBatch + 1}, negative \in BOOLEAN :
       \E order \in Ascending(Kept(list, negative)) :
         Report([kind |-> "batch", list |-> list], Sent({svc}, Batch(list, order)))
  /\ UNCHANGED oldClocks

BatchLocationCb        == BatchReport("2.0")
GnssExtBatchLocationCb == BatchReport("1.0")

---------------------------------------------------------------------------
Next ==
  \/ GpsSvStatusCb \/ GnssSvStatusCb \/ LocationCb \/ StatusCb \/ NmeaCb \/ RequestUtcTimeCb
  \/ SetSystemInfoCb \/ GnssMeasurementCbs \/ GpsMeasurementCb \/ BatchLocationCb
  \/ GnssExtGpsSvStatusCb \/ GnssExtGnssSvStatusCb \/ GnssExtLocationCb \/ GnssExtStatusCb
  \/ GnssExtNmeaCb \/ GnssExtRequestUtcTimeCb \/ GnssExtSetSystemInfoCb
  \/ GnssNavigationMessageCb \/ GnssExtGnssNavigationMessageCb
  \/ GnssExtGnssMeasurementCb \/ GnssExtGpsMeasurementCb \/ GnssExtBatchLocationCb

Spec == Init /\ [][Next]_reportVars

---------------------------------------------------------------------------
TypeOK ==
  /\ service \in {"1.0", "2.0"} /\ registered \subseteq Versions /\ measuring \subseteq Versions
  /\ oldClocks \in Nat

\* The numbering of IGnssCallback: satellites of each constellation.
Numbering == [GPS |-> 1..32, SBAS |-> 120..151, GLONASS |-> 1..24, QZSS |-> 193..200, BEIDOU |-> 1..37]

Messages == {d.message : d \in delivered}

\* Every satellite of the old interface, if its constellation is known, gets a number of that
\* constellation, no two satellites of a list become one, no list is longer than the framework's, and only
\* GPS satellites take their flags from the masks; the 1.0 framework, whose satellites have no
\* carrier frequency, is told of none.
SatellitesIdentified ==
  input.kind = "satellites" =>
    \A m \in Messages :
      /\ Len(m) <= SvsCount
      /\ \A i \in DOMAIN m : "list" \in DOMAIN input /\ m[i].constellation # "UNKNOWN" =>
                               m[i].svid \in Numbering[m[i].constellation]
      /\ \A i, j \in DOMAIN m :
           i # j => <<m[i].constellation, m[i].svid>> # <<m[j].constellation, m[j].svid>>
      /\ \A i \in DOMAIN m : "EPHEMERIS" \in m[i].flags => m[i].constellation = "GPS"
      /\ \A i \in DOMAIN m : service = "1.0" => "CARRIER_FREQUENCY" \notin m[i].flags

\* A measurement goes to callbacks of one generation, and what was decoded is known.
OneGeneration ==
  input.kind = "measurements" =>
    /\ \A d, e \in delivered : d.to = "2.0" => e.to = "2.0"
    /\ \A m \in Messages : \A i \in DOMAIN m : "TOW_DECODED" \in m[i] => "TOW_KNOWN" \in m[i]

\* The GPS time of a report of the old interface survives its conversion, with a full bias
\* wherever one is needed, and no two reports of an old clock in a row look continuous.
GpsTimeKept ==
  input.kind = "clock" =>
    \A m \in Messages :
      /\ m.timeNs - m.fullBiasNs = IF input.clock.type = "GPS_TIME" THEN input.clock.time
                                    ELSE input.clock.time + input.clock.fullBias
      /\ input.clock.type = "GPS_TIME" => m.hasFullBias
      /\ input.clock.type = "GPS_TIME" => m.discontinuities \notin input.last

\* A batch holds only locations of the sources asked for, and never more than the cap.
BatchFiltered ==
  input.kind = "batch" =>
    \A m \in Messages :
      Len(m) <= MaxBatch /\ \A i \in DOMAIN m : m[i].source \in {"gnss", "sensors"}

\* A position claims an accuracy of its height only if it carries the one the HAL gave.
AccuracyTrue ==
  input.kind = "position" =>
    \A m \in Messages : "VERTICAL_ACCURACY" \in m.flags => m.vertical = input.position.vertical

ReportsConverted == AccuracyTrue /\ SatellitesIdentified /\ OneGeneration /\ GpsTimeKept /\ BatchFiltered
=============================================================================
