----------------------------- MODULE FmReceiver -----------------------------
(***************************************************************************)
(* The FM receiver as a program uses it through one of the two bridges:    *)
(* "jni" (broadcastradio/2.0/jni/libfm_jni.cpp, for the FM application)    *)
(* or "hal" (fm_hal_bridge.cpp, for TunerSession); below them fmr_core.cpp *)
(* and the ioctls of common.cpp.  Calls are made one at a time, but        *)
(* stopScan may come while a scan goes on; the threads of the tuner        *)
(* service are in TunerSession.                                            *)
(*                                                                         *)
(* Frequencies are in units of 10 kHz.                                     *)
(***************************************************************************)
EXTENDS Integers, FiniteSets, Sequences

CONSTANTS
  ConfFiles,    (* what /vendor/etc/fm.conf may say; it may be missing      *)
  Stations,     (* that can be received                                     *)
  Starts,       (* where a seek or a scan is told to start; 0 for nowhere   *)
  Desense,      (* of these, those the driver calls de-sensed               *)
  Pamd,         (* frequency -> quality of its signal                       *)
  AfLists,      (* lists of alternative frequencies a station may send      *)
  Spacing,      (* of channels, in units of frequency                       *)
  DriverUp,     (* the direction for which the driver, which is not in the repository, *)
                (* seeks upwards: by the names of fm.h that is FM_SEEK_UP   *)
  Thresholds,   (* values the application sets                              *)
  MaxCalls, MaxExtras, MaxErrors   (* bounds: calls on the powered chip, settings, failed ioctls *)

VARIABLES
  bridge, cfg_data, opened,
  chip,                  \* what the driver has been told
  cur_freq, scan_stop, rds,
  search,                \* a scan that goes on
  fmResult,                \* of the last call
  asked, settled,        \* the station last turned to; cur_freq ought to be it
  calls, extras, errors

fmVars == <<bridge, cfg_data, opened, chip, cur_freq, scan_stop, rds, search, fmResult, asked,
            settled, calls, extras, errors>>

None == [none |-> TRUE]

---------------------------------------------------------------------------
(* Configuration. *)

\* FMR_get_cfgs: without a file, and for what it does not set, everything is 0.
FMR_get_cfgs(file) ==
  [k \in {"band", "low_band", "high_band", "fake_chan"} |->
     IF k \in DOMAIN file THEN file[k] ELSE IF k = "fake_chan" THEN <<>> ELSE 0]

---------------------------------------------------------------------------
(* The driver: an ioctl fails, or it changes the chip. *)

Ioctl(ok, change) ==
  IF ok THEN chip' = change /\ UNCHANGED errors
  ELSE UNCHANGED chip /\ errors < MaxErrors /\ errors' = errors + 1

\* The hardware seek: the first station from freq on, or round the band; 0 for none.
NextStation(freq, up) ==
  LET ahead == {s \in Stations : IF up THEN s >= freq ELSE s <= freq}
      among == IF ahead = {} THEN Stations ELSE ahead
  IN  IF Stations = {} THEN 0
      ELSE CHOOSE s \in among : \A t \in among : IF up THEN s <= t ELSE s >= t

FM_SEEK_UP   == 0
FM_SEEK_DOWN == 1

\* COM_seek calls its 1 up and its 0 down.
COM_seek(freq, dir) ==
  NextStation(freq, (IF dir = 1 THEN FM_SEEK_UP ELSE FM_SEEK_DOWN) = DriverUp)

COM_open_dev(ok)       == Ioctl(ok, chip) /\ opened' = ok
COM_pwr_up(ok, freq)   == Ioctl(ok, [chip EXCEPT !.on = TRUE, !.freq = 10 * freq])
COM_pwr_down(ok)       == Ioctl(ok, [chip EXCEPT !.on = FALSE])
COM_tune(ok, freq)     == Ioctl(ok, [chip EXCEPT !.freq = freq])
COM_set_mute(ok, mute) == Ioctl(ok, [chip EXCEPT !.mute = mute])
COM_ana_switch(ok, a)  == Ioctl(ok, [chip EXCEPT !.antenna = a])
COM_set_step(ok, s)    == Ioctl(ok, [chip EXCEPT !.step = s])

COM_turn_on_off_rds(ok, on) == Ioctl(ok, [chip EXCEPT !.rds = on])

\* What is read when an ioctl fails: the 0 it was preset with.
COM_get_rssi(ok) == IF ok THEN chip.rssi ELSE 0
COM_get_snr(ok)  == IF ok THEN chip.snr ELSE 0
COM_get_bler(ok) == IF ok THEN chip.bler ELSE 0

\* The fields of fm_seek_criteria_parm and fm_audio_threshold_parm have 8 and 16 bits.
COM_set_tune(ok, rssi_th)  == Ioctl(ok, [chip EXCEPT !.rssi_th = rssi_th % 2^8])
COM_set_audio(ok, hbound)  == Ioctl(ok, [chip EXCEPT !.hbound = hbound % 2^16])
COM_get_tune               == chip.rssi_th
COM_get_audio              == chip.hbound

\* A register is written unless the flag says read (1).
COM_rw_reg(ok, flag, val) == Ioctl(ok, IF flag = 1 THEN chip ELSE [chip EXCEPT !.reg = val])

---------------------------------------------------------------------------
(* Control of the application: it opens the device, powers up, then calls. *)

Call  == /\ search = None /\ calls < MaxCalls /\ calls' = calls + 1
         /\ UNCHANGED <<extras, bridge, cfg_data>>
Uncounted == search = None /\ UNCHANGED <<calls, extras, bridge, cfg_data>>
Extra == /\ search = None /\ opened /\ chip.on /\ extras < MaxExtras /\ extras' = extras + 1
         /\ UNCHANGED <<calls, bridge, cfg_data, opened, cur_freq, scan_stop, search, asked,
                        settled>>

Answers(what, value) == fmResult' = [call |-> what, value |-> value]

\* openDev, nativeOpenDev (whose FMR_init was done by JNI_OnLoad)
OpenDev ==
  /\ ~opened /\ Uncounted
  /\ \E ok \in BOOLEAN : COM_open_dev(ok) /\ Answers("openDev", ok)
  /\ UNCHANGED <<cur_freq, scan_stop, rds, search, asked, settled>>

CloseDev ==
  /\ opened /\ ~chip.on /\ Call
  /\ opened' = FALSE /\ Answers("closeDev", TRUE)
  /\ UNCHANGED <<chip, cur_freq, scan_stop, rds, search, asked, settled, errors>>

\* FMR_pwr_up, whose frequencies are in units of 100 kHz, as are those of fm.conf; the
\* frequency is remembered as it is.
FMR_pwr_up(freq) ==
  IF freq < cfg_data.low_band \/ freq > cfg_data.high_band
  THEN Answers("powerUp", FALSE) /\ UNCHANGED <<chip, cur_freq, asked, settled, errors>>
  ELSE \E ok \in BOOLEAN :
         /\ COM_pwr_up(ok, freq)
         /\ cur_freq' = freq /\ asked' = 10 * freq /\ settled' = FALSE
         /\ Answers("powerUp", ok)

NativePowerUp ==
  /\ bridge = "jni" /\ opened /\ ~chip.on /\ Uncounted
  /\ \E freq \in {875, 1090} : FMR_pwr_up(freq)
  /\ UNCHANGED <<opened, scan_stop, rds, search>>

NativePowerDown ==
  /\ bridge = "jni" /\ opened /\ chip.on /\ Call
  /\ \E ok \in BOOLEAN : COM_pwr_down(ok) /\ Answers("powerDown", ok)
  /\ UNCHANGED <<opened, cur_freq, scan_stop, rds, search, asked, settled>>

\* FMR_tune: remembered whether the driver took it or not.
CurFreqAfterTune(freq) == freq

FMR_tune(ok, freq) == COM_tune(ok, freq) /\ cur_freq' = CurFreqAfterTune(freq)

Tune ==
  /\ opened /\ chip.on /\ Call
  /\ \E ok \in BOOLEAN, freq \in Stations :
       FMR_tune(ok, freq) /\ asked' = freq /\ settled' = TRUE /\ Answers("tune", ok)
  /\ UNCHANGED <<opened, scan_stop, rds, search>>

---------------------------------------------------------------------------
(* Seeking one station. *)

\* FMR_seek: a start beyond the limits is refused; the driver's seek starts next to it,
\* in the opposite direction (!dir), and if it finds none the start is the answer.
SeekFound(start, up) ==
  LET found == IF up THEN COM_seek(start + Spacing, 0) ELSE COM_seek(start - Spacing, 1)
  IN  IF found = 0 THEN start ELSE found

BeyondLimits(start) == start < 7600 \/ start > 10800

FMR_seek(ok, start, up) ==
  IF BeyondLimits(start) THEN [found |-> start, seeks |-> FALSE]
  ELSE [found |-> IF ok THEN SeekFound(start, up) ELSE start, seeks |-> TRUE]

\* seek mutes before and unmutes after; nativeSeek leaves the unmuting to the
\* application.
MuteAfterSeek == bridge = "jni"

Seek ==
  /\ opened /\ chip.on /\ Call
  /\ \E ok \in BOOLEAN, start \in Starts, up \in BOOLEAN :
       LET s == FMR_seek(ok, start, up)
       IN  /\ Ioctl(ok, [chip EXCEPT !.mute = MuteAfterSeek,
                                     !.freq = IF s.seeks THEN s.found ELSE chip.freq])
           /\ s.seeks \/ ok
           /\ scan_stop' = IF s.seeks THEN FALSE ELSE scan_stop
           /\ fmResult' = [call |-> "seek", value |-> s.found, start |-> start, up |-> up,
                           ok |-> ok]
  /\ UNCHANGED <<opened, cur_freq, rds, search, asked, settled>>

---------------------------------------------------------------------------
(* Scanning the band. *)

\* FMR_scan: where it starts; the limits are those of Europe whatever the band is.
StartFreq(startFreq) == IF startFreq <= 10800 /\ startFreq >= 8750 THEN startFreq ELSE 8750

\* FMR_SevereDensense, whose signal strength is 0: the hardware seek gives none.
SevereDesense(freq) ==
  LET fakes == {i \in DOMAIN cfg_data.fake_chan : cfg_data.fake_chan[i].freq = freq}
  IN  fakes # {} /\ 0 < cfg_data.fake_chan[CHOOSE i \in fakes : \A j \in fakes : i <= j].rssi_th

Kept(freq) == freq \notin Desense /\ ~SevereDesense(freq)

\* autoScan, nativeAutoScan; FMR_Pre_Search.  The service starts at 0.
AutoScan ==
  /\ opened /\ chip.on /\ Call
  /\ \E startFreq \in IF bridge = "hal" THEN {0} ELSE Starts :
       search' = [start |-> StartFreq(startFreq), last |-> 0,
                  freq |-> StartFreq(startFreq) - Spacing, found |-> <<>>,
                  seen |-> FALSE, failed |-> FALSE, ended |-> FALSE]
  /\ scan_stop' = FALSE
  /\ chip' = [chip EXCEPT !.searching = TRUE]
  /\ UNCHANGED <<opened, cur_freq, rds, fmResult, asked, settled, errors>>

\* FMR_Restore_Search, and then the station last turned to, if back.
TunesBack(ok, back, stays) ==
  /\ chip' = [chip EXCEPT !.searching = @ /\ stays, !.freq = IF ok /\ back THEN cur_freq ELSE @]
  /\ IF ok THEN UNCHANGED errors ELSE errors < MaxErrors /\ errors' = errors + 1

\* FMR_seek_Channels, once round the loop, which goes on while the frequency grows: a
\* stop restores and tunes back, a seek that fails is tried again one channel on.
ScanStopped ==
  /\ search # None /\ ~search.ended /\ search.last < search.freq /\ scan_stop
  /\ \E ok \in BOOLEAN :
       /\ TunesBack(ok, TRUE, FALSE)
       /\ search' = [search EXCEPT !.ended = TRUE, !.seen = TRUE, !.failed = search.failed \/ ~ok]
  /\ UNCHANGED <<bridge, cfg_data, opened, cur_freq, scan_stop, rds, fmResult, asked, settled,
                 calls, extras>>

ScanSeek ==
  /\ search # None /\ ~search.ended /\ search.last < search.freq /\ ~scan_stop
  /\ \E ok \in BOOLEAN :
       LET from == search.freq + Spacing
           to   == IF ok THEN COM_seek(from, 0) ELSE from
       IN  /\ Ioctl(ok, [chip EXCEPT !.freq = to])
           /\ search' = [search EXCEPT
                !.last = search.freq, !.freq = to, !.failed = search.failed \/ ~ok,
                !.found = IF ok /\ search.freq < to /\ Kept(to) THEN Append(@, to) ELSE @]
  /\ UNCHANGED <<bridge, cfg_data, opened, cur_freq, scan_stop, rds, fmResult, asked, settled,
                 calls, extras>>

ScanEnds ==
  /\ search # None /\ ~search.ended /\ search.last >= search.freq
  /\ search' = [search EXCEPT !.ended = TRUE]
  /\ UNCHANGED <<bridge, cfg_data, opened, chip, cur_freq, scan_stop, rds, fmResult, asked,
                 settled, calls, extras, errors>>

\* nativeAutoScan copies the integers as if they were shorts, as many of them: of each
\* integer the low half, then the high one.
ShortsOf(list) == [i \in DOMAIN list |-> IF i % 2 = 1 THEN list[(i + 1) \div 2] ELSE 0]

Given(list) == IF bridge = "jni" THEN ShortsOf(list) ELSE list

\* Mutant: the search mode is left only when nothing was found.
RestoredIfNone(found) == found # <<>>
\* FMR_seek_Channels restores if nothing was found, autoScan otherwise.
StaysInSearch(found) == FALSE

\* The end of FMR_seek_Channels and of autoScan: nothing found is an error; else the list
\* is given, and a stop, which may have come only now, tunes back.
ScanAnswers ==
  /\ search # None /\ search.ended
  /\ LET back == scan_stop /\ search.found # <<>>
     IN  \E ok \in BOOLEAN :
           /\ back \/ ok
           /\ TunesBack(ok, back, StaysInSearch(search.found))
           /\ fmResult' = [call |-> "autoScan", start |-> search.start,
                           value |-> Given(search.found), stopped |-> scan_stop,
                           seen |-> search.seen, failed |-> search.failed \/ ~ok]
  /\ search' = None
  /\ UNCHANGED <<bridge, cfg_data, opened, cur_freq, scan_stop, rds, asked, settled, calls,
                 extras>>

\* stopScan, FMR_stop_scan: from another thread.
StopScan ==
  /\ search # None /\ ~scan_stop
  /\ scan_stop' = TRUE
  /\ UNCHANGED <<bridge, cfg_data, opened, chip, cur_freq, rds, search, fmResult, asked, settled,
                 calls, extras, errors>>

---------------------------------------------------------------------------
(* RDS. *)

\* isRdsSupport
IsRdsSupport(ok) == IF ok THEN 1 ELSE 0

SetRds ==
  /\ Extra
  /\ \E ok, on \in BOOLEAN : COM_turn_on_off_rds(ok, on) /\ Answers("setRds", ok)
  /\ UNCHANGED rds

\* readRds: what the chip has, or no events when the read fails; then the data of the
\* read before stay.
ReadRds ==
  /\ opened /\ chip.on /\ Call
  /\ \/ \E events \in SUBSET {"PS", "RT", "AF"}, af \in AfLists, text \in {"clean", "dirty"} :
          /\ chip.rds
          /\ rds' = [events |-> events, af |-> af, ps |-> text, rt |-> text]
          /\ Answers("readRds", events) /\ UNCHANGED errors
     \/ errors < MaxErrors /\ errors' = errors + 1 /\ Answers("readRds", {}) /\ UNCHANGED rds
  /\ UNCHANGED <<opened, chip, cur_freq, scan_stop, search, asked, settled>>

\* COM_change_string: in place, whatever cannot be shown becomes a blank.
COM_change_string(text) == "clean"

COM_get_ps ==
  IF "PS" \in rds.events
  THEN rds' = [rds EXCEPT !.ps = COM_change_string(@)] /\ Answers("getPs", rds'.ps)
  ELSE UNCHANGED rds /\ Answers("getPs", None)

COM_get_rt ==
  IF "RT" \in rds.events
  THEN rds' = [rds EXCEPT !.rt = COM_change_string(@)] /\ Answers("getLrText", rds'.rt)
  ELSE UNCHANGED rds /\ Answers("getLrText", None)

GetPs     == Extra /\ COM_get_ps /\ UNCHANGED <<chip, errors>>
GetLrText == Extra /\ COM_get_rt /\ UNCHANGED <<chip, errors>>

\* COM_active_af: the best of the alternatives, if it beats the station it is on; a
\* station good enough (8, for 5 dB) is left alone, an alternative that is not (12) is
\* given up.  It is told 0 for the current frequency, which it then returns to.
Alternatives ==
  {i \in DOMAIN rds.af : rds.af[i] # 0 /\ Pamd[rds.af[i]] > Pamd[chip.freq]}

BestAlternative ==
  IF Alternatives = {} THEN 0
  ELSE rds.af[CHOOSE i \in Alternatives :
                \A j \in Alternatives : \/ Pamd[rds.af[i]] > Pamd[rds.af[j]]
                                        \/ Pamd[rds.af[i]] = Pamd[rds.af[j]] /\ i <= j]

COM_active_af ==
  LET best == BestAlternative
  IN  IF best # 0 /\ Pamd[best] > 12 THEN best ELSE 0

\* FMR_active_af, nativeActiveAf: 0 for an error.
FMR_active_af ==
  IF "AF" \notin rds.events \/ Pamd[chip.freq] >= 8
  THEN Answers("activeAf", 0) /\ UNCHANGED <<chip, cur_freq, asked, settled>>
  ELSE /\ cur_freq' = COM_active_af
       /\ chip' = [chip EXCEPT !.freq = COM_active_af, !.rds = TRUE]
       /\ asked' = COM_active_af /\ settled' = (COM_active_af # 0)
       /\ Answers("activeAf", COM_active_af)

NativeActiveAf ==
  /\ bridge = "jni" /\ opened /\ chip.on /\ chip.freq \in DOMAIN Pamd /\ Call
  /\ FMR_active_af
  /\ UNCHANGED <<opened, scan_stop, rds, search, errors>>

---------------------------------------------------------------------------
(* Settings and values. *)

FMR_get_rssi(ok) == IF ok THEN COM_get_rssi(ok) ELSE -1
FMR_get_snr(ok)  == IF ok THEN COM_get_snr(ok) ELSE -1
FMR_get_bler(ok) == IF ok THEN COM_get_bler(ok) ELSE -1

GetRssi == /\ Extra /\ UNCHANGED rds
           /\ \E ok \in BOOLEAN : Ioctl(ok, chip) /\ Answers("getRssi", FMR_get_rssi(ok))
GetSnr  == /\ bridge = "jni" /\ Extra /\ UNCHANGED rds
           /\ \E ok \in BOOLEAN : Ioctl(ok, chip) /\ Answers("getSnr", FMR_get_snr(ok))
GetBler == /\ bridge = "jni" /\ Extra /\ UNCHANGED rds
           /\ \E ok \in BOOLEAN : Ioctl(ok, chip) /\ Answers("getBler", FMR_get_bler(ok))

SupportAsked ==
  /\ Extra /\ UNCHANGED rds
  /\ \E ok \in BOOLEAN : Ioctl(ok, chip) /\ Answers("isRdsSupport", IsRdsSupport(ok))

SetTuneParm ==
  /\ bridge = "jni" /\ Extra /\ UNCHANGED rds
  /\ \E ok \in BOOLEAN, th \in Thresholds : COM_set_tune(ok, th) /\ Answers("setTuneParm", ok)
GetTuneParm ==
  /\ bridge = "jni" /\ Extra /\ UNCHANGED <<rds, chip, errors>>
  /\ Answers("getTuneParm", COM_get_tune)
SetAudioParm ==
  /\ bridge = "jni" /\ Extra /\ UNCHANGED rds
  /\ \E ok \in BOOLEAN, th \in Thresholds : COM_set_audio(ok, th) /\ Answers("setAudioParm", ok)
GetAudioParm ==
  /\ bridge = "jni" /\ Extra /\ UNCHANGED <<rds, chip, errors>>
  /\ Answers("getAudioParm", COM_get_audio)

\* The flag of the parameters says what is done, not the name of the call.
WriteRegParm ==
  /\ bridge = "jni" /\ Extra /\ UNCHANGED rds
  /\ \E ok \in BOOLEAN, flag \in 0..1 : COM_rw_reg(ok, flag, 1) /\ Answers("writeRegParm", ok)
ReadRegParm ==
  /\ bridge = "jni" /\ Extra /\ UNCHANGED rds
  /\ \E ok \in BOOLEAN, flag \in 0..1 :
       COM_rw_reg(ok, flag, 0) /\ Answers("readRegParm", chip'.reg)

SetMute ==
  /\ bridge = "jni" /\ Extra /\ UNCHANGED rds
  /\ \E ok, mute \in BOOLEAN : COM_set_mute(ok, mute) /\ Answers("setMute", ok)

SetStep ==
  /\ bridge = "hal" /\ Extra /\ UNCHANGED rds
  /\ \E ok \in BOOLEAN, s \in {0, 1} : COM_set_step(ok, s) /\ Answers("setStep", ok)

\* switchAntenna: 0 for success, as for an antenna there is not; 1 for an error.
AntennaAnswer(a, ok) == IF ok \/ a = 2 THEN 0 ELSE 1

SwitchAntenna ==
  /\ Extra /\ UNCHANGED rds
  /\ \E ok \in BOOLEAN, a \in 0..2 :
       /\ IF a = 2 THEN ok /\ UNCHANGED <<chip, errors>> ELSE COM_ana_switch(ok, a)
       /\ Answers("switchAntenna", AntennaAnswer(a, ok))

---------------------------------------------------------------------------
\* What the service finds when it opens is powered up by the driver.
Init ==
  /\ bridge \in {"jni", "hal"}
  /\ \E file \in ConfFiles : cfg_data = FMR_get_cfgs(file)
  /\ opened = FALSE
  /\ chip = [on |-> bridge = "hal", freq |-> 8750, mute |-> FALSE, rds |-> FALSE, antenna |-> 0,
             step |-> 0, searching |-> FALSE, rssi |-> 40, snr |-> 30, bler |-> 20,
             rssi_th |-> 0, hbound |-> 0, reg |-> 0]
  /\ cur_freq = 0 /\ scan_stop = FALSE
  /\ rds = [events |-> {}, af |-> <<>>, ps |-> "clean", rt |-> "clean"]
  /\ search = None /\ fmResult = None
  /\ asked = 8750 /\ settled = FALSE
  /\ calls = 0 /\ extras = 0 /\ errors = 0

Next ==
  \/ OpenDev \/ CloseDev \/ NativePowerUp \/ NativePowerDown \/ Tune \/ Seek
  \/ AutoScan \/ ScanStopped \/ ScanSeek \/ ScanEnds \/ ScanAnswers \/ StopScan
  \/ SetRds \/ ReadRds \/ GetPs \/ GetLrText \/ NativeActiveAf
  \/ GetRssi \/ GetSnr \/ GetBler \/ SupportAsked
  \/ SetTuneParm \/ GetTuneParm \/ SetAudioParm \/ GetAudioParm
  \/ WriteRegParm \/ ReadRegParm \/ SetMute \/ SetStep \/ SwitchAntenna

Spec == Init /\ [][Next]_fmVars

---------------------------------------------------------------------------
TypeOK ==
  /\ bridge \in {"jni", "hal"} /\ {opened, scan_stop, settled} \subseteq BOOLEAN
  /\ cur_freq \in 0..(2^16 - 1)
  /\ chip.rssi_th \in 0..255 /\ chip.hbound \in 0..(2^16 - 1)
  /\ calls \in 0..MaxCalls /\ extras \in 0..MaxExtras /\ errors \in 0..MaxErrors

\* What the driver takes for up is what the library passes for it (fm.h has it the other
\* way round).
DriverAgrees == DriverUp = FM_SEEK_DOWN

\* A scan that ran to its end without failures has found what can be received from its
\* start on, in order, without what is de-sensed; of a scan that was cut short by a stop, or
\* failed, the list is a part of that.  (The application is given the halves of it.)
ScanExact ==
  fmResult # None /\ fmResult.call = "autoScan" =>
    LET there == {s \in Stations : s >= fmResult.start /\ Kept(s)}
    IN  \E list \in [DOMAIN fmResult.value -> there] :
          /\ fmResult.value = Given(list)
          /\ \A i, j \in DOMAIN list : i < j => list[i] < list[j]
          /\ fmResult.failed \/ fmResult.seen
               \/ \A s \in there : \E i \in DOMAIN list : list[i] = s

\* A station met before another on the way from start round the band.
Ahead(s, start, up) == IF up THEN start < s ELSE s < start

MetBefore(s, t, start, up) ==
  \/ Ahead(s, start, up) /\ ~Ahead(t, start, up)
  \/ /\ Ahead(s, start, up) <=> Ahead(t, start, up)
     /\ IF up THEN s < t ELSE t < s

\* Seeking gives the first station met in the direction asked for, round the band if there is
\* none ahead; and the start if there is none at all, it is refused or the driver fails.
SeekExact ==
  fmResult # None /\ fmResult.call = "seek" =>
    IF fmResult.ok /\ ~BeyondLimits(fmResult.start) /\ Stations # {}
    THEN /\ fmResult.value \in Stations
         /\ \A s \in Stations : ~MetBefore(s, fmResult.value, fmResult.start, fmResult.up)
    ELSE fmResult.value = fmResult.start

\* A stop that a scan answers by turning back.
StopMet == fmResult.seen \/ (fmResult.stopped /\ DOMAIN fmResult.value # {})

\* A scan whose loop saw a stop, or that was stopped by its end and has found something, has
\* turned back to the station last turned to, and every scan has left the search mode.  (A
\* stop after the loop of a scan that found nothing turns back no more; a receiver not tuned
\* since it was powered up, or whose alternatives were all too weak, has a wrong frequency to
\* turn back to.)
ScanReturns ==
  /\ settled => cur_freq = asked
  /\ search = None => ~chip.searching
  /\ search = None /\ fmResult # None =>
       (fmResult.call = "autoScan" /\ ~fmResult.failed /\ StopMet => chip.freq = cur_freq)

\* Another frequency is only chosen for a better signal, good enough; text is fit to be
\* shown; a value is -1 exactly when it could not be read.
AnswersSound ==
  fmResult # None =>
    /\ fmResult.call = "activeAf" /\ fmResult.value # 0 =>
         Pamd[fmResult.value] > 12 /\ (search = None => chip.freq = fmResult.value)
    /\ fmResult.call \in {"getPs", "getLrText"} => fmResult.value \in {None, "clean"}
    /\ fmResult.call \in {"getRssi", "getSnr", "getBler"} =>
         fmResult.value \in {-1} \cup {chip.rssi, chip.snr, chip.bler}

ReceiverKept == (DriverAgrees => ScanExact /\ SeekExact) /\ ScanReturns /\ AnswersSound
=============================================================================
