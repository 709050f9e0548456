--------------------------- MODULE MCTunerSession ---------------------------
\* Small instances of the tuner service.
EXTENDS TunerSession, TLC

CONSTANTS s1, s2, c1, c2
TwoSessions == {s1, s2}
OneSession  == {s1}
TwoCallers  == {c1, c2}
Sym == Permutations(TwoCallers)

OpsSession  == {"open", "tune", "scan", "close", "drop"}
OpsSearch   == {"open", "list", "stopScan", "rdsOn", "rdsOff", "close", "scan", "cancel"}
OpsLive     == {"open", "tune", "scan", "step", "list", "close", "drop"}
OpsTune     == {"open", "tune"}
OpsRdsOff   == {"open", "tune", "rdsOff"}
OpsCancel   == {"open", "scan", "cancel"}
OpsReopen   == {"open", "step"}
OpsRescan   == {"open", "tune", "scan", "close"}
OpsList     == {"open", "list"}
=============================================================================
