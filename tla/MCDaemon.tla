------------------------------ MODULE MCDaemon ------------------------------
(* Small instances of the daemon for TLC.                                   *)
EXTENDS DaemonProperties

CONSTANTS s1, s2, v1, v2, c1, c2

OneService  == {s1}
TwoServices == {s1, s2}
TwoTags     == {v1, v2}
OneStopper  == {c1}
TwoStoppers == {c1, c2}
NoChannels  == {}
FirstChannel == {1}
SecondChannel == {2}
AllFaults   == FaultKinds
NoFaults    == {}
LoadAndCrash == {"kv_read", "crash", "cancel"}
=============================================================================
