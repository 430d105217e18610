---------------------------- MODULE MCWatchTool -----------------------------
(* Small instances of the tool watch_releases for TLC.                      *)
EXTENDS WatchTool

CONSTANTS a, b, x, s1

OneCall    == {a}
TwoCalls   == {a, b}
OneService == {s1}
OtherTool  == {x}

SharedCallers  == {<<a, s1>>, x}
OverlapCallers == {<<a, s1>>, <<b, s1>>, x}
=============================================================================
