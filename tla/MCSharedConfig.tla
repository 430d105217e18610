--------------------------- MODULE MCSharedConfig ---------------------------
(* Small instances of the shared service list for TLC.                      *)
EXTENDS SharedConfig

CONSTANTS r1, r2, r3, n1, n2, n3

TwoRequests   == {r1, r2}
ThreeRequests == {r1, r2, r3}
ThreeNames    == {n1, n2, n3}
OneConfigured == <<n1>>

OneMutex  == {{"api"}, {"web", "mcp"}}
AsServed  == {AllDoors}
=============================================================================
