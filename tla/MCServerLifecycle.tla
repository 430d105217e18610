------------------------- MODULE MCServerLifecycle --------------------------
(* Small instances of the server's life for TLC.                            *)
EXTENDS ServerLifecycle

CONSTANTS q1, q2, q3

TwoRequests   == {q1, q2}
ThreeRequests == {q1, q2, q3}
=============================================================================
