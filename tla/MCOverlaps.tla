----------------------------- MODULE MCOverlaps -----------------------------
(* Small instances, for TLC, of what overlaps on one store: requests that    *)
(* change the service list under one mutex, calls of watch_releases, and     *)
(* tenant commands. They share nothing: a behaviour is of one of them.       *)
EXTENDS MCSharedConfig, MCWatchTool, Tenancy

CONSTANTS p1, p2, t1, t2

TwoProcs       == {p1, p2}
TwoTenantNames == {t1, t2}

VARIABLE running    \* "list", "watch" or "tenants"

OverlapsInit ==
  /\ running \in {"list", "watch", "tenants"}
  /\ Init /\ (running # "list" => doors = {"api"})
  /\ WInit /\ TInit

OverlapsNext ==
  \/ running = "list" /\ Next /\ UNCHANGED <<cvars, wvars, tvars, running>>
  \/ running = "watch" /\ WNext /\ UNCHANGED <<vars, tvars, running>>
  \/ running = "tenants" /\ TNext /\ UNCHANGED <<vars, cvars, wvars, running>>

OverlapsSpec ==
  OverlapsInit /\ [][OverlapsNext]_<<vars, cvars, wvars, tvars, running>>
=============================================================================
