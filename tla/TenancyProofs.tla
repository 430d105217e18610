---------------------------- MODULE TenancyProofs ---------------------------
(* Keys and tenants stay together, for any number of concurrent commands.   *)
EXTENDS Tenancy, TLAPS

\* A step that keeps the tables and only ends or advances the command of p.
LEMMA CommandStep ==
  ASSUME TenancyInv, NEW p \in Procs, Show(p) \/ GiveUp(p)
  PROVE  TenancyInv'
<1>1. /\ tenants' = tenants /\ keys' = keys /\ nextTenant' = nextTenant /\ nextKey' = nextKey
      /\ proc' = [proc EXCEPT ![p] = Ended]
  BY DEF Show, GiveUp
<1>2. proc'[p].pc = "ended" /\ \A q \in Procs \ {p} : proc'[q] = proc[q]
  BY <1>1 DEF TenancyInv, TablesOK, Ended
<1>3. \A h \in printed' : /\ KeyOf(h.hash, h.id, h.name)
                          /\ h \in [hash : Nat, id : Nat, name : TenantNames]
  <2>1. CASE GiveUp(p)
    BY <2>1 DEF GiveUp, TenancyInv, TablesOK
  <2>2. CASE Show(p)
    <3>1. /\ proc[p] \in [pc : {"print"}, id : Nat, name : TenantNames, hash : Nat]
          /\ KeyOf(proc[p].hash, proc[p].id, proc[p].name)
      BY <2>2 DEF Show, TenancyInv, TablesOK, CommandOK, Ended
    <3> QED BY <2>2, <3>1 DEF Show, TenancyInv, TablesOK
  <2> QED BY <2>1, <2>2
<1>4. TablesOK'
  BY <1>1, <1>3 DEF TenancyInv, TablesOK
<1> QED BY <1>1, <1>2, <1>3, <1>4 DEF TenancyInv, Issued, NoOrphans, CommandOK, KeyOf

LEMMA CreateStep ==
  ASSUME TenancyInv, NEW p \in Procs, NEW n \in TenantNames, CreateTenant(p, n)
  PROVE  TenancyInv'
<1> DEFINE t == [id |-> nextTenant, name |-> n]
<1>1. /\ tenants' = tenants \cup {t} /\ nextTenant' = nextTenant + 1
      /\ keys' = keys /\ nextKey' = nextKey /\ printed' = printed
      /\ proc' = [proc EXCEPT ![p] = [pc |-> "key", id |-> nextTenant, name |-> n]]
      /\ \A u \in tenants : u.name # n
  BY DEF CreateTenant, InsertTenant
<1>2. nextTenant \in Nat /\ nextKey \in Nat /\ tenants \subseteq Tenants
      /\ keys \subseteq [hash : Nat, tenant : Nat]
  BY DEF TenancyInv, TablesOK
<1>3. /\ proc'[p] = [pc |-> "key", id |-> nextTenant, name |-> n]
      /\ \A q \in Procs \ {p} : proc'[q] = proc[q]
  BY <1>1 DEF TenancyInv, TablesOK
<1>4. TablesOK'
  BY <1>1, <1>2 DEF TenancyInv, TablesOK, Tenants
<1>5. Issued'
  BY <1>1, <1>2 DEF TenancyInv, Issued, Tenants
<1>6. NoOrphans'
  BY <1>1 DEF TenancyInv, NoOrphans
<1>7. ASSUME NEW hash, NEW id \in Nat, NEW name, KeyOf(hash, id, name)
      PROVE  KeyOf(hash, id, name)'
  BY <1>1, <1>2, <1>7 DEF KeyOf, Tenants
<1>8. ASSUME NEW q \in Procs PROVE CommandOK(q)'
  <2>1. CASE q = p
    BY <1>1, <1>2, <1>3, <2>1 DEF TenancyInv, Issued, CommandOK, Tenants
  <2>2. CASE q # p /\ proc[q].pc = "key"
    BY <1>1, <1>2, <1>3, <2>2 DEF TenancyInv, CommandOK, TablesOK, Tenants, Ended
  <2>3. CASE q # p /\ proc[q].pc = "print"
    <3> PICK hash \in Nat, id \in Nat, name \in TenantNames : hash = proc[q].hash /\ id = proc[q].id /\ name = proc[q].name
      BY <2>3 DEF TenancyInv, TablesOK, Ended
    <3>1. KeyOf(hash, id, name)'
      BY <1>7, <2>3 DEF TenancyInv, CommandOK
    <3> QED BY <1>3, <2>3, <3>1 DEF CommandOK, KeyOf
  <2>4. CASE q # p /\ proc[q].pc \notin {"key", "print"}
    BY <1>3, <2>4 DEF CommandOK
  <2> QED BY <2>1, <2>2, <2>3, <2>4
<1>9. \A h \in printed' : KeyOf(h.hash, h.id, h.name)'
  BY <1>1, <1>7 DEF TenancyInv, TablesOK
<1> QED BY <1>4, <1>5, <1>6, <1>8, <1>9 DEF TenancyInv

LEMMA GenerateStep ==
  ASSUME TenancyInv, NEW p \in Procs, Generate(p)
  PROVE  TenancyInv'
<1>0. /\ nextTenant \in Nat /\ nextKey \in Nat /\ tenants \subseteq Tenants
      /\ keys \subseteq [hash : Nat, tenant : Nat]
      /\ tenants' = tenants /\ nextTenant' = nextTenant /\ printed' = printed
      /\ proc[p] \in [pc : {"key"}, id : Nat, name : TenantNames]
      /\ CommandOK(p)
  BY DEF TenancyInv, TablesOK, Generate, InsertKey, Ended
<1>1. CASE \E t \in tenants : t.id = proc[p].id
  <2> DEFINE k == [hash |-> nextKey, tenant |-> proc[p].id]
  <2>1. /\ keys' = keys \cup {k} /\ nextKey' = nextKey + 1
        /\ proc' = [proc EXCEPT ![p] = [pc |-> "print", id |-> proc[p].id,
                                        name |-> proc[p].name, hash |-> nextKey]]
    BY <1>1 DEF Generate, InsertKey
  <2>2. /\ proc'[p] = [pc |-> "print", id |-> proc[p].id, name |-> proc[p].name, hash |-> nextKey]
        /\ \A q \in Procs \ {p} : proc'[q] = proc[q]
    BY <2>1 DEF TenancyInv, TablesOK
  <2>3. TablesOK'
    BY <1>0, <2>1 DEF TenancyInv, TablesOK
  <2>4. Issued'
    BY <1>0, <2>1 DEF TenancyInv, Issued
  <2>5. NoOrphans'
    BY <1>0, <1>1, <2>1 DEF TenancyInv, NoOrphans
  <2>6. ASSUME NEW hash \in Nat, NEW id, NEW name, KeyOf(hash, id, name)
        PROVE  KeyOf(hash, id, name)'
    BY <1>0, <2>1, <2>6 DEF KeyOf
  <2>7. CommandOK(p)'
    <3> PICK h \in Nat, id \in Nat, name \in TenantNames :
          h = nextKey /\ id = proc[p].id /\ name = proc[p].name
      BY <1>0
    <3>1. [id |-> id, name |-> name] \in tenants
      BY <1>0, <1>1 DEF CommandOK, Tenants
    <3>2. /\ \A l \in keys : l.hash < nextKey
          /\ id < nextTenant /\ \A t \in tenants : t.id = id => t.name = name
      BY <1>0 DEF TenancyInv, Issued, CommandOK
    <3>3. KeyOf(h, id, name)'
      BY <1>0, <2>1, <3>1, <3>2 DEF KeyOf
    <3>4. proc'[p].pc = "print" /\ proc'[p].hash = h /\ proc'[p].id = id /\ proc'[p].name = name
      BY <2>2
    <3> QED BY <3>3, <3>4 DEF CommandOK, KeyOf
  <2>8. ASSUME NEW q \in Procs PROVE CommandOK(q)'
    <3>1. CASE q = p
      BY <2>7, <3>1
    <3>2. CASE q # p
      BY <1>0, <2>1, <2>2, <2>6, <3>2 DEF TenancyInv, CommandOK, TablesOK, KeyOf, Ended
    <3> QED BY <3>1, <3>2
  <2>9. \A h \in printed' : KeyOf(h.hash, h.id, h.name)'
    BY <1>0, <2>6 DEF TenancyInv, TablesOK
  <2> QED BY <2>3, <2>4, <2>5, <2>8, <2>9 DEF TenancyInv
<1>2. CASE ~(\E t \in tenants : t.id = proc[p].id)
  <2>1. keys' = keys /\ nextKey' = nextKey /\ proc' = [proc EXCEPT ![p] = Ended]
    BY <1>2 DEF Generate, InsertKey
  <2>2. proc'[p].pc = "ended" /\ \A q \in Procs \ {p} : proc'[q] = proc[q]
    BY <2>1 DEF TenancyInv, TablesOK, Ended
  <2>3. TablesOK'
    BY <1>0, <2>1 DEF TenancyInv, TablesOK
  <2> QED BY <1>0, <2>1, <2>2, <2>3 DEF TenancyInv, Issued, NoOrphans, CommandOK, KeyOf
<1> QED BY <1>1, <1>2

LEMMA DeleteStepKeeps ==
  ASSUME TenancyInv, NEW n \in TenantNames, Delete(n)
  PROVE  TenancyInv'
<1>1. /\ tenants' = {t \in tenants : t.name # n}
      /\ keys' = {k \in keys : \A t \in tenants : t.name = n => k.tenant # t.id}
      /\ nextTenant' = nextTenant /\ nextKey' = nextKey /\ proc' = proc /\ printed' = printed
  BY DEF Delete, DeleteStep
<1>2. TablesOK' /\ Issued'
  BY <1>1 DEF TenancyInv, TablesOK, Issued
<1>3. NoOrphans'
  BY <1>1 DEF TenancyInv, NoOrphans
<1>4. ASSUME NEW hash, NEW id, NEW name, KeyOf(hash, id, name)
      PROVE  KeyOf(hash, id, name)'
  BY <1>1, <1>4 DEF KeyOf, TenancyInv, Issued
<1>5. \A q \in Procs : CommandOK(q)'
  BY <1>1, <1>4 DEF TenancyInv, CommandOK, KeyOf
<1>6. \A h \in printed' : KeyOf(h.hash, h.id, h.name)'
  BY <1>1, <1>4 DEF TenancyInv
<1> QED BY <1>2, <1>3, <1>5, <1>6 DEF TenancyInv

\* The invariant of tenants and keys, for any number of commands and tenants.
THEOREM TenancyInvariance == TSpec => []TenancyInv
<1>1. TInit => TenancyInv
  BY DEF TInit, TenancyInv, TablesOK, Issued, NoOrphans, CommandOK, Ended
<1>2. TenancyInv /\ [TNext]_tvars => TenancyInv'
  <2> SUFFICES ASSUME TenancyInv, [TNext]_tvars PROVE TenancyInv'
    OBVIOUS
  <2>1. CASE UNCHANGED tvars
    BY <2>1 DEF tvars, TenancyInv, TablesOK, Issued, NoOrphans, CommandOK, KeyOf
  <2> QED BY <2>1, CommandStep, CreateStep, GenerateStep, DeleteStepKeeps DEF TNext
<1> QED BY <1>1, <1>2, PTL DEF TSpec

\* No key outlives its tenant: the cascade, and the check on insertion.
THEOREM NoKeyIsOrphaned == TSpec => []NoOrphans
<1>1. TenancyInv => NoOrphans
  BY DEF TenancyInv
<1> QED BY <1>1, TenancyInvariance, PTL

\* A printed key opens its tenant, and only that one, exactly while it exists.
THEOREM KeysOpenTheirTenant == TSpec => []PrintedKeysOpenTheirTenant
<1>1. TenancyInv => PrintedKeysOpenTheirTenant
  <2> SUFFICES ASSUME TenancyInv, NEW h \in printed
               PROVE  Opens(h.hash) = IF [id |-> h.id, name |-> h.name] \in tenants
                                      THEN {h.id} ELSE {}
    BY DEF PrintedKeysOpenTheirTenant
  <2>1. KeyOf(h.hash, h.id, h.name) /\ keys \subseteq [hash : Nat, tenant : Nat]
    BY DEF TenancyInv, TablesOK
  <2>2. \A k \in keys : k.hash = h.hash => k = [hash |-> h.hash, tenant |-> h.id]
    BY <2>1 DEF KeyOf
  <2>3. CASE [id |-> h.id, name |-> h.name] \in tenants
    BY <2>1, <2>2, <2>3 DEF KeyOf, Opens
  <2>4. CASE [id |-> h.id, name |-> h.name] \notin tenants
    BY <2>1, <2>2, <2>4 DEF KeyOf, Opens
  <2> QED BY <2>3, <2>4
<1> QED BY <1>1, TenancyInvariance, PTL
=============================================================================
