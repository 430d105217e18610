------------------------------ MODULE Tenancy -------------------------------
(* internal/tenant under the commands `tenant create` and `tenant delete`.  *)
(* Each command is a process with one connection to the shared SQLite file, *)
(* opened with foreign keys enforced; creation is two statements, and other *)
(* commands may run between them.                                           *)
EXTENDS Naturals

CONSTANTS
  Procs,         \* processes that may run a command at one time
  TenantNames,
  MaxIds         \* bound: tenants ever created

ASSUME TenancyAssumption == MaxIds \in Nat

VARIABLES
  tenants,      \* table tenants
  keys,         \* table api_keys; hash stands for the key it was made from
  nextTenant,   \* sqlite_sequence of tenants (AUTOINCREMENT)
  nextKey,      \* keys generated so far; random keys do not repeat
  proc,         \* proc[p]: the create command that p is in
  printed       \* the keys printed, and the tenant each was printed for

tvars == <<tenants, keys, nextTenant, nextKey, proc, printed>>

Ended == [pc |-> "ended"]

TInit == /\ tenants = {} /\ keys = {} /\ printed = {}
         /\ nextTenant = 1 /\ nextKey = 1
         /\ proc = [p \in Procs |-> Ended]

-----------------------------------------------------------------------------
\* Store.Create: the name is UNIQUE; a name that is taken ends the command.
InsertTenant(p, n, id, next) ==
  /\ proc[p].pc = "ended" /\ nextTenant <= MaxIds
  /\ \A t \in tenants : t.name # n
  /\ tenants' = tenants \cup {[id |-> id, name |-> n]}
  /\ nextTenant' = next
  /\ proc' = [proc EXCEPT ![p] = [pc |-> "key", id |-> id, name |-> n]]
  /\ UNCHANGED <<keys, nextKey, printed>>

\* Seeded fault: without AUTOINCREMENT the id of a deleted tenant comes back.
CreateTenant_ReusedId(p, n) == \E id \in 1..MaxIds :
  /\ \A t \in tenants : t.id < id
  /\ \A below \in 1..(id - 1) : \E t \in tenants : t.id >= below
  /\ InsertTenant(p, n, id, nextTenant + 1)

CreateTenant(p, n) == InsertTenant(p, n, nextTenant, nextTenant + 1)

\* KeyStore.Generate: the foreign key is checked as the row is inserted.
InsertKey(p, accepted) ==
  /\ proc[p].pc = "key"
  /\ IF accepted
     THEN /\ keys' = keys \cup {[hash |-> nextKey, tenant |-> proc[p].id]}
          /\ nextKey' = nextKey + 1
          /\ proc' = [proc EXCEPT ![p] =
               [pc |-> "print", id |-> @.id, name |-> @.name, hash |-> nextKey]]
     ELSE proc' = [proc EXCEPT ![p] = Ended] /\ UNCHANGED <<keys, nextKey>>
  /\ UNCHANGED <<tenants, nextTenant, printed>>

\* Seeded fault: foreign keys are off on the connection.
Generate_Unchecked(p) == InsertKey(p, TRUE)

Generate(p) == InsertKey(p, \E t \in tenants : t.id = proc[p].id)

\* The key is shown, once.
Show(p) ==
  /\ proc[p].pc = "print"
  /\ printed' = printed \cup {[hash |-> proc[p].hash, id |-> proc[p].id, name |-> proc[p].name]}
  /\ proc' = [proc EXCEPT ![p] = Ended]
  /\ UNCHANGED <<tenants, keys, nextTenant, nextKey>>

\* A statement fails (the database is busy) or the process is killed.
GiveUp(p) ==
  /\ proc[p].pc \in {"key", "print"}
  /\ proc' = [proc EXCEPT ![p] = Ended]
  /\ UNCHANGED <<tenants, keys, nextTenant, nextKey, printed>>

\* Store.Delete: ON DELETE CASCADE takes the keys along.
DeleteStep(n, left) ==
  /\ \E t \in tenants : t.name = n
  /\ tenants' = {t \in tenants : t.name # n}
  /\ keys' = left
  /\ UNCHANGED <<nextTenant, nextKey, proc, printed>>

\* Seeded fault: the delete does not cascade.
Delete_NoCascade(n) == DeleteStep(n, keys)

Delete(n) ==
  DeleteStep(n, {k \in keys : \A t \in tenants : t.name = n => k.tenant # t.id})

TNext == \/ \E p \in Procs : \/ Generate(p) \/ Show(p) \/ GiveUp(p)
                             \/ \E n \in TenantNames : CreateTenant(p, n)
         \/ \E n \in TenantNames : Delete(n)

TSpec == TInit /\ [][TNext]_tvars

-----------------------------------------------------------------------------
Tenants == [id : Nat, name : TenantNames]

TablesOK ==
  /\ tenants \subseteq Tenants
  /\ keys \subseteq [hash : Nat, tenant : Nat]
  /\ nextTenant \in Nat /\ nextKey \in Nat
  /\ proc \in [Procs -> {Ended} \cup [pc : {"key"}, id : Nat, name : TenantNames]
                         \cup [pc : {"print"}, id : Nat, name : TenantNames, hash : Nat]]
  /\ printed \subseteq [hash : Nat, id : Nat, name : TenantNames]

\* KeyStore.Validate: the tenants a key opens.
Opens(hash) == {k.tenant : k \in {l \in keys : l.hash = hash}}

\* A printed key opens the tenant it was printed for and no other, for as long as
\* that tenant exists and no longer, whatever was created and deleted since under
\* the same name or while the command that printed it ran.
PrintedKeysOpenTheirTenant ==
  \A h \in printed :
    Opens(h.hash) = IF [id |-> h.id, name |-> h.name] \in tenants THEN {h.id} ELSE {}

\* No key outlives its tenant (docs/adr/0001-production-hardening.md: "cascade
\* deletes work").
NoOrphans == \A k \in keys : \E t \in tenants : t.id = k.tenant

\* Why: ids and hashes are issued once, and a command in progress holds one.
Issued ==
  /\ \A t \in tenants : t.id < nextTenant
  /\ \A t, u \in tenants : t.id = u.id \/ t.name = u.name => t = u
  /\ \A k \in keys : k.hash < nextKey
  /\ \A k, l \in keys : k.hash = l.hash => k = l

\* A key and the tenant it was made for: it is there exactly while the tenant is.
KeyOf(hash, id, name) ==
  /\ hash < nextKey /\ id < nextTenant
  /\ \A t \in tenants : t.id = id => t.name = name
  /\ \A k \in keys : k.hash = hash => k.tenant = id
  /\ [id |-> id, name |-> name] \in tenants <=> [hash |-> hash, tenant |-> id] \in keys

CommandOK(p) ==
  /\ proc[p].pc = "key" => /\ proc[p].id < nextTenant
                           /\ \A t \in tenants : t.id = proc[p].id => t.name = proc[p].name
  /\ proc[p].pc = "print" => KeyOf(proc[p].hash, proc[p].id, proc[p].name)

TenancyInv ==
  /\ TablesOK /\ Issued /\ NoOrphans
  /\ \A p \in Procs : CommandOK(p)
  /\ \A h \in printed : KeyOf(h.hash, h.id, h.name)
=============================================================================
