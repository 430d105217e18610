---------------------------- MODULE SharedConfig ----------------------------
(* cfg.Services of the `serve` command: one slice, shared by the REST API   *)
(* (internal/api), the dashboard (internal/web) and the MCP tools           *)
(* (internal/mcpserver).  The API and the dashboard change it, each under a *)
(* mutex of its own; the dashboard's pages and the tools read it under none.*)
(* A request is a goroutine; each of its reads and writes of the slice      *)
(* header is a step.  An append that reuses the backing array is one write. *)
EXTENDS Naturals, Sequences

CONSTANTS
  Requests,   \* goroutines of the HTTP server
  Names,      \* service names
  Blank,      \* the name of a zero ServiceConfig
  Worlds,     \* the sets of handlers whose use is studied
  Configured  \* the services of the config file

AllDoors == {"api", "web", "mcp"}
NoDup(list) == \A i, j \in DOMAIN list : list[i] = list[j] => i = j

ASSUME SharedConfigAssumption ==
  /\ Blank \notin Names
  /\ Worlds \subseteq SUBSET AllDoors
  /\ Configured \in Seq(Names) /\ NoDup(Configured)

VARIABLES
  doors,      \* the handlers in use in this behaviour
  services,   \* cfg.Services
  req,        \* req[r]: the handler that r runs
  ack,        \* the answer given in the last step, if it gave one
  panicked    \* a goroutine indexed out of range: the process is gone

vars == <<doors, services, req, ack, panicked>>

Idle == [pc |-> "idle", door |-> "api", answer |-> "none", name |-> Blank,
         size |-> 0, list |-> <<>>]
NoAck == [answer |-> "none", name |-> Blank, list |-> <<>>]

Has(list, n) == \E i \in DOMAIN list : list[i] = n
\* Seeded fault: the entry is blanked, not taken out.
Without_Zeroed(list, n) == [i \in DOMAIN list |-> IF list[i] = n THEN Blank ELSE list[i]]

\* The loop of deleteService: kept[i] is what it has taken over after i entries.
Without(list, n) ==
  LET kept[i \in 0..Len(list)] ==
        IF i = 0 THEN <<>>
        ELSE IF list[i] = n THEN kept[i - 1] ELSE Append(kept[i - 1], list[i])
  IN kept[Len(list)]

\* What a reader gets that made room for size entries and then found list.
Fitted(list, size) ==
  [i \in 1..size |-> IF i <= Len(list) THEN list[i] ELSE Blank]

\* The mutex of a door: a writer excludes all, a reader (API only) the writers.
Writing(r, d) == req[r].door = d /\ req[r].pc \in {"append", "store"}
Reading(r, d) == req[r].door = d /\ req[r].pc = "copy"
CanLock(d)  == \A r \in Requests : ~Writing(r, d) /\ ~Reading(r, d)
CanRLock(d) == \A r \in Requests : ~Writing(r, d)

Init == /\ doors \in Worlds
        /\ services = Configured
        /\ req = [r \in Requests |-> Idle]
        /\ ack = NoAck /\ panicked = FALSE

-----------------------------------------------------------------------------
Goes(r, state) == req' = [req EXCEPT ![r] = state]
Answers(answer, n, list) == ack' = [answer |-> answer, name |-> n, list |-> list]
Silent == ack' = NoAck

\* Bad input is refused without a look at the list; that is left out.

\* addService: take the mutex, look for a duplicate.
AddScanStep(r, d, n, mayLock) ==
  /\ req[r].pc = "idle" /\ d \in {"api", "web"} /\ mayLock
  /\ IF Has(services, n)
     THEN Answers("exists", n, services) /\ UNCHANGED req
     ELSE Silent /\ Goes(r, [Idle EXCEPT !.pc = "append", !.door = d, !.name = n])
  /\ UNCHANGED <<services, panicked>>

\* Seeded fault: the duplicate check is done before the mutex is taken.
AddScan_Unlocked(r, d, n) == AddScanStep(r, d, n, TRUE)

AddScan(r, d, n) == AddScanStep(r, d, n, CanLock(d))

\* append reads the slice a second time.
AddAppend(r) ==
  /\ req[r].pc = "append"
  /\ Goes(r, [req[r] EXCEPT !.pc = "store", !.answer = "created",
                            !.list = Append(services, req[r].name)])
  /\ Silent /\ UNCHANGED <<services, panicked>>

\* deleteService: take the mutex, copy the others.
DeleteScanStep(r, d, n, mayLock) ==
  /\ req[r].pc = "idle" /\ d \in {"api", "web"} /\ mayLock
  /\ IF Has(services, n)
     THEN Silent /\ Goes(r, [Idle EXCEPT !.pc = "store", !.door = d, !.name = n,
                               !.answer = "deleted", !.list = Without(services, n)])
     ELSE Answers("missing", n, services) /\ UNCHANGED req
  /\ UNCHANGED <<services, panicked>>

\* Seeded fault: the copy is made before the mutex is taken.
DeleteScan_Unlocked(r, d, n) == DeleteScanStep(r, d, n, TRUE)

DeleteScan(r, d, n) == DeleteScanStep(r, d, n, CanLock(d))

\* Assign the slice and unlock; the dashboard goes on to render its table.
Store(r) ==
  /\ req[r].pc = "store"
  /\ services' = req[r].list
  /\ Answers(req[r].answer, req[r].name, req[r].list)
  /\ Goes(r, IF req[r].door = "web" THEN [Idle EXCEPT !.pc = "size", !.door = "web"] ELSE Idle)
  /\ UNCHANGED panicked

\* Seeded fault: listServices makes room before it takes the read lock.
ListSize_Unlocked(r) ==
  /\ req[r].pc = "idle"
  /\ Goes(r, [Idle EXCEPT !.pc = "copy", !.size = Len(services)])
  /\ Silent /\ UNCHANGED <<services, panicked>>

\* listServices and getTimeline: make under RLock, then copy.
ListSize(r) ==
  /\ req[r].pc = "idle" /\ CanRLock("api")
  /\ Goes(r, [Idle EXCEPT !.pc = "copy", !.size = Len(services)])
  /\ Silent /\ UNCHANGED <<services, panicked>>

ListCopy(r) ==
  /\ req[r].pc = "copy"
  /\ Answers("listed", Blank, Fitted(services, req[r].size))
  /\ Goes(r, Idle)
  /\ UNCHANGED <<services, panicked>>

\* fetchDashboardData and the tools: make without a lock.  (A tool returns early
\* if a read before this one finds no service.)
ReadSize(r, d) ==
  /\ \/ req[r].pc = "idle" /\ d \in {"web", "mcp"}
     \/ req[r].pc = "size" /\ d = "web"
  /\ Goes(r, [Idle EXCEPT !.pc = "range", !.door = d, !.size = Len(services)])
  /\ Silent /\ UNCHANGED <<services, panicked>>

\* range over the slice, read again: the goroutine of entry i writes result i.
ReadRange(r) ==
  /\ req[r].pc = "range"
  /\ panicked' = (Len(services) > req[r].size)
  /\ Goes(r, Idle)
  /\ Silent /\ UNCHANGED services

Next ==
  /\ ~panicked /\ UNCHANGED doors
  /\ \E r \in Requests :
       \/ \E d \in doors, n \in Names : AddScan(r, d, n) \/ DeleteScan(r, d, n)
       \/ AddAppend(r) \/ Store(r)
       \/ "api" \in doors /\ ListSize(r)
       \/ ListCopy(r)
       \/ \E d \in doors : ReadSize(r, d)
       \/ ReadRange(r)

Spec == Init /\ [][Next]_vars

-----------------------------------------------------------------------------
MaybeName == Names \cup {Blank}

TypeOK ==
  /\ doors \in Worlds
  /\ services \in Seq(Names)
  /\ req \in [Requests -> [pc : {"idle", "append", "store", "copy", "size", "range"},
                           door : AllDoors, answer : {"none", "created", "deleted"},
                           name : MaybeName, size : Nat, list : Seq(Names)]]
  /\ ack \in [answer : {"none", "created", "exists", "deleted", "missing", "listed"},
              name : MaybeName, list : Seq(MaybeName)]
  /\ panicked \in BOOLEAN

\* No two services have one name, which config.Validate demands of the file and
\* addService checks before it appends.
UniqueNames == NoDup(services)

\* A change that was acknowledged took effect on the list of that moment and on
\* nothing else: no change is lost to, or undone by, a concurrent one.
AcknowledgedInFull ==
  [][/\ ack'.answer = "created" => services' = Append(services, ack'.name)
     /\ ack'.answer = "deleted" => /\ Has(services, ack'.name)
                                   /\ services' = Without(services, ack'.name)
    ]_vars

\* A listing of the API is the list of the moment: nothing blank, nothing cut off
\* (listServices: snapshot under RLock).
ListingsAreCurrent == ack.answer = "listed" => ack.list = services

\* No reader is brought down by a list that grew under it; the panic would be in
\* a goroutine of the handler's own, which net/http does not recover.
NeverPanics == ~panicked

\* What docs/adr/0001-production-hardening.md:85 says of the API's and the dashboard's
\* handlers: "Config mutations are thread-safe".
ThreadSafe == UniqueNames /\ NeverPanics
=============================================================================
