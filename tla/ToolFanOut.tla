----------------------------- MODULE ToolFanOut -----------------------------
(* The tools, handlers and commands that put one question to every          *)
(* configured service.  A behaviour is one call: a goroutine per service    *)
(* asks the provider and puts what it learnt into a slot of its own, or     *)
(* appends it under a mutex; the call waits for all, then sorts, counts or  *)
(* pairs up what was collected.  /api/v1/timeline reads the store instead,  *)
(* service by service.  Which request fails, and when, is left open.        *)
EXTENDS Naturals, Sequences, FiniteSets, Functions
SeqExt == INSTANCE SequencesExt

CONSTANTS
  Names,      \* the services in the order of the config; a name is its place in the alphabet
  Cases,      \* calls to study: the tool, and what the world holds for each service
  None,       \* no deployed version; no dependency file
  Now,        \* the time of the call
  Cutoff,     \* the timeline's oldest time
  Week,       \* seven days
  Grain,      \* the unit of a printed date
  HistoryLimit \* the rows asked of the store for one service

N == Len(Names)
Services == DOMAIN Names
DepFiles == 1..3     \* go.mod, package.json, requirements.txt

ASSUME ToolFanOutAssumption ==
  /\ Names \in Seq(Nat \ {0})
  /\ \A i, j \in Services : Names[i] = Names[j] => i = j
  /\ {Now, Cutoff, Week, Grain, HistoryLimit} \subseteq Nat /\ Grain > 0
  \* What a provider, and the store, can answer about a service.
  /\ \A c \in Cases, i \in Services :
       /\ c.svc[i].repo \in {"ok", "malformed", "unsupported"}
       /\ c.svc[i].latest.date \in Nat
       /\ c.svc[i].list \in Seq(Nat) /\ c.svc[i].rows \in Seq(Nat)
  \* A dependency is its place in the alphabet; a map lists it once.
  /\ \A c \in Cases, i \in Services, f \in DepFiles :
       c.svc[i].files[f] # None => c.svc[i].files[f] \subseteq Nat
  \* "Releases are newest-first"
  /\ \A c \in Cases, i \in Services : \A k, l \in DOMAIN c.svc[i].list :
       k < l => c.svc[i].list[k] >= c.svc[i].list[l]

VARIABLES
  tool,     \* the tool called
  svc,      \* svc[i]: repo string, latest release, releases, deployed version, files, rows
  cluster,  \* whether Kubernetes answers
  phase,    \* "begin", "fan" (goroutines at work), "pairs" (service_graph only), "replied"
  pc, file, \* pc[i]: the goroutine of service i; file[i]: how many files or releases it is past
  got,      \* got[i]: what it was answered
  results,  \* the slice the goroutines fill
  left, edges,  \* service_graph: dependencies not paired up yet, and the edge map
  out       \* the reply

vars == <<tool, svc, cluster, phase, pc, file, got, results, left, edges, out>>

SlotTools == {"check_services", "find_outdated", "list_services", "dashboard", "check",
              "compare_release_vs_deployed", "upgrade_plan", "service_graph"}
ListTools == {"release_timeline", "timeline"}
ClusterTools == {"compare_release_vs_deployed", "upgrade_plan"}
FileTools == {"dependency_matrix", "service_graph"}
Tools     == SlotTools \cup ListTools \cup FileTools \cup {"api_timeline"}

Unasked  == [err |-> "unasked", val |-> None]
Answer(v) == [err |-> "", val |-> v]
Error(e)  == [err |-> e, val |-> None]
Zero == [name |-> 0, err |-> "", latest |-> None, upToDate |-> FALSE,
         priority |-> "", date |-> 0, deps |-> {}]

Init ==
  /\ \E c \in Cases : tool = c.tool /\ svc = c.svc
  /\ cluster \in IF tool \in ClusterTools THEN BOOLEAN ELSE {TRUE}
  /\ phase = "begin"
  /\ pc = [i \in Services |-> "ask"] /\ file = [i \in Services |-> 0]
  /\ got = [i \in Services |-> Unasked]
  /\ results = IF tool \in SlotTools THEN [i \in Services |-> Zero] ELSE <<>>
  /\ left = {} /\ edges = <<>> /\ out = <<>>

-----------------------------------------------------------------------------
(* The call, up to its goroutines.                                          *)

\* Two tools list the deployments first: one cannot do without, one can.
Begin ==
  /\ phase = "begin" /\ tool \in Tools
  /\ phase' = IF tool = "compare_release_vs_deployed" /\ ~cluster THEN "replied" ELSE "fan"
  /\ UNCHANGED <<tool, svc, cluster, pc, file, got, results, left, edges, out>>

Deployed(i) == IF cluster THEN svc[i].deployed ELSE None

\* deployedVer against release.Tag, with or without its "v".
UpToDate(deployed, tag) == deployed \in {tag, [tag EXCEPT !.v = FALSE]}

-----------------------------------------------------------------------------
(* One goroutine.                                                           *)

Learns(i, answer) ==
  /\ got' = [got EXCEPT ![i] = answer] /\ pc' = [pc EXCEPT ![i] = "answer"]
  /\ UNCHANGED <<tool, svc, cluster, phase, file, results, left, edges, out>>

\* ParseRepo or the choice of the provider fails.
Reject(i) == svc[i].repo # "ok" /\ Learns(i, Error(svc[i].repo))

\* GetLatestRelease, or ListReleases.
Request(i) ==
  /\ svc[i].repo = "ok"
  /\ tool \notin FileTools
  /\ \/ Learns(i, Error("failed"))
     \/ Learns(i, Answer(IF tool \in ListTools THEN svc[i].list ELSE svc[i].latest))

\* Seeded fault: a file that cannot be read is asked for again.
Past_Retry(f) == f - 1

\* "continue"
Past(f) == f

\* GetFileContent of the next file: whatever goes wrong, "try next".
TryFile(i) ==
  LET f == file[i] + 1 IN
  /\ svc[i].repo = "ok" /\ tool \in FileTools
  /\ IF f \notin DepFiles THEN Learns(i, Error("no dependency file found")) ELSE
     \/ svc[i].files[f] # None /\ Learns(i, Answer([file |-> f, deps |-> svc[i].files[f]]))
     \/ /\ file' = [file EXCEPT ![i] = Past(f)]
        /\ UNCHANGED <<tool, svc, cluster, phase, pc, got, results, left, edges, out>>

Ask(i) == /\ phase = "fan" /\ pc[i] = "ask" /\ tool # "api_timeline"
          /\ Reject(i) \/ Request(i) \/ TryFile(i)

\* Seeded fault: the goroutine sees the loop's last index, not its own.
PutAt_LoopVariable(i) == N

PutAt(i) == i

\* results[idx] = entry
Slot(i, entry) ==
  /\ phase = "fan" /\ pc[i] = "answer"
  /\ results' = [results EXCEPT ![PutAt(i)] = entry]
  /\ pc' = [pc EXCEPT ![i] = "done"]
  /\ UNCHANGED <<tool, svc, cluster, phase, file, got, left, edges, out>>

Tag(i) == IF got[i].err = "" THEN got[i].val.tag ELSE None
Status(i) == [name |-> Names[i], err |-> got[i].err, latest |-> Tag(i)]

CheckServices(i) == tool = "check_services" /\ Slot(i, Status(i))
FindOutdated(i)  == tool = "find_outdated" /\ Slot(i, Status(i))
ListServices(i)  == tool = "list_services" /\ Slot(i, Status(i))
Dashboard(i)     == tool = "dashboard" /\ Slot(i, Status(i))
CheckCommand(i)  == tool = "check" /\ Slot(i, Status(i))

CompareReleaseVsDeployed(i) ==
  /\ tool = "compare_release_vs_deployed"
  /\ Slot(i, [name |-> Names[i], err |-> got[i].err, latest |-> Tag(i),
              upToDate |-> got[i].err = "" /\ UpToDate(Deployed(i), Tag(i))])

\* How urgent is a release that is not deployed?
Priority(release, upToDate) ==
  IF upToDate THEN "low"
  ELSE IF release.security THEN "critical"
  ELSE IF Now - release.date < Week THEN "medium" ELSE "high"

Printed(t) == t \div Grain

\* An entry with an error has no priority and no date.
UpgradePlan(i) ==
  LET r == got[i].val IN
  /\ tool = "upgrade_plan"
  /\ Slot(i, IF got[i].err # ""
             THEN [name |-> Names[i], err |-> got[i].err, latest |-> None,
                   priority |-> "", date |-> 0]
             ELSE [name |-> Names[i], err |-> "", latest |-> r.tag,
                   priority |-> Priority(r, UpToDate(Deployed(i), r.tag)),
                   date |-> Printed(r.date)])

Deps(i) == IF got[i].err = "" THEN got[i].val.deps ELSE {}

ServiceGraph(i) ==
  /\ tool = "service_graph"
  /\ Slot(i, [name |-> Names[i], err |-> got[i].err, deps |-> Deps(i)])

\* Under the mutex: append to the shared slice.
AppendAll(entries) ==
  /\ phase = "fan"
  /\ results' = results \o entries
  /\ UNCHANGED <<tool, svc, cluster, phase, left, edges, out>>

\* The services whose files are all missing are left out.
DependencyMatrix(i) ==
  /\ tool = "dependency_matrix" /\ pc[i] = "answer"
  /\ AppendAll(IF got[i].err = "no dependency file found" THEN <<>>
               ELSE << [name |-> Names[i], err |-> got[i].err, content |-> got[i].val] >>)
  /\ pc' = [pc EXCEPT ![i] = "done"] /\ UNCHANGED <<file, got>>

\* Seeded fault: a release of the cutoff's own time counts as older.
Recent_Strict(t) == t > Cutoff

Recent(t) == t >= Cutoff

\* Releases come newest first: append one after the other up to the first that is
\* too old.  A service that cannot be asked is left out.
CollectRecent(i) ==
  LET k == file[i] + 1
      list == IF got[i].err = "" THEN got[i].val ELSE <<>> IN
  /\ pc[i] = "answer"
  /\ IF k \in DOMAIN list /\ Recent(list[k])
     THEN /\ AppendAll(<< [name |-> Names[i], nth |-> k, date |-> list[k]] >>)
          /\ file' = [file EXCEPT ![i] = k] /\ UNCHANGED <<pc, got>>
     ELSE /\ AppendAll(<<>>)
          /\ pc' = [pc EXCEPT ![i] = "done"] /\ UNCHANGED <<file, got>>

ReleaseTimeline(i)  == tool = "release_timeline" /\ CollectRecent(i)
TimelineCommand(i)  == tool = "timeline" /\ CollectRecent(i)

\* ORDER BY discovered_at DESC LIMIT: rows are kept in the order of their discovery.
GetHistory(i) ==
  LET rows == svc[i].rows
      last == IF Len(rows) < HistoryLimit THEN Len(rows) ELSE HistoryLimit IN
  [k \in 1..last |-> [name |-> Names[i], nth |-> Len(rows) + 1 - k,
                      date |-> rows[Len(rows) + 1 - k]]]

\* No goroutines: one service after the other; one that cannot be read is skipped.
GetTimeline(i) ==
  /\ tool = "api_timeline" /\ pc[i] = "ask"
  /\ \A j \in 1..(i - 1) : pc[j] = "done"
  /\ \/ AppendAll(<<>>) /\ got' = [got EXCEPT ![i] = Error("failed")]
     \/ AppendAll(GetHistory(i)) /\ got' = [got EXCEPT ![i] = Answer(svc[i].rows)]
  /\ pc' = [pc EXCEPT ![i] = "done"] /\ UNCHANGED file

-----------------------------------------------------------------------------
(* The reply, when wg.Wait has returned.                                    *)

Collected == phase = "fan" /\ \A i \in Services : pc[i] = "done"

Replies(reply) ==
  /\ out' = reply /\ phase' = "replied"
  /\ UNCHANGED <<tool, svc, cluster, pc, file, got, results, left, edges>>

\* sort.Slice: any order that the comparison allows.
Sortings(s, Before(_, _)) ==
  {t \in {[k \in DOMAIN s |-> s[p[k]]] : p \in Bijection(DOMAIN s, DOMAIN s)} :
     \A k, l \in DOMAIN t : k < l => ~Before(t[l], t[k])}

\* Seeded fault: the priorities are compared the other way round.
Rank_Reversed(p) == IF p = "" THEN 0 ELSE [critical |-> 3, high |-> 2, medium |-> 1, low |-> 0][p]

\* priorityOrder[p]: an absent key counts as 0.
Rank(p) == IF p = "" THEN 0 ELSE [critical |-> 0, high |-> 1, medium |-> 2, low |-> 3][p]

MoreUrgent(e, f) == \/ Rank(e.priority) < Rank(f.priority)
                    \/ Rank(e.priority) = Rank(f.priority) /\ e.date < f.date

\* The tool compares the dates it prints, the command the times.
NewerPrinted(e, f) == Printed(e.date) > Printed(f.date)
Newer(e, f)        == e.date > f.date
NameBefore(e, f)   == e.name < f.name

SortAndReply ==
  /\ Collected
  /\ \/ tool = "upgrade_plan" /\ \E s \in Sortings(results, MoreUrgent) : Replies(s)
     \/ tool = "dependency_matrix" /\ \E s \in Sortings(results, NameBefore) : Replies(s)
     \/ tool = "release_timeline" /\ \E s \in Sortings(results, NewerPrinted) : Replies(s)
     \/ tool = "timeline" /\ \E s \in Sortings(results, Newer) : Replies(s)

\* The page counts the services with and without an error.
CountAndReply ==
  /\ Collected /\ tool = "dashboard"
  /\ LET bad == {i \in DOMAIN results : results[i].err # ""}
     IN Replies([list |-> results, healthy |-> N - Cardinality(bad), errors |-> Cardinality(bad)])

PlainReply ==
  /\ Collected
  /\ tool \in {"check_services", "find_outdated", "list_services", "check",
              "compare_release_vs_deployed", "api_timeline"}
  /\ Replies(results)

-----------------------------------------------------------------------------
(* service_graph: from what each service depends on to who shares what.     *)

\* depToServices[d]: a slot is there once, as its dependencies are the keys of a map.
Users(d) == {i \in Services : d \in results[i].deps}
SharedDeps == {d \in UNION {results[i].deps : i \in Services} : Cardinality(Users(d)) >= 2}

Share ==
  /\ Collected /\ tool = "service_graph"
  /\ phase' = "pairs" /\ left' = SharedDeps
  /\ UNCHANGED <<tool, svc, cluster, pc, file, got, results, edges, out>>

\* s1 + "|" + s2, the smaller name first.
EdgeKey(i, j) == IF Names[i] > Names[j] THEN <<Names[j], Names[i]>> ELSE <<Names[i], Names[j]>>

\* Seeded fault: j runs from i.
KeysOf_WithSelf(d) == {EdgeKey(p[1], p[2]) : p \in {q \in Users(d) \X Users(d) : q[1] <= q[2]}}

KeysOf(d) == {EdgeKey(p[1], p[2]) : p \in {q \in Users(d) \X Users(d) : q[1] < q[2]}}

\* range over a map: the dependencies come in any order.
PairUp(d) ==
  /\ phase = "pairs" /\ d \in left /\ left' = left \ {d}
  /\ edges' = [key \in DOMAIN edges \cup KeysOf(d) |->
                 (IF key \in DOMAIN edges THEN edges[key] ELSE <<>>)
                   \o (IF key \in KeysOf(d) THEN <<d>> ELSE <<>>)]
  /\ UNCHANGED <<tool, svc, cluster, phase, pc, file, got, results, out>>

MoreShared(e, f) == Len(e.deps) > Len(f.deps)

\* sort.Strings of an edge's dependencies; the edges come from their map in any order,
\* and sort.Slice compares their numbers of dependencies.
Edge(key) == [between |-> key, deps |-> CHOOSE t \in Sortings(edges[key], <) : TRUE]

GraphReply ==
  /\ phase = "pairs" /\ left = {}
  /\ LET n == Cardinality(DOMAIN edges) IN
     \E order \in Bijection(1..n, DOMAIN edges) :
       /\ \A k, l \in 1..n : k < l => ~MoreShared(Edge(order[l]), Edge(order[k]))
       /\ Replies([k \in 1..n |-> Edge(order[k])])

-----------------------------------------------------------------------------
Goroutine(i) ==
  \/ Ask(i) \/ CheckServices(i) \/ FindOutdated(i) \/ ListServices(i) \/ Dashboard(i)
  \/ CheckCommand(i) \/ CompareReleaseVsDeployed(i) \/ UpgradePlan(i) \/ ServiceGraph(i)
  \/ DependencyMatrix(i) \/ ReleaseTimeline(i) \/ TimelineCommand(i) \/ GetTimeline(i)

Handler == \/ Begin \/ SortAndReply \/ CountAndReply \/ PlainReply
           \/ Share \/ (\E d \in left : PairUp(d)) \/ GraphReply

Next == Handler \/ \E i \in Services : Goroutine(i)

Spec == Init /\ [][Next]_vars

-----------------------------------------------------------------------------
Refused == tool = "compare_release_vs_deployed" /\ ~cluster
Replied(tools) == phase = "replied" /\ tool \in tools /\ ~Refused
Listed == IF tool = "dashboard" THEN out.list ELSE out
EntryOf(i) == {k \in DOMAIN Listed : Listed[k].name = Names[i]}

\* Whatever fails and in whatever order the goroutines run, the reply of a tool with
\* slots has one entry for each service, in the order of the config unless it is
\* sorted, and an entry tells what its own goroutine was answered; the dashboard
\* counts as many errors as it shows.
EveryServiceAnswered ==
  Replied(SlotTools \ {"service_graph"}) =>
    /\ Len(Listed) = N
    /\ \A i \in Services : \A k \in EntryOf(i) :
         /\ Listed[k].err = got[i].err
         /\ Listed[k].latest = IF got[i].err = "" THEN svc[i].latest.tag ELSE None
    /\ \A i \in Services : IF tool = "upgrade_plan" THEN EntryOf(i) # {} ELSE EntryOf(i) = {i}
    /\ tool = "dashboard" => /\ out.healthy + out.errors = N
                            /\ out.errors = Cardinality({k \in Services : got[k].err # ""})

\* What a collecting tool should have: every release that is not older than the
\* cutoff, the newest rows, the first file that could be read.
Due(i) ==
  CASE tool \in ListTools -> {k \in DOMAIN svc[i].list : svc[i].list[k] >= Cutoff}
    [] tool = "api_timeline" -> {k \in DOMAIN svc[i].rows : k + HistoryLimit > Len(svc[i].rows)}
    [] OTHER -> {}

\* Appends of concurrent goroutines neither lose nor double anything: the reply has
\* exactly what the services that answered have to offer.
NothingLostOrDoubled ==
  /\ Replied(ListTools \cup {"api_timeline"}) =>
       /\ \A i \in Services :
            {out[k].nth : k \in EntryOf(i)} = IF got[i].err = "" THEN Due(i) ELSE {}
       /\ \A k, l \in DOMAIN out : out[k] = out[l] => k = l
  /\ Replied({"dependency_matrix"}) =>
       \A i \in Services :
         Cardinality(EntryOf(i)) = IF got[i].err = "no dependency file found" THEN 0 ELSE 1

\* The replies that are sorted are in the order that the tool promises, however the appends
\* interleaved: the matrix by name, the tool's and the command's timeline newest first, the
\* plan by urgency (tools_extended.go, "critical > high > medium > low", "Older releases
\* first within same priority").
InOrder ==
  /\ Replied({"dependency_matrix"}) => \A k, l \in DOMAIN out : k < l => out[k].name < out[l].name
  /\ Replied({"timeline"}) => \A k, l \in DOMAIN out : k < l => out[k].date >= out[l].date
  /\ Replied({"release_timeline"}) =>
       \A k, l \in DOMAIN out : k < l => Printed(out[k].date) >= Printed(out[l].date)
  /\ Replied({"upgrade_plan"}) => \A k, l \in DOMAIN out : k < l =>
       /\ out[l].priority = "critical" => out[k].priority \in {"critical", ""}
       /\ out[l].priority = "" => out[k].priority \in {"critical", ""}
       /\ out[k].priority = "low" => out[l].priority = "low"
       /\ out[l].priority = out[k].priority => out[k].date <= out[l].date

\* "Aggregate releases across all services, newest first." (api.go:128): no release in the
\* reply of /api/v1/timeline was published before one that comes after it.
TimelineNewestFirst ==
  Replied({"api_timeline"}) => \A k, l \in DOMAIN out : k < l => out[k].date >= out[l].date

\* The graph has one edge for each two services that share a dependency, none for
\* others, and on it each shared dependency once, whatever the order of the maps.
GraphExact ==
  LET dep(name) == Deps(CHOOSE i \in Services : Names[i] = name)
      shared(p) == dep(p[1]) \cap dep(p[2])
      names     == {Names[i] : i \in Services}
  IN Replied({"service_graph"}) =>
       /\ {out[k].between : k \in DOMAIN out} =
            {p \in names \X names : p[1] < p[2] /\ shared(p) # {}}
       /\ \A k \in DOMAIN out : /\ SeqExt!ToSet(out[k].deps) = shared(out[k].between)
                                 /\ Len(out[k].deps) = Cardinality(shared(out[k].between))
       /\ \A k, l \in DOMAIN out : out[k].between = out[l].between => k = l
=============================================================================
