----------------------------- MODULE ReleaseDiff -----------------------------
(* The tools that compare two versions of one service: release_diff and the *)
(* diff command (deployed against latest, with the changelog between them)  *)
(* and changelog_between_versions.  They ask for the latest release and for *)
(* the list of releases separately; the tools of the server through a cache *)
(* that keeps the two answers under different keys, so that one may be older*)
(* than the other.  A call is one of these or one of ToolFanOut.            *)
EXTENDS ToolFanOut

CONSTANTS
  MaxReleases   \* bound: releases published

ASSUME ReleaseDiffAssumption == MaxReleases \in Nat \ {0}

VARIABLES
  released,  \* releases published so far, numbered 1, 2, ...
  prefixed,  \* whether the tags of the service begin with "v"
  cached,    \* the answers the cache may still have: of how many releases; 0: none
  running,   \* the version that is deployed
  call       \* the call of the tool

dvars == <<released, prefixed, cached, running, call>>

DiffTools == {"release_diff", "diff", "changelog_between_versions"}
Version == [v : BOOLEAN, n : 0..MaxReleases]   \* n = 0: not a release of the service
ReleaseTag(n) == [v |-> prefixed, n |-> n]

\* ListReleases: newest first.
ListOf(n) == [k \in 1..n |-> ReleaseTag(n + 1 - k)]

Empty == [latest |-> 0, list |-> 0]
NoCall == [pc |-> "done", asked |-> {}, reply |-> "none", to |-> None, from |-> None,
           list |-> 0, log |-> <<>>, since |-> 0]

Asked(tag, from) == [NoCall EXCEPT !.pc = "list", !.to = tag, !.from = from]

DInit ==
  /\ Init
  /\ IF tool \in DiffTools
     THEN /\ prefixed \in BOOLEAN
          /\ released \in 1..MaxReleases
          /\ cached \in IF tool = "diff" THEN {Empty} ELSE [{"latest", "list"} -> 0..released]
          /\ IF tool = "changelog_between_versions"
             THEN running = ReleaseTag(1) /\ \E to, from \in Version : call = Asked(to, from)
             ELSE running \in Version /\ call = [NoCall EXCEPT !.pc = "ask", !.since = released]
     ELSE /\ prefixed = TRUE /\ released = 1 /\ cached = Empty
          /\ running = ReleaseTag(1) /\ call = NoCall

-----------------------------------------------------------------------------
Publish == /\ released < MaxReleases /\ released' = released + 1
           /\ UNCHANGED <<prefixed, cached, running, call>>

Goes(c) == call' = c /\ UNCHANGED <<released, prefixed, cached, running>>
Ends(reply) == Goes([call EXCEPT !.pc = "done", !.reply = reply])

\* What a question may be answered with; the command has no cache.
Answers(key) == {released} \cup (IF tool = "diff" THEN {} ELSE {cached[key]} \ {0})

\* The tool gives up at once, the command when both questions are answered.
AskLatest ==
  /\ call.pc = "ask" /\ "latest" \notin call.asked
  /\ \/ \E n \in Answers("latest") :
          Goes([call EXCEPT !.asked = @ \cup {"latest"}, !.to = ReleaseTag(n)])
     \/ tool = "release_diff" /\ Ends("error")
     \/ tool = "diff" /\ Goes([call EXCEPT !.asked = @ \cup {"latest"}])

\* The cluster may be out of reach, or not run the service.
AskCluster ==
  /\ call.pc = "ask" /\ "cluster" \notin call.asked
  /\ tool = "diff" \/ "latest" \in call.asked
  /\ \/ Goes([call EXCEPT !.asked = @ \cup {"cluster"}, !.from = running])
     \/ Goes([call EXCEPT !.asked = @ \cup {"cluster"}])

\* Seeded fault: a version that is not known counts as up to date.
IsCurrent_OrUnknown(from, to) == from \in {None, to}

IsCurrent(from, to) == from = to

Compare ==
  /\ call.pc = "ask" /\ call.asked = {"latest", "cluster"}
  /\ \/ call.to = None /\ Ends("error")
     \/ call.to # None /\ IsCurrent(call.from, call.to) /\ Ends("up to date")
     \/ /\ call.to # None /\ ~IsCurrent(call.from, call.to)
        /\ IF call.from = None THEN Ends("unknown") ELSE Goes([call EXCEPT !.pc = "list"])

\* The release that ends a changelog: the deployed one, with or without its "v";
\* changelog_between_versions takes "from" as it is.
Stops(tag) == IF tool = "changelog_between_versions" THEN tag = call.from
              ELSE UpToDate(call.from, tag)

\* Seeded fault: the loop ends before the last release is taken.
Between_Exclusive(list, to) ==
  LET first == SeqExt!SelectInSeq(list, LAMBDA t : t = to)
      stop  == SeqExt!SelectInSeq(list, Stops)
  IN CASE first = 0 \/ stop \in 1..(first - 1) -> <<>>
       [] OTHER -> SubSeq(list, first, IF stop = 0 THEN Len(list) ELSE stop - 1)

\* From the release "to" on, down to the one that stops, or to the end.
Between(list, to) ==
  LET first == SeqExt!SelectInSeq(list, LAMBDA t : t = to)
      stop  == SeqExt!SelectInSeq(list, Stops)
  IN CASE first = 0 \/ stop \in 1..(first - 1) -> <<>>
       [] OTHER -> SubSeq(list, first, IF stop = 0 THEN Len(list) ELSE stop)

Listing(n) == [call EXCEPT !.pc = "done", !.reply = "changelog", !.list = n,
                           !.log = Between(ListOf(n), call.to)]

DiffChangelog ==
  /\ call.pc = "list" /\ tool \in {"release_diff", "diff"}
  /\ Ends("no changelog") \/ \E n \in Answers("list") : Goes(Listing(n))

ChangelogBetweenVersions ==
  /\ call.pc = "list" /\ tool = "changelog_between_versions"
  /\ Ends("error") \/ \E n \in Answers("list") : Goes(Listing(n))

DNext == AskLatest \/ AskCluster \/ Compare \/ DiffChangelog \/ ChangelogBetweenVersions

CallNext == \/ Next /\ UNCHANGED dvars
            \/ (Publish \/ DNext) /\ tool \in DiffTools /\ UNCHANGED vars

CallSpec == DInit /\ [][CallNext]_<<vars, dvars>>

\* Every request ends: the clients have timeouts.
FairCallSpec ==
  /\ CallSpec /\ WF_<<vars, dvars>>(DNext /\ UNCHANGED vars)
  /\ WF_<<vars, dvars>>(Handler /\ UNCHANGED dvars)
  /\ \A i \in Services : WF_<<vars, dvars>>(Goroutine(i) /\ UNCHANGED dvars)

-----------------------------------------------------------------------------
\* When the list has the newer of the two versions, the changelog is the whole way down
\* from it to the other, both included, newest first; if the list does not know the other
\* one, it is all that is older than the newer.
ChangelogSpansTheGap ==
  LET known == call.from.n > 0 /\ Stops(ReleaseTag(call.from.n))
      last  == IF known THEN call.from.n ELSE 1
  IN /\ call.reply = "changelog"
     /\ call.to.n \in 1..call.list /\ call.to = ReleaseTag(call.to.n)
     /\ call.from.n <= call.to.n
     => call.log = [k \in 1..(call.to.n + 1 - last) |-> ReleaseTag(call.to.n + 1 - k)]

\* "up to date" is said only of the version that runs, and by the command only if that
\* release was the newest at some time during the call.
UpToDateIsTrue ==
  call.reply = "up to date" =>
    /\ running = call.to
    /\ tool = "diff" => running.n \in call.since..released

\* Every call is answered, although requests fail.
CallReturns == <>(phase = "replied" \/ call.reply # "none")
=============================================================================
