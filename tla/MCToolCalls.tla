---------------------------- MODULE MCToolCalls -----------------------------
(* Calls of the tools for TLC.                                              *)
EXTENDS ReleaseDiff

ThreeNames == <<2, 3, 1>>

Tagged(n) == [v |-> TRUE, n |-> n]
Bare(n)   == [v |-> FALSE, n |-> n]

\* A service of which only what a tool looks at is filled in.
Plain == [repo |-> "ok", latest |-> [tag |-> Tagged(2), security |-> FALSE, date |-> 5],
          list |-> <<>>, deployed |-> None, files |-> <<None, None, None>>, rows |-> <<>>]

Status1 == Plain
Status2 == [Plain EXCEPT !.deployed = Bare(2), !.latest.date = 2]
Broken(e) == [Plain EXCEPT !.repo = e]

Latest(deployed, security, date) ==
  [Plain EXCEPT !.deployed = deployed,
                !.latest = [tag |-> Tagged(2), security |-> security, date |-> date]]

Urgencies == {Latest(Bare(2), TRUE, 2), Latest(Tagged(1), TRUE, 4), Latest(Tagged(1), FALSE, 8),
              Latest(None, FALSE, 1), Broken("malformed")}

With(list)  == [Plain EXCEPT !.list = list]
Kept(rows)  == [Plain EXCEPT !.rows = rows]
Files(a, b) == [Plain EXCEPT !.files = <<a, b, None>>]

Calls(tools, worlds) == {[tool |-> t, svc |-> w] : t \in tools, w \in worlds}
Triples(S) == [1..3 -> S]

\* Histories of services whose releases lie between one another's, and others.
TimelineCalls == Calls({"api_timeline"}, Triples({Kept(<<1, 4, 6>>), Kept(<<5>>), Kept(<<>>)}))

EveryCall ==
  Calls({"check_services", "find_outdated", "list_services", "dashboard", "check",
         "compare_release_vs_deployed"},
        {<<Status1, Status2, Broken("malformed")>>, <<Broken("unsupported"), Status1, Status2>>})
  \cup Calls({"upgrade_plan"}, Triples(Urgencies))
  \* Three services with two recent releases each have too many orders to try.
  \cup Calls({"release_timeline", "timeline"},
             Triples({With(<<6, 4, 2>>), With(<<5, 3>>), Broken("malformed")})
               \ {<<With(<<6, 4, 2>>), With(<<6, 4, 2>>), With(<<6, 4, 2>>)>>})
  \cup Calls(DiffTools, {<<Plain, Plain, Plain>>})
  \cup TimelineCalls
  \cup Calls({"dependency_matrix", "service_graph"},
             Triples({Files({1, 2}, {3}), Files(None, {1, 2, 3}), Broken("unsupported")}))
=============================================================================
