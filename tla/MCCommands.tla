----------------------------- MODULE MCCommands -----------------------------
(* Small instances of the commands for TLC: a behaviour is one of commands  *)
(* that share files, or of a watch command.                                 *)
EXTENDS ConfigFile, WatchCommand

CONSTANTS c1, c2, secret, s1, s2, v1, v2, github, gitlab

TwoServices  == {s1, s2}
TwoTags      == {v1, v2}
TwoPlatforms == {github, gitlab}

TwoProcesses == {c1, c2}

Workload(name, alias, repo, images, label) ==
  [name |-> name, alias |-> alias, repo |-> repo, images |-> images, label |-> label]
Cluster(d, s) == [deployments |-> d, statefulsets |-> s]

\* An image with a port and a tag, one with a port alone, one pinned by its digest,
\* one of a subgroup, and one that tells nothing.
Ported  == Image("ghcr.io", "443", <<"org", "api">>, "v1", None)
Untagged == Image("ghcr.io", "443", <<"org", "api">>, None, None)
Pinned  == Image("docker.io", None, <<"org", "web">>, "v2", "d41")
Grouped == Image("registry.gitlab.com", None, <<"org", "team", "job">>, "latest", None)
Plainly == Image("gitlab.internal", "5050", <<"org", "job">>, "v3", None)
Sidecar == Image("quay.io", None, <<"org", "proxy">>, "v9", None)

SomeClusters ==
  {Cluster(<<Workload("api", None, <<>>, <<Sidecar, Ported>>, None),
             Workload("web", "api", <<>>, <<Pinned>>, None)>>,
           <<Workload("job", None, <<>>, <<Plainly, Grouped>>, None)>>),
   Cluster(<<Workload("api", "old", <<"github.com", "org", "api">>, <<Untagged>>, "v7")>>,
           <<Workload("job", None, <<>>, <<Grouped>>, None)>>),
   Cluster(<<Workload("api", None, <<"org", "api">>, <<Ported>>, None)>>, <<>>),
   Cluster(<<>>, <<Workload("proxy", None, <<>>, <<Sidecar, Untagged>>, None)>>)}

Old == Service("old", <<"github.com", "org", "old">>, <<>>)
SomeConfigs == {Absent, Broken, Example, Written(<<Old>>, None, "ok"),
                Written(<<>>, "file", "ok"),
                Written(<<Old>>, None, "bad"), Written(<<Old, Old>>, None, "ok")}
FullMCP     == Written(<<Server("other")>>, None, "more")
SomeMCP     == {Absent, Broken, FullMCP}

\* One client's file and nothing else.
OneProcess  == {c1}
NoClusters  == {Cluster(<<>>, <<>>)}
NoConfig    == {Absent}
OnlyFullMCP == {FullMCP}

VARIABLE running    \* "files" or "watch"

\* The other cases differ in names alone: tags of two services are never compared.
FromOneTag == upstream = [s \in Services |-> v1] /\ platform[s1] = github
OneWatch   == platform[s2] = github /\ once = FALSE
OneFile  == cluster = Cluster(<<>>, <<>>) /\ files = [config |-> Absent, mcp |-> Absent]

CommandsInit ==
  /\ WatchInit /\ FromOneTag /\ running \in {"files", "watch"}
  /\ IF running = "files" THEN Init /\ OneWatch ELSE OneFile /\ IdleInit

CommandsNext == \/ running = "files" /\ Next /\ UNCHANGED <<watchVars, running>>
                \/ running = "watch" /\ WatchNext /\ UNCHANGED <<vars, running>>

CommandsSpec ==
  CommandsInit /\ [][CommandsNext]_<<vars, watchVars, running>> /\ WatchFairness
=============================================================================
