----------------------------- MODULE ConfigFile -----------------------------
(* The two files that commands of releasewave read and write: its own       *)
(* configuration (Load by every command, discover --merge, init) and the MCP*)
(* configuration of an AI client (install).  Commands are processes that    *)
(* know nothing of one another and may be killed; os.WriteFile truncates the*)
(* file and then writes it.                                                 *)
EXTENDS Discovery

CONSTANTS
  Processes,    \* slots for commands that run at the same time
  Clusters,     \* Kubernetes clusters to discover
  Configs,      \* configuration files to start from
  MCPConfigs,   \* MCP configurations to start from
  MaxCommands,  \* bound: commands started
  EnvToken      \* GITHUB_TOKEN: a token, or None

\* A file without content has no services and no token.
IsFile(c) ==
  /\ c \in [text : {"absent", "empty", "good", "broken"}, services : {c.services},
            token : {c.token}, rest : {"ok", "bad", "more"}]
  /\ IsList(c.services) /\ (c.text # "good" => c.services = <<>> /\ c.token = None)

ASSUME ConfigAssumption ==
  /\ MaxCommands \in Nat
  /\ \A c \in Clusters : IsList(AllOf(c)) /\ \A k \in DOMAIN AllOf(c) : IsWorkload(AllOf(c)[k])
  /\ \A c \in Configs \cup MCPConfigs : IsFile(c)

VARIABLES
  cluster, files, started,
  proc,     \* proc[p]: a command; seen is cfg, then the file it read last
  since,    \* since[f]: the file at the start, and after init --force
  added,    \* added[f]: what commands have reported as added to f
  damage    \* damage[f]: what has befallen the file that no command guards against

vars == <<cluster, files, proc, started, since, added, damage>>

Files    == {"config", "mcp"}
Commands == {"use", "merge", "init", "force", "install"}

\* Of a configuration: its services, the token, and whether the rest passes Validate.
\* Of an MCP configuration: the names of the servers, and whether it says "more" than
\* their commands and arguments, as the env of a server or keys beside mcpServers.
\* text is "absent", "empty", "good" or "broken".
Absent   == [text |-> "absent", services |-> <<>>, token |-> None, rest |-> "ok"]
Empty    == [Absent EXCEPT !.text = "empty"]
Written(services, token, rest) ==
  [text |-> "good", services |-> services, token |-> token, rest |-> rest]
Broken   == [Absent EXCEPT !.text = "broken"]
Example  == Written(<<>>, None, "ok")
Server(n) == Service(n, <<>>, <<>>)

Idle == [cmd |-> "use", pc |-> "off", found |-> <<>>, seen |-> Absent, out |-> Absent]

IdleInit ==
  /\ proc = [p \in Processes |-> Idle] /\ started = 0 /\ since = files
  /\ added = [f \in Files |-> {}] /\ damage = [f \in Files |-> {}]

Init ==
  /\ cluster \in Clusters
  /\ files \in {[config |-> c, mcp |-> m] : c \in Configs, m \in MCPConfigs}
  /\ IdleInit

Target(p) == IF proc[p].cmd = "install" THEN "mcp" ELSE "config"

-----------------------------------------------------------------------------
(* config.Load                                                              *)

Validate(c) ==
  /\ c.rest = "ok"
  /\ \A i \in DOMAIN c.services : c.services[i].name # None /\ Len(c.services[i].repo) >= 3
  /\ \A i, j \in DOMAIN c.services : c.services[i].name = c.services[j].name => i = j

\* An empty file is a configuration of nothing, as good as none.
Loads(c) == c.text # "broken" /\ Validate(c)

\* The environment overrides the token of a file, not that of the defaults.
Load(c) == IF c.text # "absent" /\ EnvToken # None THEN [c EXCEPT !.token = EnvToken] ELSE c

-----------------------------------------------------------------------------
(* A command.                                                               *)

Goes(p, state) == proc' = [proc EXCEPT ![p] = state] /\ UNCHANGED <<cluster, started, since>>
Ends(p) == Goes(p, Idle) /\ UNCHANGED <<files, added, damage>>
Reads(p, state) == Goes(p, state) /\ UNCHANGED <<files, added, damage>>

AfterLoad(cmd) == CASE cmd = "merge" -> "discover" [] cmd \in {"init", "force"} -> "stat"
                    [] cmd = "install" -> "read" [] OTHER -> "work"

\* PersistentPreRunE: every command loads the configuration, or ends.
Start(p, cmd) ==
  /\ proc[p].pc = "off" /\ started < MaxCommands
  /\ started' = started + 1
  /\ proc' = IF Loads(files.config)
             THEN [proc EXCEPT ![p] = [Idle EXCEPT !.cmd = cmd, !.pc = AfterLoad(cmd),
                                                   !.seen = Load(files.config)]]
             ELSE proc
  /\ UNCHANGED <<cluster, files, since, added, damage>>

\* check, serve, watch, ...: they never look at the file again.
Work(p) == proc[p].pc = "work" /\ Ends(p)

\* The cluster may be out of reach.
DiscoverServices(p) ==
  /\ proc[p].pc = "discover"
  /\ LET found == Discover(cluster) IN
     \/ Ends(p)
     \/ found # <<>> /\ Reads(p, [proc[p] EXCEPT !.pc = "read", !.found = found])

\* What is merged into c: parsed without validation.
Merging(c, found) == Written(AddAllNew(c.services, found), c.token, c.rest)

MergeFrom(p, c) ==
  /\ proc[p].pc = "read" /\ proc[p].cmd = "merge"
  /\ LET out == Merging(c, proc[p].found) IN
     IF c.text = "broken" \/ out.services = c.services THEN Ends(p)
     ELSE Reads(p, [proc[p] EXCEPT !.pc = "truncate", !.seen = files.config, !.out = out])

\* Seeded fault: the configuration of Load is taken for the file's content.
Merge_Loaded(p) == MergeFrom(p, proc[p].seen)

Merge(p) == MergeFrom(p, files.config)

StatFile(p) ==
  /\ proc[p].pc = "stat"
  /\ IF files.config.text # "absent" /\ proc[p].cmd = "init" THEN Ends(p)
     ELSE Reads(p, [proc[p] EXCEPT !.pc = "truncate", !.seen = files.config, !.out = Example])

\* A file that is no JSON is taken for an empty one.
Servers(m) == IF m.text = "good" THEN m.services ELSE <<>>

\* Parsed into a struct and written from it: what the struct has no field for is gone.
WriteMCPConfig(p) ==
  /\ proc[p].pc = "read" /\ proc[p].cmd = "install"
  /\ Reads(p, [proc[p] EXCEPT !.pc = "truncate", !.seen = files.mcp,
       !.out = Written(AddNew(Servers(files.mcp), Server("releasewave")), None, "ok")])

-----------------------------------------------------------------------------
(* os.WriteFile, in two steps.                                              *)

Harm(f, harmed, what) == damage' = IF harmed THEN [damage EXCEPT ![f] = @ \cup {what}] ELSE damage

\* Only init and install make the directory of the file.
NoDirectory(p) == /\ proc[p].pc = "truncate" /\ proc[p].cmd = "merge"
                  /\ files.config.text = "absent" /\ Ends(p)

Truncate(p) ==
  LET f == Target(p) IN
  /\ proc[p].pc = "truncate"
  /\ Goes(p, [proc[p] EXCEPT !.pc = "write"])
  /\ files' = [files EXCEPT ![f] = Empty]
  /\ Harm(f, files[f] # proc[p].seen \/ \E q \in Processes : Target(q) = f /\ proc[q].pc = "write",
          "raced")
  /\ UNCHANGED added

\* Where another process has written after the truncation, its longer text may show
\* behind the new one.
WriteFile(p) ==
  LET f == Target(p)
      out == proc[p].out
  IN /\ proc[p].pc = "write"
     /\ proc' = [proc EXCEPT ![p] = Idle]
     /\ \E c \in {out} \cup (IF files[f] = Empty THEN {} ELSE {Broken}) : files' = [files EXCEPT ![f] = c]
     /\ since' = IF proc[p].cmd = "force" THEN [since EXCEPT ![f] = out] ELSE since
     /\ added' = [added EXCEPT ![f] = IF proc[p].cmd = "force" THEN {} ELSE
                    @ \cup {out.services[i].name : i \in DOMAIN out.services}]
     /\ UNCHANGED <<cluster, started, damage>>

\* Killed: a file that was truncated stays empty.
Kill(p) ==
  /\ proc[p].pc # "off"
  /\ proc' = [proc EXCEPT ![p] = Idle]
  /\ Harm(Target(p), proc[p].pc = "write", "killed")
  /\ UNCHANGED <<cluster, files, started, since, added>>

Step(p) == \/ Work(p) \/ DiscoverServices(p) \/ Merge(p) \/ StatFile(p) \/ WriteMCPConfig(p)
           \/ NoDirectory(p) \/ Truncate(p) \/ WriteFile(p)

Next == \E p \in Processes : (\E cmd \in Commands : Start(p, cmd)) \/ Step(p) \/ Kill(p)

Spec == Init /\ [][Next]_vars

-----------------------------------------------------------------------------
NamesIn(list) == {list[i].name : i \in DOMAIN list}
Workloads == {AllOf(cluster)[k] : k \in DOMAIN AllOf(cluster)}

\* Nobody is between the truncation of f and its writing, nobody has been killed
\* there, and no two commands have written f over one another.
Undamaged(f) == damage[f] = {} /\ \A p \in Processes : Target(p) = f => proc[p].pc # "write"

\* Every service and server whose name a file held, or that a command has reported as
\* added, is in it by that name, and the configuration's token stays what it was, whatever
\* the environment says (mergeIntoConfig reads the file again and without the overrides
\* of Load; writeMCPConfig keeps the names of the other servers; init refuses).
NamesAndTokenKept ==
  \A f \in Files : Undamaged(f) =>
    /\ NamesIn(since[f].services) \cup added[f] \subseteq NamesIn(files[f].services)
    /\ f = "config" => files[f].token = since[f].token

\* "merges the releasewave entry" (install.go:91): what the client's file held besides is
\* still there when nobody has raced for the file or been killed.
InstallMerges ==
  Undamaged("mcp") =>
    /\ NamesIn(since.mcp.services) \subseteq NamesIn(files.mcp.services)
    /\ files.mcp.rest = since.mcp.rest

\* A configuration that loads goes on loading at every moment, in the middle of a write
\* and after a kill too (an empty one loads), whatever is merged into it, unless two
\* commands write it over one another or a workload carries a repo annotation of fewer
\* than three parts: that one is written as it stands, and every command then refuses
\* the file (mergeIntoConfig does not call Validate).
StillLoads ==
  "raced" \notin damage["config"] /\ Loads(since.config) =>
    \/ Loads(files.config)
    \/ \E w \in Workloads : w.repo # <<>> /\ Len(w.repo) < 3 /\ HasName(files.config.services, NameFor(w))

\* What is discovered is what runs: a service for each workload that is annotated or
\* runs an image of a known registry, under the name Validate will compare, with a
\* registry that is the image without port, tag or digest mistaken for one another,
\* and with a repo the providers can ask for (discoverFromWorkload, ParseRepo).
Tells(w) == w.repo # <<>> \/ \E k \in DOMAIN w.images :
              /\ w.images[k].host \in GitHubRegistries \cup GitLabRegistries
              /\ Len(w.images[k].path) >= 2

RightFor(svc, w) ==
  /\ svc.name = NameFor(w)
  /\ IF w.repo # <<>> THEN svc.repo = w.repo
     ELSE \E k \in DOMAIN w.images : LET i == w.images[k] IN
       /\ svc.registry = Repository(i)
       /\ Len(i.path) = 2 => [ParseRepo(svc.repo) EXCEPT !.platform = None] =
                               [err |-> FALSE, platform |-> None, owner |-> i.path[1], name |-> i.path[2]]
       /\ ParseRepo(svc.repo).platform \in {"github", "gitlab"}

DiscoveredIsRight ==
  LET found == Discover(cluster) IN
  /\ NamesIn(found) = {NameFor(w) : w \in {w \in Workloads : Tells(w)}}
  /\ \A i \in DOMAIN found : \E w \in Workloads : RightFor(found[i], w)

\* The deployed version the tools compare with is the tag of an image that runs, and
\* is found if there is one, unless a label gives it, an image is pinned by its digest,
\* or a registry's port is all that follows a colon (extractVersion).
Plain(w) == /\ w.label = None
            /\ \A k \in DOMAIN w.images : LET i == w.images[k] IN
                 i.digest = None /\ (i.port = None \/ i.tag # None)

TagsOf(w) == {<<w.images[k].tag>> : k \in DOMAIN w.images} \ {<<None>>, <<"latest">>}

DeployedIsRunning ==
  \A w \in Workloads : Plain(w) =>
    LET found == DeployedOf(cluster, w.name) IN
    \E k \in DOMAIN found :
      IF TagsOf(w) = {} THEN found[k] = <<>> ELSE found[k] \in TagsOf(w)
=============================================================================
