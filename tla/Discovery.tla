------------------------------ MODULE Discovery ------------------------------
(* What `releasewave discover` makes of a cluster (internal/discovery), what*)
(* the tools take for the deployed version (internal/k8s), and how a repo   *)
(* string is read (internal/config).  An image reference is the sequence of *)
(* its names and separators, a repo string the sequence of its parts.       *)
EXTENDS Naturals, Sequences, FiniteSets
Seqs == INSTANCE SequencesExt

CONSTANT None     \* no annotation, no label

IsList(s) == s \in Seq(Seqs!ToSet(s))

\* An image is ghcr.io:443/org/app:v1@sha256:d, say; port, tag and digest may be None.
Image(host, port, path, tag, digest) ==
  [host |-> host, port |-> port, path |-> path, tag |-> tag, digest |-> digest]

Opt(x, s) == IF x = None THEN <<>> ELSE s
Repository(i) == <<i.host>> \o Opt(i.port, <<":", i.port>>)
                   \o Seqs!FlattenSeq([k \in DOMAIN i.path |-> <<"/", i.path[k]>>])
Text(i) == Repository(i) \o Opt(i.tag, <<":", i.tag>>)
             \o Opt(i.digest, <<"@", "sha256", ":", i.digest>>)

\* No name is a separator, and a registry alone is no image.
IsImage(i) ==
  /\ i = Image(i.host, i.port, i.path, i.tag, i.digest) /\ IsList(i.path)
  /\ i.path = <<>> => i.port = None
  /\ ({i.host, i.port, i.tag} \cup Seqs!ToSet(i.path)) \cap {"/", ":", "@"} = {}

\* A workload has a name; alias and repo are annotations.
IsWorkload(w) == /\ w.name # None /\ IsList(w.repo)
                 /\ IsList(w.images) /\ \A k \in DOMAIN w.images : IsImage(w.images[k])

\* strings.Index and LastIndex: 0 for none.
Places(s, x)    == {k \in DOMAIN s : s[k] = x}
Index(s, x)     == LET at == Places(s, x) IN IF at = {} THEN 0 ELSE Seqs!Min(at)
LastIndex(s, x) == LET at == Places(s, x) IN IF at = {} THEN 0 ELSE Seqs!Max(at)

\* strings.Split(s, "/"): a part ends at a slash, or with s, and the k-th has k - 1 slashes
\* before it.
Split(s) ==
  LET slashes == Places(s, "/")
      cut(k) == IF k = 0 THEN 0
                ELSE CHOOSE p \in slashes \cup {Len(s) + 1} : Cardinality({q \in slashes : q < p}) = k - 1
  IN [k \in 1..(Cardinality(slashes) + 1) |-> SubSeq(s, cut(k - 1) + 1, cut(k) - 1)]

-----------------------------------------------------------------------------
(* internal/discovery                                                       *)

WithoutDigest(s) == IF Index(s, "@") = 0 THEN s ELSE SubSeq(s, 1, Index(s, "@") - 1)

\* Seeded fault: whatever follows the last colon is taken for the tag.
ImageWithoutTag_AnyColon(s) ==
  LET name == WithoutDigest(s)
      colon == LastIndex(name, ":")
  IN IF colon = 0 THEN name ELSE SubSeq(name, 1, colon - 1)

\* A colon with a slash after it belongs to a port.
ImageWithoutTag(s) ==
  LET name  == WithoutDigest(s)
      colon == LastIndex(name, ":")
  IN IF colon = 0 \/ Index(SubSeq(name, colon + 1, Len(name)), "/") # 0
     THEN name ELSE SubSeq(name, 1, colon - 1)

\* By strings.Contains: a registry of one's own is taken for gitlab.com's.
GitHubRegistries == {"ghcr.io", "docker.io"}
GitLabRegistries == {"registry.gitlab.com", "gitlab.internal"}

\* The repo, or <<>>: fewer than three parts, or an unknown registry.
InferRepoFromImage(s) ==
  LET parts == Split(ImageWithoutTag(s)) IN
  IF Len(parts) < 3 THEN <<>> ELSE
  CASE parts[1][1] \in GitHubRegistries -> <<"github.com", parts[2][1], parts[3][1]>>
    [] parts[1][1] \in GitLabRegistries -> <<"gitlab.com", parts[2][1], parts[3][1]>>
    [] OTHER -> <<>>

Service(name, repo, registry) == [name |-> name, repo |-> repo, registry |-> registry]

\* The annotated repo as it stands, or one service for each image that tells its repo.
NameFor(w) == IF w.alias # None THEN w.alias ELSE w.name
Inferred(w, image) ==
  LET repo == InferRepoFromImage(Text(image)) IN
  IF repo = <<>> THEN <<>> ELSE <<Service(NameFor(w), repo, ImageWithoutTag(Text(image)))>>
DiscoverFromWorkload(w) ==
  IF w.repo # <<>> THEN <<Service(NameFor(w), w.repo, <<>>)>>
  ELSE Seqs!FlattenSeq([k \in DOMAIN w.images |-> Inferred(w, w.images[k])])

HasName(list, n) == \E i \in DOMAIN list : list[i].name = n

\* Seeded fault: no set of seen names.
AddNew_Always(list, svc) == Append(list, svc)

\* if !seen[svc.Name] { append; seen[svc.Name] = true }
AddNew(list, svc) == IF HasName(list, svc.name) THEN list ELSE Append(list, svc)

AddAllNew(list, found) ==
  LET upTo[n \in 0..Len(found)] == IF n = 0 THEN list ELSE AddNew(upTo[n - 1], found[n])
  IN upTo[Len(found)]

\* Deployments before statefulsets; the first of a name counts.
AllOf(cluster) == cluster.deployments \o cluster.statefulsets
Discover(cluster) ==
  LET all == AllOf(cluster)
  IN AddAllNew(<<>>, Seqs!FlattenSeq([k \in DOMAIN all |-> DiscoverFromWorkload(all[k])]))

-----------------------------------------------------------------------------
(* internal/k8s                                                             *)

\* Seeded fault: what follows the first colon.
Colon_First(s) == Index(s, ":")

Colon(s) == LastIndex(s, ":")

\* The label, or what follows the last colon of the first image that has one.
AfterColon(s) == IF Colon(s) = 0 THEN <<>> ELSE SubSeq(s, Colon(s) + 1, Len(s))
ExtractVersion(w) ==
  LET tag(k) == AfterColon(Text(w.images[k]))
      tagged == {k \in DOMAIN w.images : tag(k) \notin {<<>>, <<"latest">>}}
  IN IF w.label # None THEN <<w.label>>
     ELSE IF tagged = {} THEN <<>> ELSE tag(Seqs!Min(tagged))

\* ListAll; a tool looks its service up by the name of the workload and finds the
\* first of that name (release_diff), or the last (the map of upgrade_plan).
DeployedOf(cluster, n) ==
  LET all == AllOf(cluster) IN
  Seqs!FlattenSeq([k \in DOMAIN all |->
    IF all[k].name = n THEN <<ExtractVersion(all[k])>> ELSE <<>>])

-----------------------------------------------------------------------------
(* internal/config                                                          *)

\* ParseRepo: any host that is neither GitHub nor GitLab is its own platform.
ParseRepo(repo) ==
  IF Len(repo) < 3 THEN [err |-> TRUE, platform |-> None, owner |-> None, name |-> None]
  ELSE [err |-> FALSE, owner |-> repo[2], name |-> repo[3],
        platform |-> CASE repo[1] = "github.com" -> "github"
                       [] repo[1] = "gitlab.com" -> "gitlab"
                       [] OTHER -> repo[1]]
=============================================================================
