# TLA+ specifications of releasewave

releasewave watches the releases of the services a team depends on. It polls
GitHub and GitLab, remembers what it saw in a SQLite file, announces changes on
webhooks, and offers the same data to people (dashboard), programs (REST API)
and assistants (MCP tools). This directory holds TLA+ models of the parts of it
whose correctness depends on interleavings, failures and order, the TLC
configurations that check them on small instances, and proofs that hold for
every instance.

## 1. The system

| Part | Source | State | Operations |
|---|---|---|---|
| Background daemon | `internal/daemon`, `cmd/releasewave/daemon.go` | `known` (last tag per service, in memory), `stopCh`, `stopped`, the ticker, the context | `New`, `Start`, `RunOnce`, `Stop`, `poll`, `checkService` |
| Store | `internal/store` | SQLite tables `releases`, `kv_store`, `tool_calls` | `RecordRelease`, `GetHistory`, `GetKV`, `SetKV`, `LogToolCall` |
| Notification channels | `internal/notify` | none (the reader's inbox is outside) | `Notify` of webhook, Slack, Discord; `MultiNotifier` |
| Shared service list | `cfg.Services` in `internal/api`, `internal/web`, `internal/mcpserver` | one slice, two mutexes | add, delete, list, dashboard pages, tools |
| MCP tools | `internal/mcpserver` | `lastKnownVersions` under `mu` | twenty tools, most of them read-only fan-outs over the services |
| Cache | `internal/cache`, `internal/provider/cached.go` | entries with an expiry | `Get`, `Set`, `Delete`, `Clear`; cached provider calls |
| Tenants | `internal/tenant`, `cmd/releasewave/tenant.go` | SQLite tables `tenants`, `tenant_services`, `api_keys` | create, delete, services, keys |
| Server lifecycle | `cmd/releasewave/serve.go`, `internal/mcpserver/server.go` | HTTP server, SSE server, store | `StartWithHandlers`, `Shutdown` on a signal |
| Configuration and discovery | `internal/config`, `internal/discovery`, `internal/k8s`, `cmd/releasewave/{init_cmd,discover,install}.go` | the YAML file, the MCP file of an AI client | `Load`, `Validate`, `ParseRepo`, `init`, `discover --merge`, `install` |
| Command line watch | `cmd/releasewave/watch.go` | `known`, `first`, under `mu`; the ticker and the signal | `check`, the loop |
| Providers and other clients | `internal/provider`, `registry`, `security`, `k8s`, `discovery` | a token bucket per platform | HTTP reads through `ratelimit.Wait` |
| GitHub App | `internal/githubapp` | none | one comment per pull request event |
| Middleware, metrics, one-shot commands | `internal/middleware`, `internal/metrics`, `cmd/releasewave` | counters | wrappers and printing |

How they interact. The daemon calls a provider, writes the store and calls the
notifier, one goroutine per service; the store outlives the process, memory does
not. The `serve` command runs the MCP tools, the REST API and the dashboard in
one process, all over the same `*config.Config`, the same cached providers and
the same store. Every HTTP request is a goroutine, and most handlers start one
more per service. The `tenant` commands are processes of their own over the same
SQLite file. `init`, `discover --merge` and `install` are short processes too, which read a
file and write it back with no lock between them. `watch` polls on its own, through the
providers' token buckets, and writes to the terminal only.

What is hard about it:

* the goroutines of a poll against each other, against `Stop`, and against the
  death of the process between the swap of `known`, `SetKV`, `RecordRelease` and
  each channel of the fan-out;
* an error at each of these steps, since every one is logged and passed over;
* two mutexes over one slice, and readers under neither;
* state shared by overlapping tool calls and overlapping cache misses, whose
  answers arrive out of order;
* shutdown: `ListenAndServe` returns before `Shutdown` is done, and a signal may come
  while the server is still being put together;
* files that are truncated and then written, by commands that may overlap or be killed;
* a token bucket that all goroutines of a check share, where a wait that would outlast
  the check is refused at once.

`PROJECT.json` lists these hazards at their lines, with the properties that
cover them.

## 2. Modules

| Module | What it is |
|---|---|
| `ReleaseAnnouncements` | Abstract specification: what the reader of one notification channel is promised |
| `Daemon` | The daemon, the store and the fan-out, step by step |
| `DaemonProperties` | The daemon's properties, its inductive invariant, the refinement mappings |
| `AnnouncementsProofs`, `DaemonProofs` | Proofs about the two, and that the second implements the first |
| `SharedConfig` | `cfg.Services` under the requests of the `serve` command |
| `CachedProvider` | The TTL cache and the provider calls that go through it |
| `WatchTool` | The tool `watch_releases`, composed with `CachedProvider`; its calls, one after the other, implement `ReleaseAnnouncements` too |
| `WatchToolProofs` | Proofs about the provider and the tool |
| `ToolFanOut` | One call of a tool, handler or command that asks every configured service |
| `ReleaseDiff` | The comparisons of two versions of one service (`release_diff`, `diff`, `changelog_between_versions`); extends `ToolFanOut`, so that one specification has every kind of call |
| `ToolFanOutProofs` | Proofs about both |
| `Tenancy`, `TenancyProofs` | Tenants and API keys under concurrent commands, and proofs |
| `SharedConfigProofs` | Proofs about the list where one mutex guards it |
| `ServerLifecycle`, `ServerLifecycleProofs` | `serve` over SSE from its start to `os.Exit`: main goroutine, signal, `Shutdown`, requests; and proofs |
| `Discovery` | Discovery, image references, deployed versions and `ParseRepo`, as operators |
| `ConfigFile` | The configuration and the MCP file under the commands that rewrite them; extends `Discovery` |
| `WatchCommand` | The command `watch` with its goroutines and the token buckets, which implements `ReleaseAnnouncements` |
| `CommandsProofs` | Proofs about the commands: those over the two files, and `watch` |
| `MCDaemon`, `MCSharedConfig`, `MCWatchTool`, `MCOverlaps`, `MCToolCalls`, `MCServerLifecycle`, `MCCommands` | Instances for TLC; one `.cfg` per run |

Some operators come in a second form, `SetKV_NewOnly` beside `SetKV`, that no
specification uses. Each is the operator with a seeded fault, a mistake one could
make in that code; substituting it shows that a property notices the mistake.

### Daemon

One process runs at a time (`launches`, `pc`, `mode`); it may be killed at any
point (`Crash`) and started again over the same store (`Launch`).

| Code | Model |
|---|---|
| `d.known` | `known`; `None` stands for an absent key (`seen` false) |
| a goroutine of `poll` inside `checkService` | `job[s]`: its program counter, `old`, the fetched tag, the channel it is at |
| `wg.Wait()` | `PollDone`, enabled when every job is `"none"` |
| the `select` of `Start` | `pc = "idle"`, with `Tick` and `SelectStop` both possible |
| `close(d.stopCh)`, `<-d.stopped` | `Stop(c)` sets `stopReq`; `StopReturn(c)` needs `pc = "exited"` |
| `kv_store["version:..."]`, table `releases` | `kv`, `releases[s]` (a set: `INSERT OR IGNORE` under `UNIQUE(service, tag)`) |
| what channel `k` has received | `posts[s][k]`, a history variable |
| GitHub, GitLab | `upstream`, changed by `Publish`; an older tag may come back when a release is withdrawn |

`checkService` is six steps: fetch, swap under `d.mu`, `SetKV`, `RecordRelease`,
then one `Notify` per channel. A failing fetch ends the job; failing writes and
channels are passed over. Parsing the repo and finding a provider are the constant
`Supported`. In loop mode the command's signal goroutine calls `Stop` and cancels
the context only after it returned; `Cancel` also covers a caller of `Start` that
cancels at any time, and the 60 s deadline of the once mode. `Stop` before `Start`
or in once mode would wait for ever, but no caller does it and `Stop`'s guard
leaves it out. Time is not modelled: a tick may come at any moment in `"idle"`.

### SharedConfig

`doors` are the handlers in use in a behaviour; the constant `Worlds` lists the
combinations a run studies. A request is a goroutine with a program counter. Each read
and each write of the slice header is a step, and the steps of one critical section
are kept together by the guards `CanLock(d)` and `CanRLock(d)` of the mutex of the
request's door (`api` or `web`; tools, door `mcp`, have none). `ack` is the answer the
last step gave. A reader that finds more entries than it made room for sets
`panicked`.

The unlocked accesses are data races. The model reads the slice header in one
piece; a torn read could give a reader a length and an array that do not belong
together, which adds to the ways a reader can fail but not to what any run below
claims to hold.

### CachedProvider

`entries` is the map of the cache. `Cache.Get` is three steps, since its lock
covers only the first: `Lookup` copies the entry, `Judge` compares the copy's
expiry with the clock and either returns the copy or goes on to `Evict`, which
deletes whatever the key holds by then. A miss asks the inner provider (`Fetch`,
or `FetchError`, which stores nothing) and stores the answer (`SetEntry`, which
reads the clock again). Nothing joins calls that miss together. The four cached
methods differ in key and type only; a key stands for one of them with its
owner and repository.

The n-th value the upstream has for a key is the number n, and `pubs[k][n]` the
time at which it became current, so a value's age can be told. `call[c].at` is when
the fetched value left the upstream. `MaxLag` bounds the time from there to
`Set`; in the program that is the timeout of the HTTP clients (15 s, `github.go:45`,
`gitlab.go:38`) and the scheduling of a goroutine.

### WatchTool

Each call of `handleWatchReleases` runs one goroutine per service: `Ask` and
`Receive` are its passage through the cached provider, `Swap` the critical section
of `s.mu` over `s.lastKnownVersions` (`last`), `Post` the notifier; `Report` is the
return of `wg.Wait`. Callers of the provider are these goroutines and `Others`, the
goroutines of other tools over the same cache. `changes`, `posted` and `taken` are history
variables: the changes that `last` went through, those that were handed to the
notifier, and those of them that the channel took. Without a channel (`Notifying` is FALSE)
nobody is told, so the promise of `WatchAnnounces` may miss releases then too. A service's latest release is one key of the cache, so services and keys
are the same set; the service list is not changed meanwhile, which
`SharedConfig` is about. `alone` says whether the clients of a behaviour wait for one
call before they make the next.

### ToolFanOut

A behaviour is one call; `tool` says which, and the constant `Cases` what the world
holds for each service. The list of services does not change during it, which is
`SharedConfig`'s subject.

| Code | Model |
|---|---|
| `for i, svc := range ...; go func(idx, svc)` | a program counter `pc[i]` and a count `file[i]` for each service |
| `ParseRepo`, `getProvider` and their errors | `Reject` |
| `GetLatestRelease`, `ListReleases` | `Request`, which may fail |
| the loop over `depFiles` with its `continue` | `TryFile`, one file at a step |
| `results[idx] = ...` | `Slot`; one action for each tool, with the entry that tool makes |
| `mu.Lock(); append; mu.Unlock()` | `AppendAll`, one release at a step in the timelines |
| `wg.Wait()` | `Collected` |
| `sort.Slice`, `sort.Strings` | `Sortings`: any order the comparison allows, since the sort is not stable |
| the maps `depToServices`, `shared`, `edgeMap` | `Users`, `SharedDeps`, `edges`; `PairUp` takes one dependency, in any order, as `range` over a map does |
| `getTimeline` of the API | `GetTimeline`, one service after the other, without goroutines |

Names and times are numbers. `Printed` rounds a time to the unit in which it is
printed, since two of the sorts compare what is printed. A tag is a number and
whether it begins with "v".

### ReleaseDiff

`call` is the call's local state. The tools of the server ask a cached provider whose
answers to "latest" and "list" are under different keys, so each question may be
answered as of another time (`Answers`, `cached`); the `diff` command has no cache and
asks its two first questions concurrently. `Publish` is the world. `Between` is the loop
over the releases, and `Stops` the comparison that ends it: with or without the "v" for
a deployed version, literally for `changelog_between_versions`.

### Tenancy

Each command is a process with one connection, on which `NewStore` and
`NewKeyStore` have switched foreign keys on, so the tables are shared and the
statements atomic. `tenant create` is `CreateTenant`, `Generate`, `Show`, and may
give up in between; `tenant delete` is `Delete`, with the cascade. A hash stands for
the random key it was made from, and random keys do not repeat. `printed` is a history variable: the keys users hold. `Opens` is `KeyStore.Validate`.

### ServerLifecycle

| Code | Model |
|---|---|
| `RunE`, `StartWithHandlers`, `main` | `main`: `BuildSSE` and `BuildHTTP` set `s.sse` and `s.httpServer`; `Listen`; `ServeEnds` when the listener is closed under it; `RunEReturns` (whose deferred `stop()` ends the context too); `Exit` |
| `go func() { <-ctx.Done(); ... srv.Shutdown }` | `stopper`: `Wake`, `HTTPShutdown`, `Drained` or `DrainTimesOut` (`late`), `SSEShutdown`, `CloseStore` |
| `APIKeyAuth` | `Presented`, `Admitted`, in `Accept` |
| handlers | `Page`, `Stream` (open until the client leaves), `GetServiceReleases`, `TimelineRow` (one read of the store at a step), `Message` with the tool in a goroutine of its own, `ReleaseHistory` |

The steps of `main` and `stopper` interleave freely, as they do in the program: nothing
makes the main goroutine wait for the other. `TooEarly` names the states in which a
signal came before `s.httpServer` was set. The stdio transport reads one pipe until it
ends and is left out.

### Discovery and ConfigFile

A text with separators (an image reference) is a sequence of its parts and its
separators, so that a colon that belongs to a port, a tag or a digest can be mistaken
for another, as in the code. `DiscoverFromWorkload`, `InferRepoFromImage`,
`ImageWithoutTag`, `ExtractVersion` and `ParseRepo` are the functions of those names;
`Split` is `strings.Split`, defined by the number of slashes before a part.

A command is a process: `Start` is `config.Load`, which each of them runs first (`Load`,
`Validate`); then `DiscoverServices` and `Merge`, or `StatFile`, or `WriteMCPConfig`, each
of which reads its file; then `Truncate` and `WriteFile`, the two halves of
`os.WriteFile`. `Kill` ends it anywhere. `added` and `damage` are history variables: what
a command has reported as added, and which files were killed in half or raced for. Of an MCP
file the model has the servers' names, and `rest`, which is "more" if it says more than their
commands and arguments.

### WatchCommand

| Code | Model |
|---|---|
| `check` and `wg.Wait` | `Check` starts a goroutine for each service, `CheckDone` waits for all |
| `rate.Limiter` | `tokens[p]`, below zero when tokens are promised; `Wait` is refused where the wait would outlast the context, and takes nothing then |
| `doRequest` | `Send`, then `Reply` or `Fail` |
| the comparison under `mu` | `Swap` and `PrintNew`; `mu` is held from the one to the other |
| `select` | `SelectTick`, `SelectStop`; ticker and signal are buffered by one |

Time counts in ticks in which a bucket gains `Rate` tokens. `sent[p]` is the history of
requests over the last `Window` ticks.

## 3. Runs

| Run | Question | Bounds |
|---|---|---|
| `DaemonCrash` | Do store, history and announcements stay right when processes are killed, cancelled, stopped and cannot read their baselines? | 2 services, 2 tags, 1 channel, 2 publications, 3 processes |
| `DaemonRestart` | Does a failing channel, or a clean restart, cost the reader of another channel anything? | 2 services, 2 tags, 3 channels with the middle one failing, 2 processes |
| `DaemonLiveness` | Does `Stop` return, is what is owed settled, does the daemon converge on the upstream, and is every change announced once within a process although writes of the store fail? | 1 service, 2 channels with the first failing, 2 stoppers, every fault, 2 processes |
| `Overlaps`, the list | Is the API alone correct under three concurrent requests? Is the dashboard alone, with the tools reading? | 3 requests, 3 names, 1 configured |
| `Overlaps`, calls | Do calls of `watch_releases` that overlap post each change once, is what the cache answers fresh, and do calls that follow one another keep the promise of `ReleaseAnnouncements`? | 2 calls at a time, 3 in all, 1 other tool, 1 service, 2 releases, clock to 3 with TTL 1 and lag 1 |
| `Overlaps`, tenants | Do keys and tenants stay together under concurrent commands? | 2 processes, 2 names, 4 tenants ever |
| `SharedConfigServe` | Are the handlers together, as `serve` mounts them, thread-safe? No | 2 requests |
| `WatchStaleCache` | Is what is announced as new always newer? No | 1 call at a time, clock to 2 |
| `ToolCalls` | Is every reply complete, exact and, where it is sorted, in order, whatever fails and however the goroutines interleave, and does every call return? | 3 services whose names are not in alphabetical order, up to 3 releases, 2 rows asked of the store, 3 dependencies |
| `TimelineOrder` | Is `/api/v1/timeline` newest first? No | the same services, each with three rows, one or none |
| `ServerLifecycle` | Is the store open under every history that is read, and does a signal end the process? | 3 requests, 2 services, a key is configured |
| `ServerShutdown` | Does the process end with its requests answered, or at least with its store closed? No | the same with 2 requests |
| `Commands` | Do commands that share files lose a name or the token, is what they discover right; does `watch` print each change once, within the rate, and stop when told? | 2 processes, 3 commands, 4 clusters, 7 configurations, 3 MCP files; or 2 services, 2 tags, 2 platforms, bucket of 1 with 1 a tick, a deadline of 1 tick, 2 publications |
| `InstallMerge` | Does `install` keep what a client's file held? No | 1 process, 1 command, 1 file |

Why the bounds are enough. Services are independent in the code but for the barrier
and the shared mutex, so two show every interference. Two tags make a change, its
reversal and the ABA case (the tag that returns). Three processes give a crash, a
restart that crashes again and a clean one after it. Three channels have one before
and one after the failing one. Three requests give two writers and a reader. Deadlock
checking is off where the system may stop for good: a process that has ended with
`MaxLaunches` used up, a process brought down by a panic or at its end, or a bound on
calls, commands and time that is used up.

A behaviour of `Overlaps` is one of the service list, of `watch_releases` or of the tenant
commands, which share nothing. Two goroutines are enough for a swap between another's fetch and
its swap, and for a `Get` whose entry is replaced between its copy and its eviction;
with the other tool's slow fetch two releases are enough for a change, its reversal
and the change again. The clock runs past
TTL plus lag, so that an answer that is too old could be given. Four
tenants under two names let a name be taken, freed and taken again while a command
still holds the first id. In `ToolCalls` three services give three goroutines, a sort
that has to move more than neighbours, and a dependency shared by all three besides
those shared by two; the releases lie before, at and after the cutoff; one service has
more rows than are asked for, one fewer, one none. `Grain` 2 puts two times into one
printed unit; the one call whose three lists have two recent releases each is left out, since
its replies have too many orders. Three releases let the latest be newer than the list by one and by two,
and let one lie between the two versions compared.

In `ServerLifecycle` three requests are a stream, a message whose tool replies over it, and
a history read beside them; two services give a timeline that is cut between two reads.
A behaviour of `Commands` is one of the file commands or one of `watch`, which share
nothing. Two processes overlap in every way two writers and a reader can, and the third
command comes after both; the clusters have images with port and tag, with a port alone,
pinned, in a subgroup, and side by side with one that tells nothing, and workloads of one
name; the configurations are absent, broken, empty, with a service, a token, an error,
and a name twice. With one token a tick and a context of one tick, two services on one
platform are just more than a check can serve only when the check before took its tokens;
the other choice of platforms shows that a bucket does not starve the other. The first
service's platform and the first tags are fixed: the cases left out are renamings.

### What they show

The daemon keeps its promises: for a store whose baseline writes succeed it implements
`ReleaseAnnouncements` across any number of crashes and restarts
(`DurableAnnouncements`); when its writes fail, it does so within one process
(`InMemoryAnnouncements`). Two limits are part of the promise and visible in the
abstract specification: a change may be *lost* (`Miss`) when the process dies after
`SetKV` and before the channel was told, when the context ends, or when the channel
fails, because a notification is never retried; and a change may pass silently
(`Overlook`) when the baseline could not be read. None is ever told twice.

`watch_releases` never reports a change twice and never swallows one between two
calls (`EachChangePostedOnce`), calls that follow one another tell the channel a
chain of changes (`WatchAnnounces`), and the cache answers with nothing that was
replaced more than a TTL and one fetch ago (`AnswersFresh`). A printed key opens the
tenant it was printed for, only that one, exactly while it exists
(`PrintedKeysOpenTheirTenant`).

The fan-outs answer for every service what that service's goroutine learnt
(`EveryServiceAnswered`), lose and double nothing of what is collected
(`NothingLostOrDoubled`), and where they sort it, sort it as they promise (`InOrder`;
`/api/v1/timeline` does not sort, see below); the graph of shared dependencies does not
depend on the order of Go's maps (`GraphExact`). A changelog is the whole way from the
newer version down to the older one, both included, provided that the list has the newer
one (`ChangelogSpansTheGap`), which it need not (see below).

A history is read from an open store as long as `Shutdown` keeps its deadline
(`StoreOutlivesRequests`), since the store is closed last and only after the connections
are idle; and a signal ends a serving process whatever streams are open
(`SignalEndsProcess`). Both exempt a signal that comes before `s.httpServer` is set (see
below).

The commands keep the names of the services and servers that a file held, those they
reported as added, and the configuration's token, unless two of them overlap in the file or
one is killed between truncating and writing it (`NamesAndTokenKept` exempts both). What a
client's file says beyond names, commands and arguments is lost (see below). A configuration that loads goes
on loading, in the middle of a write and after a kill too, but for two writers that
overlap and an annotation of fewer than three parts (`StillLoads`); after a kill it may
load as an empty one. What is discovered has the name, registry and repo that the
workload tells (`DiscoveredIsRight`); a deployed version is the tag of a running image but
for pinned images and a port that is taken for a tag (`DeployedIsRunning`). `watch` prints
each change between two answers once and in order (`ChangesPrinted`), never exceeds the
rate (`RateRespected`), passes over a service only where a check has more of them than
tokens come in (`RefusedIsOverload`), and stops (`SignalStops`).

Five runs show a disagreement with the project's own documents or comments. The first is
with `docs/adr/0001-production-hardening.md`, line 85, "Config mutations are thread-safe".
`SharedConfigServe`: the tools and the dashboard's pages read the list twice without a
lock and size their results by the first read, so an addition in between is a panic; and
the dashboard's mutex is not the API's, so the same name can be added through both. The
API by itself, and the dashboard's own changes by themselves, are correct
(`Overlaps`, and for any number of requests the theorems of
`SharedConfigProofs`).

The second is with `README.md`, line 179, "Detect new releases and send
notifications". `WatchStaleCache`: a fetch of another tool that takes longer stores
the older release over the newer one that `watch_releases` has already seen; the
next call reads the older one from the cache and announces it as new. Two
overlapping calls of the tool can do the same without the cache's help, each with an
answer of its own. The model's upstream only moves on, so a release withdrawn at
GitHub is not the reason.

The third is with the comment at `internal/mcpserver/server.go`, line 392, "Shutdown
gracefully stops the HTTP and SSE servers", and with the same ADR's line 55, "so deferred
cleanup runs". `ServerShutdown`: `ListenAndServe` returns as soon as `Shutdown` begins,
`RunE` returns its error, and `main` calls `os.Exit` while the other goroutine still drains
the connections: requests are cut off and the store is not closed, both in one trace.

The fourth is with the comment at `internal/api/api.go`, line 128, "newest first".
`TimelineOrder`: `/api/v1/timeline` goes by service in the order of the configuration, and
within a service from the release recorded last to the first; nothing sorts it.

The fifth is with the comment at `cmd/releasewave/install.go`, line 91, "merges the
releasewave entry". `InstallMerge`: the client's file is parsed into a struct that has
commands and arguments only and written from it, so the env of another server and all other
keys are gone, without a race or a kill.

Three more are in the models, and exempted where a property would meet them, since they
are plain from the code. A signal that comes before `s.httpServer` is set makes `Shutdown`
(`internal/mcpserver/server.go`, line 392) pass the HTTP server over and close the store; the
server is then put together and listens, without a store, and hears no second signal.
`release_diff` takes the latest release and the list from two entries of the cache, and a list
older than the latest release gives an empty changelog and zero versions behind for two
versions that differ (`tools_extended.go`, line 1139). And `MultiNotifier` is said to notify "multiple channels
concurrently" (`internal/notify/multi.go`, line 9) and notifies them one after the other,
which is how `Daemon` models it.

### Fairness

`Progress` is weak fairness of everything a running process does: goroutines
are scheduled, the ticker ticks, every HTTP call ends (the clients have timeouts).
`FairSelect` is strong fairness of the stop case of the `select`: Go chooses among
the ready cases at random, so a ready case is not passed over for ever although
ticks keep coming. `KindWorld` is about the world, not the code, and only
`DaemonLiveness` uses it: a fetch, a `SetKV` and a `RecordRelease` that are tried
again and again succeed in the end. Nothing is assumed of channels, of `Stop`
being called, of crashes, or of processes being started.

`FairCallSpec` (`ToolCalls`) is weak fairness of the handler and of each goroutine: the
clients have timeouts, so every request ends, with an answer or an error. That a
request succeeds is not assumed.

`WatchFairness` (`Commands`) is weak fairness of each goroutine of a check, of the return of
`wg.Wait` and of the clock, and strong fairness of the signal's case of the `select`, for the
reason given above. `FairSpec` of `ServerLifecycle` is weak fairness of the main goroutine, of
the one that shuts down (its five seconds end) and of each handler; no client has to leave,
and nobody has to send a signal.

`Converges` says that a process that stays up brings memory, baseline and history
in line with the upstream. With `MaxPublish` bounded the upstream settles, which
is what makes the statement meaningful.

## 4. Proofs

`tlapm` checks all of them; they hold for any set of services, channels, tags and
stoppers, any faults and any bounds, under `DaemonAssumption` (`None` is not a
tag, the sets are what their comments say) and `ReaderAssumption` (the reader's
channel exists), `CachedProviderAssumption`, `WatchToolAssumption` (which goroutines there
are), `TenancyAssumption`, `SharedConfigAssumption`, `ServerAssumption`, `ToolFanOutAssumption`
(the services have names of their own, the lists are newest first as the providers give
them, dates and dependencies are numbers), `ReleaseDiffAssumption`, `ConfigAssumption` (what a
cluster and a file may hold; see below) and `WatchAssumption` (finitely many services; the
limits are positive, the deadline a number).

* `Invariance` (`DaemonProofs`): `IndInv` is invariant. `DurableBaseline` and
  `HistoryHoldsAnnounced` are not inductive by themselves. `JobOK` adds what a
  goroutine owns: from its swap to its end `known[s]` is the tag it fetched, and
  when it announces, that tag is recorded. `ProcessOK` adds the barrier: no job
  lives outside a poll, memory is empty outside a process, and a `Stop` that
  returned means the process is over. One lemma per group of actions.
* `TypeCorrect`, `BaselineIsDurable`, `AnnouncedIsRecorded` follow; so does
  `StoppedIsQuiet`, an action property: a returned `Stop` means `pc = "exited"`,
  where no job exists to write anything.
* `SoundChannelsAreTold` (`DaemonProofs`): between announcements nothing would remember that
  the channels agree, so `FanOutInv` says what holds in the middle of one. `Front`, the
  channel the fan-out is at, splits the sound channels: those on one side of it were told
  the same, those behind it one change more. `FanOutNotify` moves `Front` on by one, whether
  the channel took the change or lost it; every other step leaves it or begins at 1.
* `BaselineIsRemembered` (`DaemonProofs`): a second invariant over the first.
* `DaemonAnnounces`: the refinement. `latest` is `kv`; `base[s]` is the job's old
  tag while its announcement is still owed, and `kv[s]` otherwise; `events` is what
  the reader's channel got. `SetKV` maps to `Learn`, `Observe` or `Overlook`,
  `Notify` to `Announce` or `Miss`, `Crash` to a `Miss` of all that is owed, every
  other step to a stutter.
* `ProcessAnnounces` (`DaemonProofs`): the same within one process, for any store or none and
  whatever the store refuses. Here `latest` is `known`, and the observation is the swap; what
  a goroutine owes (`Owes`) from its swap to its `Notify` is the same whichever of `SetKV` and
  `RecordRelease` are tried and fail, so those steps are stutters.
* `ReaderCanReplay` (`AnnouncementsProofs`) is proved of the abstract
  specification and carried to the daemon by `DaemonReaderCanReplay`.
* `CacheInvariance`, `AnswersAreFresh` (`WatchToolProofs`, of `CachedProvider`'s own
  specification and from its assumption alone): freshness alone is
  not inductive. `CacheInv` follows a value on its way: dated when it is fetched,
  again (by at most `MaxLag` more) when it is stored, and never by a copy or a hit.
* `ToolUsesProvider` (`WatchToolProofs`): every step of the tool is a step of the
  provider or leaves it alone, so `ToolAnswersAreFresh` for the tool's goroutines.
* `ChangesArePostedOnce` (`WatchToolProofs`): for each change, the times it was made equal
  the times it was posted plus the goroutines that owe it. `ToolInv` adds the types and
  `InTurn` (only a goroutine that waits for a release has a call in the provider, so no
  other step of the provider moves one that owes). `MadeOnceMore` says what an `Append`
  does to a count, `OwedMoves` what a goroutine's step does.
* `CallsAnnounce` (`WatchToolProofs`): the refinement, while clients make one call at a time.
  `latest` is `last`, `events` what the channel took, and `base[s]` is the old version of the
  one goroutine that owes a change, or `last[s]`. The swap maps to `Learn`, `Observe`,
  `Overlook` (without a channel) or a stutter, the post to `Announce` or `Miss`.
  `AnnouncingInv` carries the versions from the upstream through the cache to the tool, and
  its part `OneByOne` says why the calls must not overlap: what is still to be posted is
  then what `last` last went through.
* `TenancyInvariance` (`TenancyProofs`): `Issued` (ids and hashes are given out once)
  and `KeyOf`, which ties a key to its tenant both while it is on its way to the
  user and after it was printed. `NoKeyIsOrphaned` and `KeysOpenTheirTenant` follow.
* `ListInvariance` (`SharedConfigProofs`), from the hypothesis `OneLock` that the API's and
  the dashboard's doors are not both in use: writers exclude each other, and what a
  request found under its lock is so until it lets it go. `NamesStayUnique`,
  `ListingsStayCurrent` and `ChangesTakeEffect` follow. `SharedConfigServe` shows that the
  hypothesis is needed. `deleteService`'s loop is a recursive function (`Without`); what it
  returns is shown by a least counterexample, not by induction.
* `LifeInvariance` (`ServerLifecycleProofs`): the store is closed only after the connections
  were idle (`ClosedLast`, `DrainedOK`), so an answered request has no holes (`NoHoles`)
  unless the deadline passed or the signal came too early; hence `StoreIsKeptForRequests`.

* `Collecting` (`ToolFanOutProofs`): `FanInv`, for any number of services. What a reply must be
  says nothing of the goroutines on the way to it, so `FanInv` has a part for each way of
  collecting: `SlotsRight` (a slot is right once its goroutine is done), `MatrixRight` (one
  line for each goroutine that is done), `RecentRight` (a goroutine at `file[i]` has appended
  the lines before it and those alone; past the first old release nothing is recent, which is
  where the loop's early end needs lists that are newest first), `HistoryRight`. `ReplyRight`
  says what is left of it after the sort: the same lines in another order (`Reordered`), with
  no later one that `less` puts before an earlier one. `sort.Slice` is any permutation that is
  sorted, so nothing rests on ties. `AllServicesAnswered`, `NoneLostOrDoubled` and
  `AlwaysInOrder` (the replies that are sorted) follow.
* `GraphIsExact` (`ToolFanOutProofs`): while dependencies are paired up, the edges have exactly
  those already taken, each once between each two of its users (`EdgesOf`, in `GraphInv`); so
  when none is left, they have what two services share, whatever the order (`EdgeHas`).
  `CanSort` shows that names can be sorted: each has the place that the number of smaller ones
  tells, and different names have different places. The assumption is that a dependency
  compares with others (`ToolFanOutAssumption`).
* `NeverWronglyCurrent`, `NoGapInTheChangelog` (`ToolFanOutProofs`): `DiffInv` says what a call
  knows (its two versions are the running one and one that was the latest, neither newer than
  what is published). `BetweenSpans` is the changelog itself: the first place of each version
  in a list of any length (`PlaceOfTo`, `PlaceOfStop`), and the part between them.
* `FilesKeepNames` (`CommandsProofs`): `NamesAndTokenKept` says nothing of a command between its
  truncation and its writing, so `KeepInv` does. While the damage to a file is none, at most one
  command writes it; the file then holds nothing and what is about to be written (`Keeps`) holds
  all that it must (`Sound`); and a command that is about to truncate has in `out` all that it
  read (`KeepsRead`), the file being what it read unless the truncation counts as a race. The
  rest is about lists of any length. `AddAllNew` is a recursive function; that it has values, and
  that each of its steps keeps the names, is shown from `AllNumbers`, induction over a set of
  numbers, which follows from the library's facts about finite sets. `ConfigAssumption` says
  that what a cluster and a file hold are lists, and that a file that is not good has nothing.
* `MergedFilesLoad` (`CommandsProofs`): that a file still loads is not inductive either, since a
  command writes what it made of an earlier file. `LoadInv` says of a command that has an output
  ready that it is `Usable` if what was read is (`Ready`), and of the file that it is, and so is
  what a writer is about to make of it (`StaysUsable`). The file of a writer is empty, and
  nobody else writes it unless they race (`OneWriter`); so a kill leaves an empty one, which
  loads. `MergeLoads` is the merge: names stay apart
  (`AddingAll`), and each service found has a name and three parts or a short annotation
  (`FoundPasses`).
* `DeployedVersionRuns`, `DiscoveredServicesAreRight` (`CommandsProofs`): facts about texts of
  any length. `RepositoryIs` says what is at each place of a repository, `Separators` where its
  colons and slashes are, `TaggedIs` what a tag adds; so the last colon begins the tag of a
  plain image (`PlainTag`), and a colon that begins no tag has a slash behind it, or is in the
  digest that is cut off first (`WithoutDigestIs`, `WithoutTagIs`). `SplitIs` counts slashes to
  find the parts. They rest on `IsImage` (no name of an image is a separator, and a registry
  alone is no image) and `IsWorkload` (a workload has a name; its repo and images are lists),
  both part of `ConfigAssumption`.
* `WatchInvariance` (`CommandsProofs`): that a refusal means overload is not inductive. The
  tokens below zero are promises, so `Promised` counts them: for every w, the goroutines that
  wait for more than w ticks are as many as the promises that w ticks do not cover. Hence
  a check that has waited leaves no debt, and `Drawn` adds that a bucket is not further below
  zero than goroutines of this check have drawn on it; whoever is refused is one more than
  those. `NobodyRefusedForNothing` follows.
* `RateIsKept` (`CommandsProofs`): what was sent keeps to the bound only together with
  what is due now and what the bucket holds, which is `Spent`. A token drawn and a request
  sent only move between the three; a tick adds at most `Rate`, since by `Promised` no more
  than `Rate` waits end with it while the bucket is in debt, and what it adds to nothing is
  within the larger of `Rate` and `Burst`. With `Burst` alone the bound is false when `Rate`
  exceeds it: a tick may then end `Rate` waits at once.
* `EveryChangeIsPrinted` (`CommandsProofs`): the refinement. `latest` is `known`, `base[s]`
  what the terminal was told; the swap maps to `Learn`, `Observe` or a stutter, the line to
  `Announce`. `Owing` keeps the two tags of a line together while other goroutines run, and
  `FirstLearns` has every service silent in the first check.

Only model-checked: liveness (`Converges`, `StopReturns`, `AnnouncementsSettle`,
`SignalEndsProcess`, `SignalStops`, `CallReturns`), which is out of the prover's reach. Every
invariant of a passing run is stated by a theorem. No run has a daemon without a store
(`HasStore = FALSE`) or a service without a provider; the daemon's theorems cover both.

## 5. Not modelled, and the plan

Not modelled:

* the GitHub App's webhook: no command constructs or mounts it, and it keeps nothing;
* requests that are made and printed: registry tags, advisories, tags, file contents, the
  deployments of a cluster; pagination and error texts of the HTTP clients;
* CORS, logging, metrics and `normalizePath`, which wrap a handler and keep counters;
* the stdio transport; `parseDeps` (the set of dependencies it finds is given);
* `LogToolCall`, `Cache.Clear` and `Delete`, `AddService`, `ListServices`, `ListForTenant`,
  `Revoke`: no caller in the program;
* message formats, HTML (with it the error of `web.Handler`, which ends `serve` before it listens
  if the template that is built into the program does not parse), the migrations.

Known limits of the program that no property is about, being certain or outside it:
`daemon.Stop` would wait for ever before `Start` or in once mode (`daemon.go:74`, no caller);
`--interval 0` panics in `NewTicker` (`daemon.go:56`); without a configuration file the
environment's tokens are ignored (`config.go:188`); a service renamed by an annotation is
not found in the cluster (`discovery.go:101`); of two workloads of one name `upgrade_plan`
takes the last and `release_diff` the first (`tools_extended.go:641`); a browser's preflight
meets the key check (`serve.go:62`); paths become metric labels (`metrics.go:55`); GitLab's
latest may be an upcoming release (`gitlab.go:132`); a dashboard page that reads the list twice may
show counts of another list than its rows (`web.go:251`).

Left of the plan, in order:

1. `TwoDaemons`: two processes over one database.
2. `parseDeps` and `normalizePath` as operators beside those of `Discovery`.
