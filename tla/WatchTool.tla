----------------------------- MODULE WatchTool ------------------------------
(* The MCP tool watch_releases (handleWatchReleases): each call starts one  *)
(* goroutine per service, which asks the cached provider, swaps the tag     *)
(* into s.lastKnownVersions and posts a change.  Calls may overlap: they    *)
(* share lastKnownVersions, and the cache with every other tool.            *)
EXTENDS CachedProvider, FiniteSets

CONSTANTS
  Calls,       \* calls of the tool that may be in progress at one time
  Services,    \* cfg.Services; a service's releases are a key of the cache
  Others,      \* goroutines of other tools that ask the same provider
  Notifying,   \* notifications are enabled and have a channel
  MayFail,     \* the channel may fail
  MaxCalls     \* bound: calls made

Goroutine(c, s) == <<c, s>>

ASSUME WatchToolAssumption ==
  /\ Services = Keys /\ IsFiniteSet(Calls)
  /\ Callers = {Goroutine(c, s) : c \in Calls, s \in Services} \cup Others
  /\ \A c \in Calls, s \in Services : Goroutine(c, s) \notin Others
  /\ Notifying \in BOOLEAN /\ MayFail \in BOOLEAN /\ MaxCalls \in Nat

VARIABLES
  alone,     \* whether the clients wait for one call before they make the next
  last,      \* s.lastKnownVersions; 0: the empty string
  work,      \* work[c][s]: the goroutine of call c for service s
  made,      \* calls made so far
  changes,   \* changes[s]: the changes that last[s] went through, oldest first
  posted,    \* posted[s]: the changes handed to the notifier
  taken      \* taken[s]: those that the channel took

wvars == <<alone, last, work, made, changes, posted, taken>>

Versions == 1..MaxPublish
Rest == [pc |-> "none", tag |-> 0, old |-> 0]

WInit ==
  /\ CInit
  /\ alone \in BOOLEAN
  /\ last = [s \in Services |-> 0]
  /\ work = [c \in Calls |-> [s \in Services |-> Rest]]
  /\ made = 0
  /\ changes = [s \in Services |-> <<>>]
  /\ posted = [s \in Services |-> <<>>]
  /\ taken = [s \in Services |-> <<>>]

-----------------------------------------------------------------------------
GoesOn(c, s, w) == work' = [work EXCEPT ![c][s] = w]

\* The handler makes the map if need be and starts its goroutines.
Start(c) ==
  /\ made < MaxCalls /\ \A s \in Services : work[c][s].pc = "none"
  /\ alone => work = [d \in Calls |-> [s \in Services |-> Rest]]
  /\ work' = [work EXCEPT ![c] = [s \in Services |-> [Rest EXCEPT !.pc = "get"]]]
  /\ made' = made + 1
  /\ UNCHANGED <<cvars, alone, last, changes, posted, taken>>

\* p.GetLatestRelease: the call enters the cached provider ...
Ask(c, s) ==
  /\ work[c][s].pc = "get"
  /\ Lookup(Goroutine(c, s), s)
  /\ UNCHANGED wvars

\* ... and leaves it with a release or an error, which ends the goroutine.
Receive(c, s) ==
  /\ Serve(Goroutine(c, s))
  /\ \/ answer'.by = "none" /\ UNCHANGED work
     \/ answer'.by = "call" /\ GoesOn(c, s, [Rest EXCEPT !.pc = "swap", !.tag = answer'.val])
     \/ answer'.by = "error" /\ GoesOn(c, s, [Rest EXCEPT !.pc = "done"])
  /\ UNCHANGED <<alone, last, made, changes, posted, taken>>

\* Seeded fault: the first sight of a service is news.
IsNews_Unseen(old, tag) == old # tag

IsNews(old, tag) == old # 0 /\ old # tag

\* Under s.mu: read the old version, judge, install the new one.
SwapTo(c, s, tag) ==
  LET w == work[c][s] IN
  /\ w.pc = "swap"
  /\ last' = [last EXCEPT ![s] = tag]
  /\ GoesOn(c, s, IF IsNews(last[s], w.tag) /\ Notifying
                  THEN [w EXCEPT !.pc = "post", !.old = last[s]] ELSE [Rest EXCEPT !.pc = "done"])
  /\ changes' = IF last[s] \notin {0, last'[s]}
                THEN [changes EXCEPT ![s] = Append(@, <<last[s], last'[s]>>)] ELSE changes
  /\ UNCHANGED <<cvars, alone, made, posted, taken>>

\* Seeded fault: only the first version is written down.
Swap_FirstOnly(c, s) == SwapTo(c, s, IF last[s] = 0 THEN work[c][s].tag ELSE last[s])

Swap(c, s) == SwapTo(c, s, work[c][s].tag)

\* notifier.Notify; an error is logged.
Post(c, s, ok) ==
  LET w == work[c][s] IN
  /\ w.pc = "post" /\ (ok \/ MayFail)
  /\ posted' = [posted EXCEPT ![s] = Append(@, <<w.old, w.tag>>)]
  /\ taken' = IF ok THEN [taken EXCEPT ![s] = Append(@, [old |-> w.old, new |-> w.tag])] ELSE taken
  /\ GoesOn(c, s, [Rest EXCEPT !.pc = "done"])
  /\ UNCHANGED <<cvars, alone, last, made, changes>>

\* wg.Wait returns and the call reports.
Report(c) ==
  /\ \A s \in Services : work[c][s].pc = "done"
  /\ work' = [work EXCEPT ![c] = [s \in Services |-> Rest]]
  /\ UNCHANGED <<cvars, alone, last, made, changes, posted, taken>>

Elsewhere ==
  /\ \/ Pass
     \/ \E k \in Keys : NewValue(k)
     \/ \E o \in Others : Serve(o) \/ \E k \in Keys : Lookup(o, k)
  /\ UNCHANGED wvars

WNext ==
  \/ Elsewhere
  \/ \E c \in Calls :
       \/ Start(c) \/ Report(c)
       \/ \E s \in Services : \/ Ask(c, s) \/ Receive(c, s) \/ Swap(c, s)
                              \/ \E ok \in BOOLEAN : Post(c, s, ok)

WSpec == WInit /\ [][WNext]_<<cvars, wvars>>

-----------------------------------------------------------------------------
Owed(s, e) == {c \in Calls : work[c][s].pc = "post" /\ <<work[c][s].old, work[c][s].tag>> = e}

\* However calls overlap, every change that lastKnownVersions goes through is
\* handed to the notifier by exactly one of them: none is reported twice, none
\* swallowed between two calls (the old version is read and the new one installed
\* under one lock).
EachChangePostedOnce ==
  Notifying => \A s \in Services, e \in Versions \X Versions :
    Cardinality({i \in DOMAIN changes[s] : changes[s][i] = e}) =
      Cardinality({i \in DOMAIN posted[s] : posted[s][i] = e}) + Cardinality(Owed(s, e))

\* What is announced as a new release is newer than what it replaces, given an
\* upstream that only moves on (README.md: "Detect new releases and send
\* notifications").
NewsIsNew == \A s \in Services : \A i \in DOMAIN posted[s] :
               posted[s][i][1] < posted[s][i][2]

-----------------------------------------------------------------------------
(* With one call at a time the tool keeps the daemon's promise.             *)

Pending(s) == {work[c][s].old : c \in {d \in Calls : work[d][s].pc = "post"}}

\* Without a channel nobody is told of anything.
Announcements == INSTANCE ReleaseAnnouncements WITH
  Tags <- Versions, None <- 0, MayMiss <- MayFail \/ ~Notifying,
  latest <- last, events <- taken,
  base <- [s \in Services |-> IF Pending(s) = {} THEN last[s]
                              ELSE CHOOSE old \in Pending(s) : TRUE]

\* Calls that follow one another tell the channel each release once, in order
\* and as a chain.
WatchAnnounces ==
  Announcements!AInit /\ [][alone => [Announcements!ANext]_(Announcements!avars)]_<<cvars, wvars>>
=============================================================================
