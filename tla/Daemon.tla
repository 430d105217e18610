------------------------------- MODULE Daemon -------------------------------
(* internal/daemon: the background poller.  One process at a time runs one  *)
(* Daemon over a store that outlives it: every poll starts one goroutine    *)
(* per service (checkService), which fetches the latest release, swaps it   *)
(* into the in-memory map, writes the baseline and the history to the store *)
(* and announces a change on every notification channel.                    *)
EXTENDS Naturals, Sequences, FiniteSets

CONSTANTS
  Services,       \* cfg.Services, by name (names are unique: config.Validate)
  Supported,      \* those whose repo has a provider; the others are skipped
  Tags,           \* release tags
  None,           \* no tag: absent from known, from kv_store
  HasStore,       \* d.store # nil
  NumChannels,    \* channels behind d.notifier, in order; 0: d.notifier = nil
  FlakyChannels,  \* channels that may fail to deliver
  Stoppers,       \* goroutines that may call Stop
  Faults,         \* the faults that may occur, a subset of FaultKinds
  MaxPublish,     \* bound: releases published upstream
  MaxLaunches     \* bound: processes started on this store

FaultKinds == {"kv_read", "kv_write", "record", "cancel", "crash"}
Channels == 1..NumChannels

ASSUME DaemonAssumption ==
  /\ None \notin Tags
  /\ Supported \subseteq Services
  /\ HasStore \in BOOLEAN
  /\ NumChannels \in Nat /\ FlakyChannels \subseteq Channels
  /\ Faults \subseteq FaultKinds
  /\ MaxPublish \in Nat /\ MaxLaunches \in Nat

VARIABLES
  upstream,   \* upstream[s]: the latest release at GitHub or GitLab
  published,  \* releases published so far
  launches,   \* processes started so far
  pc,         \* where Start or RunOnce is
  mode,       \* "loop" (Start) or "once" (RunOnce)
  known,      \* d.known: the last tag this process saw
  job,        \* job[s]: the goroutine of s in the current poll
  stopReq,    \* d.stopCh is closed
  ctxDone,    \* ctx is cancelled or past its deadline
  stopper,    \* stopper[c]: the call of Stop by c
  kv,         \* kv_store, key "version:<service>"
  releases,   \* releases[s]: the tags in table releases
  posts       \* posts[s][k]: the changes channel k received, oldest first

env == <<upstream, published>>
store == <<kv, releases>>
process == <<launches, mode>>
signals == <<stopReq, ctxDone, stopper>>
control == <<pc, process, signals>>
work == <<known, job, posts>>
vars == <<env, store, control, work>>

Change == [old : Tags, new : Tags]
NoJob == [pc |-> "none", old |-> None, tag |-> None, ch |-> 0]
Job == [pc  : {"none", "fetch", "swap", "setkv", "record", "post"},
        old : Tags \cup {None}, tag : Tags \cup {None}, ch : 0..NumChannels]

Up == pc \in {"load", "poll", "idle"}
JobsDone == \A s \in Services : job[s].pc = "none"

Init ==
  /\ upstream \in [Services -> Tags] /\ published = 0
  /\ launches = 0 /\ pc = "off" /\ mode = "loop"
  /\ stopReq = FALSE /\ ctxDone = FALSE
  /\ stopper = [c \in Stoppers |-> "idle"]
  /\ known = [s \in Services |-> None]
  /\ job = [s \in Services |-> NoJob]
  /\ kv = [s \in Services |-> None]
  /\ releases = [s \in Services |-> {}]
  /\ posts = [s \in Services |-> [k \in Channels |-> <<>>]]

-----------------------------------------------------------------------------
\* A new latest release, or the return of an older one when a release is withdrawn.
Publish(s, t) ==
  /\ published < MaxPublish /\ t # upstream[s]
  /\ upstream' = [upstream EXCEPT ![s] = t]
  /\ published' = published + 1
  /\ UNCHANGED <<store, control, work>>

\* The command starts: New, then Start in a loop or RunOnce.
Launch(m) ==
  /\ pc \in {"off", "exited"} /\ launches < MaxLaunches
  /\ launches' = launches + 1
  /\ pc' = "load" /\ mode' = m
  /\ known' = [s \in Services |-> None]
  /\ stopReq' = FALSE /\ ctxDone' = FALSE
  /\ stopper' = [c \in Stoppers |-> "idle"]
  /\ UNCHANGED <<env, store, job, posts>>

\* poll starts a goroutine per service; those without a provider return at once.
Poll == /\ pc' = "poll"
        /\ job' = [s \in Services |->
             IF s \in Supported THEN [NoJob EXCEPT !.pc = "fetch"] ELSE NoJob]
        /\ UNCHANGED <<env, store, process, signals, posts>>

\* Seeded fault: Start polls without loadKnownVersions.
Begin_NoLoad(unread) == pc = "load" /\ unread = {} /\ Poll /\ UNCHANGED known

\* loadKnownVersions, then the first poll.  A GetKV that fails is skipped.
Begin(unread) ==
  /\ pc = "load"
  /\ unread # {} => "kv_read" \in Faults
  /\ known' = IF HasStore
              THEN [s \in Services |-> IF s \in unread THEN known[s] ELSE kv[s]]
              ELSE known
  /\ Poll

Tick == pc = "idle" /\ Poll /\ UNCHANGED known

-----------------------------------------------------------------------------
(* checkService, step by step. *)

FetchOK(s) ==
  /\ job[s].pc = "fetch" /\ ~ctxDone
  /\ job' = [job EXCEPT ![s] = [@ EXCEPT !.pc = "swap", !.tag = upstream[s]]]
  /\ UNCHANGED <<env, store, control, known, posts>>

FetchFail(s) ==
  /\ job[s].pc = "fetch"
  /\ job' = [job EXCEPT ![s] = NoJob]
  /\ UNCHANGED <<env, store, control, known, posts>>

\* Seeded fault: the first sight of a service counts as a change (no "seen").
IsNew_Unseen(j) == j.old # j.tag

IsNew(j) == j.old \notin {None, j.tag}

\* What is left of checkService after the store: isNew and d.notifier # nil.
Notifying(j) == IF IsNew(j) /\ NumChannels > 0
                THEN [j EXCEPT !.pc = "post", !.ch = 1] ELSE NoJob

\* Under d.mu: read the old tag, install the new one.
Swapped(s, pcNext) == [job[s] EXCEPT !.pc = pcNext, !.old = known[s]]

Swap(s) ==
  /\ job[s].pc = "swap"
  /\ known' = [known EXCEPT ![s] = job[s].tag]
  /\ job' = [job EXCEPT ![s] = IF HasStore THEN Swapped(s, "setkv")
                                           ELSE Notifying(Swapped(s, "swap"))]
  /\ UNCHANGED <<env, store, control, posts>>

\* SetKV writes the tag, if it is due, and may fail.
SetKVStep(s, ok, due, next) ==
  /\ job[s].pc = "setkv"
  /\ ok \/ "kv_write" \in Faults
  /\ kv' = IF ok /\ due THEN [kv EXCEPT ![s] = job[s].tag] ELSE kv
  /\ job' = [job EXCEPT ![s] = next]
  /\ UNCHANGED <<env, releases, control, known, posts>>

Recording(s) == [job[s] EXCEPT !.pc = "record"]

\* Seeded faults: SetKV only for an announced change; SetKV only when the tag
\* moved in memory; an error of SetKV ends the job.
SetKV_NewOnly(s, ok) == SetKVStep(s, ok, IsNew(job[s]), Recording(s))
SetKV_IfMoved(s, ok) == SetKVStep(s, ok, job[s].old # job[s].tag, Recording(s))
SetKV_ErrorEnds(s, ok) == SetKVStep(s, ok, TRUE, IF ok THEN Recording(s) ELSE NoJob)

\* An error of SetKV is logged and the job goes on.
SetKV(s, ok) == SetKVStep(s, ok, TRUE, Recording(s))

\* INSERT OR IGNORE, if it inserts; an error is logged and the job goes on.
RecordStep(s, ok, inserts) ==
  /\ job[s].pc = "record"
  /\ ok \/ "record" \in Faults
  /\ releases' = IF ok /\ inserts THEN [releases EXCEPT ![s] = @ \cup {job[s].tag}]
                                  ELSE releases
  /\ job' = [job EXCEPT ![s] = Notifying(@)]
  /\ UNCHANGED <<env, kv, control, known, posts>>

\* Seeded fault: the table is UNIQUE(service), so only the first tag is kept.
RecordRelease_PerService(s, ok) == RecordStep(s, ok, releases[s] = {})

RecordRelease(s, ok) == RecordStep(s, ok, TRUE)

\* The change is posted to channel job[s].ch, or lost there.
NotifyStep(s, delivered, next) ==
  /\ job[s].pc = "post"
  /\ IF delivered THEN ~ctxDone ELSE ctxDone \/ job[s].ch \in FlakyChannels
  /\ posts' = IF delivered
              THEN [posts EXCEPT ![s][job[s].ch] =
                      Append(@, [old |-> job[s].old, new |-> job[s].tag])]
              ELSE posts
  /\ job' = [job EXCEPT ![s] = next]
  /\ UNCHANGED <<env, store, control, known>>

NextChannel(j, last) == IF j.ch < last THEN [j EXCEPT !.ch = @ + 1] ELSE NoJob

\* Seeded faults: the first error ends the fan-out; a failed channel is tried again
\* until it accepts.
Notify_FirstErrorEnds(s, delivered) ==
  NotifyStep(s, delivered, IF delivered THEN NextChannel(job[s], NumChannels) ELSE NoJob)
Notify_RetryForever(s, delivered) ==
  NotifyStep(s, delivered, IF delivered THEN NextChannel(job[s], NumChannels) ELSE job[s])

\* One channel of MultiNotifier.Notify: a channel that fails is not retried
\* and does not keep the later channels from their turn.
Notify(s, delivered) == NotifyStep(s, delivered, NextChannel(job[s], NumChannels))

JobStep(s) == \/ FetchOK(s) \/ FetchFail(s) \/ Swap(s)
              \/ \E ok \in BOOLEAN : SetKV(s, ok) \/ RecordRelease(s, ok) \/ Notify(s, ok)

-----------------------------------------------------------------------------
(* The loop of Start, and the calls that end it. *)

GoTo(where) == pc' = where /\ UNCHANGED <<env, store, process, signals, work>>

\* Seeded fault: poll returns without waiting for its goroutines.
PollDone_NoWait == pc = "poll" /\ GoTo(IF mode = "once" THEN "exited" ELSE "idle")

\* wg.Wait returns.
PollDone == pc = "poll" /\ JobsDone /\ GoTo(IF mode = "once" THEN "exited" ELSE "idle")

\* Seeded faults: Start returns in the middle of a poll; it listens to ctx only.
SelectStop_MidPoll == pc \in {"idle", "poll"} /\ (stopReq \/ ctxDone) /\ GoTo("exited")
SelectStop_CtxOnly == pc = "idle" /\ ctxDone /\ GoTo("exited")

\* The select takes <-d.stopCh or <-ctx.Done(); Start returns, closing d.stopped.
SelectStop == pc = "idle" /\ (stopReq \/ ctxDone) /\ GoTo("exited")

\* Stop: close d.stopCh once, then wait for d.stopped.
Stop(c) ==
  /\ Up /\ mode = "loop" /\ stopper[c] = "idle"
  /\ stopReq' = TRUE
  /\ stopper' = [stopper EXCEPT ![c] = "waiting"]
  /\ UNCHANGED <<env, store, process, pc, ctxDone, work>>

StopReturn(c) ==
  /\ pc = "exited" /\ stopper[c] = "waiting"
  /\ stopper' = [stopper EXCEPT ![c] = "returned"]
  /\ UNCHANGED <<env, store, process, pc, stopReq, ctxDone, work>>

\* The owner cancels ctx, or the 60 s deadline of the once mode passes.
Cancel ==
  /\ "cancel" \in Faults /\ Up /\ ~ctxDone
  /\ ctxDone' = TRUE
  /\ UNCHANGED <<env, store, process, pc, stopReq, stopper, work>>

\* The process is killed anywhere; only the store and what was posted survive.
Crash ==
  /\ "crash" \in Faults /\ Up
  /\ pc' = "off"
  /\ job' = [s \in Services |-> NoJob]
  /\ known' = [s \in Services |-> None]
  /\ stopper' = [c \in Stoppers |-> "idle"]
  /\ UNCHANGED <<env, store, process, stopReq, ctxDone, posts>>

Next ==
  \/ \E s \in Services, t \in Tags : Publish(s, t)
  \/ \E m \in {"loop", "once"} : Launch(m)
  \/ \E unread \in SUBSET Services : Begin(unread)
  \/ Tick \/ PollDone \/ SelectStop \/ Cancel \/ Crash
  \/ \E s \in Services : JobStep(s)
  \/ \E c \in Stoppers : Stop(c) \/ StopReturn(c)

Spec == Init /\ [][Next]_vars

\* Goroutines run: a poll in progress and a ticking loop go on, a closed
\* d.stopped is noticed.  Every HTTP call ends (client and context timeouts).
Progress ==
  /\ WF_vars(\E unread \in SUBSET Services : Begin(unread))
  /\ WF_vars(Tick) /\ WF_vars(PollDone)
  /\ \A s \in Services : WF_vars(JobStep(s))
  /\ \A c \in Stoppers : WF_vars(StopReturn(c))

\* select chooses at random among its ready cases, so the stop case is not
\* passed over for ever.
FairSelect == SF_vars(SelectStop)

\* About the world, not the code: neither the upstream nor the store fails for ever.
KindWorld == \A s \in Services :
  SF_vars(FetchOK(s)) /\ SF_vars(SetKV(s, TRUE)) /\ SF_vars(RecordRelease(s, TRUE))

FairSpec == Spec /\ Progress /\ FairSelect
KindSpec == FairSpec /\ KindWorld
=============================================================================
