-------------------------- MODULE DaemonProperties --------------------------
(* What the daemon must get right, over the actions of module Daemon.       *)
EXTENDS Daemon

CONSTANT Reader     \* the channel whose reader is promised something

ASSUME ReaderAssumption == Reader \in Channels

FlagTypeOK == stopReq \in BOOLEAN /\ ctxDone \in BOOLEAN

ControlTypeOK ==
  /\ launches \in 0..MaxLaunches
  /\ pc \in {"off", "load", "poll", "idle", "exited"} /\ mode \in {"loop", "once"}
  /\ stopper \in [Stoppers -> {"idle", "waiting", "returned"}]

TypeOK ==
  /\ upstream \in [Services -> Tags] /\ published \in 0..MaxPublish
  /\ FlagTypeOK /\ ControlTypeOK
  /\ known \in [Services -> Tags \cup {None}]
  /\ job \in [Services -> Job]
  /\ kv \in [Services -> Tags \cup {None}]
  /\ releases \in [Services -> SUBSET Tags]
  /\ posts \in [Services -> [Channels -> Seq(Change)]]

-----------------------------------------------------------------------------
(* Safety *)

\* Between the swap of d.known and SetKV the store lags by the tag being
\* written; at any other moment, what a restarted process would load is what
\* this process knows, so a crash neither repeats nor forgets a change
\* (checkService, loadKnownVersions).
BaselineOK(s) == known[s] # None => IF job[s].pc = "setkv"
                                    THEN job[s].old = None \/ kv[s] = job[s].old
                                    ELSE kv[s] = known[s]

DurableBaseline ==
  HasStore /\ "kv_write" \notin Faults => \A s \in Services : BaselineOK(s)

\* A release announced on any channel is in the release history that the API
\* and the tools read, whatever crashed since (checkService records before it
\* notifies).
HistoryOK(s) == \A k \in Channels : \A i \in 1..Len(posts[s][k]) :
                  posts[s][k][i].new \in releases[s]

HistoryHoldsAnnounced ==
  HasStore /\ "record" \notin Faults => \A s \in Services : HistoryOK(s)

\* Once a call of Stop has returned the process writes nothing to the store and
\* announces nothing: the owner may close the store (Stop waits for d.stopped,
\* which Start closes after wg.Wait of its last poll).
NoEffectsAfterStop ==
  [][(\E c \in Stoppers : stopper[c] = "returned") => UNCHANGED <<kv, releases, posts>>
       ]_vars

\* A channel that fails does not deprive the others: between two announcements
\* of a service all sound channels have been told the same changes
\* (MultiNotifier.Notify goes on after an error).
SoundChannelsAgree ==
  Faults \cap {"cancel", "crash"} = {} =>
    \A s \in Services : job[s].pc # "post" =>
      \A k, l \in Channels \ FlakyChannels : posts[s][k] = posts[s][l]

\* A service with a stored baseline is never taken for one seen for the first
\* time: what was published while the process was down is announced as a change
\* after the restart (loadKnownVersions runs before the first poll).
Remembered(s) == IF job[s].pc = "setkv" THEN job[s].old = None => kv[s] = None
                                        ELSE known[s] = None => kv[s] = None

BaselineRemembered ==
  HasStore /\ "kv_read" \notin Faults /\ pc \notin {"off", "load"} =>
    \A s \in Services : Remembered(s)

-----------------------------------------------------------------------------
(* Why these hold: the inductive invariant. *)

\* A goroutine of a poll owns the entry of its service: from its swap to its
\* end d.known holds its tag, and it announces only what it has recorded.
JobOK(s) ==
  /\ job[s].pc \in {"none", "fetch", "swap"} => job[s].old = None
  /\ job[s].pc \in {"swap", "setkv", "record", "post"} => job[s].tag \in Tags
  /\ job[s].pc \in {"setkv", "record", "post"} => known[s] = job[s].tag
  /\ job[s].pc \in {"setkv", "record"} => HasStore
  /\ job[s].pc = "post" =>
       /\ IsNew(job[s]) /\ job[s].ch \in Channels
       /\ HasStore /\ "record" \notin Faults => job[s].tag \in releases[s]

\* Goroutines live only inside poll, memory only inside a process, and a call
\* of Stop returns only when the process is done.
ProcessOK ==
  /\ pc # "poll" => JobsDone
  /\ pc \in {"off", "load"} => known = [s \in Services |-> None]
  /\ \A c \in Stoppers : stopper[c] = "returned" => pc = "exited"

\* The inductive invariant: with it every step of checkService and of the loop
\* preserves DurableBaseline and HistoryHoldsAnnounced.
IndInv == /\ TypeOK
          /\ \A s \in Services : JobOK(s)
          /\ ProcessOK
          /\ DurableBaseline
          /\ HistoryHoldsAnnounced

-----------------------------------------------------------------------------
(* A channel sees the abstract announcements. *)

\* The announcement of s to the reader is still to come.
Owes(s) == /\ IsNew(job[s])
           /\ \/ job[s].pc \in {"setkv", "record"}
              \/ job[s].pc = "post" /\ job[s].ch <= Reader

Lossy == Faults \cap {"kv_read", "cancel", "crash"} # {} \/ Reader \in FlakyChannels

UpTo(tag) == [s \in Services |-> IF Owes(s) THEN job[s].old ELSE tag[s]]
Heard == [s \in Services |-> posts[s][Reader]]

\* Over the life of the store, across restarts: SetKV is the observation.
Durable == INSTANCE ReleaseAnnouncements WITH
  MayMiss <- Lossy, latest <- kv, base <- UpTo(kv), events <- Heard

\* Within one process: the swap of d.known is the observation.
InMemory == INSTANCE ReleaseAnnouncements WITH
  MayMiss <- Reader \in FlakyChannels, latest <- known, base <- UpTo(known), events <- Heard

\* The reader is told every release the store has seen, once, in order and as a
\* chain, across stops and restarts; where losses are possible a change may be
\* lost but is never told twice (the order SetKV, RecordRelease, Notify, and
\* the barrier wg.Wait between polls).
DurableAnnouncements == Durable!ASpec

\* The same within one process, whatever the store does or with none at all: as long
\* as its context lives, a process loses nothing it owes to a sound channel, and only
\* what it owed when it crashed or was cancelled goes unannounced (checkService logs
\* the errors of SetKV and RecordRelease and goes on to Notify).
Polling == pc \in {"poll", "idle"} /\ pc' # "off" /\ ~ctxDone

InMemoryAnnouncements == [][Polling => InMemory!ANext]_(InMemory!avars)

\* What the reader was told can be replayed: every announcement is a real change
\* (isNew), and without losses each starts where the one before it ended.
Replayable == Durable!RealChanges /\ Durable!Chained

\* What is owed to the reader is told or lost, in the end.
AnnouncementsSettle == Durable!Settled

-----------------------------------------------------------------------------
(* Liveness *)

\* Stop returns, whatever the poll in progress was doing and however many
\* goroutines call it (Stop: "Safe to call multiple times").
StopReturns == \A c \in Stoppers : stopper[c] = "waiting" ~> stopper[c] # "waiting"

StaysUp == Up /\ mode = "loop" /\ ~ctxDone

InSync(s) == /\ known[s] = upstream[s]
             /\ HasStore => kv[s] = upstream[s] /\ upstream[s] \in releases[s]

\* A process that stays up brings memory, baseline and history in line with the
\* upstream, whatever failed before: a lost SetKV or RecordRelease is made good
\* by a later poll, because both are done on every poll (checkService).
Converges == <>[]StaysUp => \A s \in Supported : <>[]InSync(s)
=============================================================================
