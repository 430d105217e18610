---------------------------- MODULE DaemonProofs ----------------------------
(* Theorems about the daemon, for every set of services and tags, any       *)
(* number of channels, any faults and any bounds.                           *)
EXTENDS DaemonProperties, TLAPS

USE DEF FaultKinds

\* Every initial state satisfies the inductive invariant.
LEMMA InitIndInv == Init => IndInv
<1> USE DaemonAssumption DEF DaemonAssumption
<1> SUFFICES ASSUME Init PROVE IndInv
  OBVIOUS
<1>1. TypeOK
  <2>1. ControlTypeOK
    BY DEF Init, ControlTypeOK
  <2>2. NoJob \in Job
    BY DEF NoJob, Job
  <2>3. \A s \in Services : posts[s] \in [Channels -> Seq(Change)]
    BY DEF Init
  <2>4. FlagTypeOK
    BY Zenon DEF Init, FlagTypeOK
  <2> QED BY <2>1, <2>2, <2>3, <2>4 DEF Init, TypeOK
<1>2. \A s \in Services : JobOK(s)
  BY DEF Init, JobOK, NoJob
<1>3. ProcessOK
  BY DEF Init, ProcessOK, JobsDone, NoJob
<1>4. DurableBaseline /\ HistoryHoldsAnnounced
  BY DEF Init, DurableBaseline, BaselineOK, HistoryHoldsAnnounced, HistoryOK, NoJob
<1> QED BY <1>1, <1>2, <1>3, <1>4 DEF IndInv

\* A step that leaves the control variables alone keeps their types.
LEMMA ControlFrame ==
  ASSUME FlagTypeOK, ControlTypeOK, UNCHANGED control
  PROVE  FlagTypeOK' /\ ControlTypeOK'
<1>1. FlagTypeOK'
  BY Zenon DEF FlagTypeOK, control, signals
<1>2. ControlTypeOK'
  BY DEF ControlTypeOK, control, process, signals
<1> QED BY <1>1, <1>2

-----------------------------------------------------------------------------
(* Steps outside checkService. *)

\* The upstream is not mentioned by the invariant, but for its type.
LEMMA PublishInv ==
  ASSUME IndInv, NEW s \in Services, NEW t \in Tags, Publish(s, t)
  PROVE  IndInv'
<1> USE DaemonAssumption DEF DaemonAssumption, IndInv, Publish, store, control, work, process, signals
<1>1. TypeOK'
  <2>1. FlagTypeOK' /\ ControlTypeOK'
    BY ControlFrame DEF TypeOK
  <2> QED BY <2>1 DEF TypeOK
<1>2. \A r \in Services : JobOK(r)'
  BY DEF JobOK, IsNew
<1>3. ProcessOK'
  BY DEF ProcessOK, JobsDone
<1>4. DurableBaseline' /\ HistoryHoldsAnnounced'
  BY DEF DurableBaseline, BaselineOK, HistoryHoldsAnnounced, HistoryOK
<1> QED BY <1>1, <1>2, <1>3, <1>4

\* A process starts with an empty memory and no goroutine.
LEMMA LaunchInv ==
  ASSUME IndInv, NEW m \in {"loop", "once"}, Launch(m)
  PROVE  IndInv'
<1> USE DaemonAssumption DEF DaemonAssumption, IndInv, Launch, env, store
<1>1. TypeOK'
  <2>1. ControlTypeOK'
    BY DEF TypeOK, ControlTypeOK
  <2>2. FlagTypeOK'
    BY Zenon DEF FlagTypeOK
  <2> QED BY <2>1, <2>2 DEF TypeOK
<1>2. \A r \in Services : JobOK(r)'
  BY DEF JobOK, IsNew, ProcessOK, JobsDone
<1>3. ProcessOK'
  BY DEF ProcessOK, JobsDone
<1>4. DurableBaseline' /\ HistoryHoldsAnnounced'
  BY DEF DurableBaseline, BaselineOK, HistoryHoldsAnnounced, HistoryOK
<1> QED BY <1>1, <1>2, <1>3, <1>4

\* loadKnownVersions copies the store, so what it loads is durable.
LEMMA BeginInv ==
  ASSUME IndInv, NEW unread \in SUBSET Services, Begin(unread)
  PROVE  IndInv'
<1> USE DaemonAssumption
    DEF DaemonAssumption, IndInv, Begin, Poll, env, store, process, signals, NoJob
<1>1. TypeOK'
  <2>1. FlagTypeOK'
    BY Zenon DEF TypeOK, FlagTypeOK
  <2>2. ControlTypeOK'
    BY DEF TypeOK, ControlTypeOK
  <2> QED BY <2>1, <2>2 DEF TypeOK, Job
<1>2. \A r \in Services : JobOK(r)'
  BY DEF JobOK, IsNew
<1>3. ProcessOK'
  BY DEF ProcessOK
<1>4. DurableBaseline'
  <2> SUFFICES ASSUME NEW s \in Services, HasStore, known'[s] # None
               PROVE  job'[s].pc # "setkv" /\ kv'[s] = known'[s]
    BY DEF DurableBaseline, BaselineOK
  <2> QED BY DEF ProcessOK, TypeOK
<1>5. HistoryHoldsAnnounced'
  BY DEF HistoryHoldsAnnounced, HistoryOK
<1> QED BY <1>1, <1>2, <1>3, <1>4, <1>5

\* A tick starts the goroutines of the next poll; the memory stays.
LEMMA TickInv == ASSUME IndInv, Tick PROVE IndInv'
<1> USE DaemonAssumption
    DEF DaemonAssumption, IndInv, Tick, Poll, env, store, process, signals, NoJob
<1>1. TypeOK'
  <2>1. FlagTypeOK'
    BY Zenon DEF TypeOK, FlagTypeOK
  <2>2. ControlTypeOK'
    BY DEF TypeOK, ControlTypeOK
  <2> QED BY <2>1, <2>2 DEF TypeOK, Job
<1>2. \A r \in Services : JobOK(r)'
  BY DEF JobOK, IsNew
<1>3. ProcessOK'
  BY DEF ProcessOK
<1>4. DurableBaseline'
  BY DEF DurableBaseline, BaselineOK, ProcessOK, JobsDone
<1>5. HistoryHoldsAnnounced'
  BY DEF HistoryHoldsAnnounced, HistoryOK
<1> QED BY <1>1, <1>2, <1>3, <1>4, <1>5

-----------------------------------------------------------------------------
(* checkService. *)

\* A step of one goroutine: the invariant holds after it if it holds for the
\* service of the goroutine and nothing of another service has changed.
LEMMA OneJobMoves ==
  ASSUME IndInv, NEW s \in Services, NEW j \in Job,
         job[s].pc # "none", job' = [job EXCEPT ![s] = j],
         UNCHANGED <<env, control>>,
         known' \in [Services -> Tags \cup {None}],
         kv' \in [Services -> Tags \cup {None}],
         releases' \in [Services -> SUBSET Tags],
         posts' \in [Services -> [Channels -> Seq(Change)]],
         \A r \in Services \ {s} : /\ known'[r] = known[r] /\ kv'[r] = kv[r]
                                   /\ releases'[r] = releases[r] /\ posts'[r] = posts[r],
         JobOK(s)',
         HasStore /\ "kv_write" \notin Faults => BaselineOK(s)',
         HasStore /\ "record" \notin Faults => HistoryOK(s)'
  PROVE  IndInv'
<1>0. job \in [Services -> Job] /\ pc = "poll"
  BY DEF IndInv, TypeOK, ProcessOK, JobsDone
<1>1. TypeOK'
  <2>1. FlagTypeOK' /\ ControlTypeOK'
    BY ControlFrame DEF IndInv, TypeOK
  <2> QED BY <1>0, <2>1 DEF IndInv, TypeOK, env
<1>2. ASSUME NEW r \in Services, r # s
      PROVE  job'[r] = job[r]
  BY <1>0, <1>2
<1>3. \A r \in Services : JobOK(r)'
  <2> SUFFICES ASSUME NEW r \in Services, r # s PROVE JobOK(r)'
    OBVIOUS
  <2>1. JobOK(r)
    BY DEF IndInv
  <2>2. job'[r] = job[r] /\ known'[r] = known[r] /\ releases'[r] = releases[r]
    BY <1>2
  <2> QED BY <2>1, <2>2 DEF JobOK, IsNew
<1>4. ProcessOK'
  BY <1>0 DEF IndInv, ProcessOK, control, signals
<1>5. DurableBaseline'
  <2> SUFFICES ASSUME HasStore, "kv_write" \notin Faults, NEW r \in Services, r # s
               PROVE  BaselineOK(r)'
    BY DEF DurableBaseline
  <2> QED BY <1>2 DEF IndInv, DurableBaseline, BaselineOK
<1>6. HistoryHoldsAnnounced'
  <2> SUFFICES ASSUME HasStore, "record" \notin Faults, NEW r \in Services, r # s
               PROVE  HistoryOK(r)'
    BY DEF HistoryHoldsAnnounced
  <2> QED BY DEF IndInv, HistoryHoldsAnnounced, HistoryOK
<1> QED BY <1>1, <1>3, <1>4, <1>5, <1>6 DEF IndInv

\* NoJob is a job, and one that owes nothing.
LEMMA NoJobType == NoJob \in Job
  BY DaemonAssumption DEF DaemonAssumption, NoJob, Job

\* The end of the store part of checkService: announce, or be done.
LEMMA NotifyingType ==
  ASSUME NEW j \in Job
  PROVE  /\ Notifying(j) \in Job
         /\ Notifying(j).pc = "none" => Notifying(j) = NoJob
         /\ Notifying(j).pc # "none" =>
              /\ Notifying(j).pc = "post" /\ Notifying(j).ch = 1 /\ 1 \in Channels
              /\ Notifying(j).old = j.old /\ Notifying(j).tag = j.tag /\ IsNew(j)
<1>1. CASE IsNew(j) /\ NumChannels > 0
  <2>1. Notifying(j) = [j EXCEPT !.pc = "post", !.ch = 1]
    BY <1>1 DEF Notifying
  <2>2. 1 \in Channels /\ 1 \in 0..NumChannels
    BY <1>1, DaemonAssumption DEF DaemonAssumption, Channels
  <2> QED BY <1>1, <2>1, <2>2 DEF Job
<1>2. CASE ~(IsNew(j) /\ NumChannels > 0)
  <2>1. Notifying(j) = NoJob
    BY <1>2 DEF Notifying
  <2> QED BY <2>1, NoJobType DEF NoJob
<1> QED BY <1>1, <1>2

\* The answer of the provider is put aside; a failure ends the job.
LEMMA FetchInv ==
  ASSUME IndInv, NEW s \in Services, FetchOK(s) \/ FetchFail(s)
  PROVE  IndInv'
<1>0. PICK j \in Job : /\ job' = [job EXCEPT ![s] = j]
                       /\ j = NoJob \/ (j.pc = "swap" /\ j.old = None /\ j.tag = upstream[s])
  <2>1. CASE FetchOK(s)
    <3> DEFINE j == [job[s] EXCEPT !.pc = "swap", !.tag = upstream[s]]
    <3>1. job[s] \in Job /\ job[s].old = None /\ upstream[s] \in Tags
      BY <2>1 DEF IndInv, TypeOK, JobOK, FetchOK
    <3>2. j \in Job /\ j.pc = "swap" /\ j.old = None /\ j.tag = upstream[s]
      BY <3>1 DEF Job
    <3> QED BY <2>1, <3>2 DEF FetchOK
  <2>2. CASE FetchFail(s)
    BY <2>2, NoJobType DEF FetchFail
  <2> QED BY <2>1, <2>2
<1>1. job'[s] = j
  BY <1>0 DEF IndInv, TypeOK
<1>2. job[s].pc = "fetch" /\ UNCHANGED <<env, store, control, known, posts>>
  BY DEF FetchOK, FetchFail
<1>3. JobOK(s)'
  BY <1>0, <1>1 DEF JobOK, NoJob, IndInv, TypeOK
<1>4. HasStore /\ "kv_write" \notin Faults => BaselineOK(s)'
  BY <1>0, <1>1, <1>2 DEF IndInv, DurableBaseline, BaselineOK, NoJob, store
<1>5. HasStore /\ "record" \notin Faults => HistoryOK(s)'
  BY <1>2 DEF IndInv, HistoryHoldsAnnounced, HistoryOK, store
<1> QED BY <1>0, <1>2, <1>3, <1>4, <1>5, OneJobMoves DEF IndInv, TypeOK, store

\* The swap takes the entry of the service over; with a store the job owes it
\* the tag, without one it goes on to announce.
LEMMA SwapInv ==
  ASSUME IndInv, NEW s \in Services, Swap(s)
  PROVE  IndInv'
<1> DEFINE j == Swapped(s, IF HasStore THEN "setkv" ELSE "swap")
           next == IF HasStore THEN j ELSE Notifying(j)
<1>0. /\ job[s] \in Job /\ job[s].pc = "swap" /\ job[s].old = None /\ job[s].tag \in Tags
      /\ known[s] \in Tags \cup {None}
  BY DEF IndInv, TypeOK, JobOK, Swap
<1>1. /\ j \in Job /\ j.tag = job[s].tag /\ j.old = known[s]
      /\ HasStore => j.pc = "setkv"
  BY <1>0 DEF Swapped, Job
<1>2. /\ job' = [job EXCEPT ![s] = next]
      /\ known' = [known EXCEPT ![s] = job[s].tag]
      /\ UNCHANGED <<env, store, control, posts>>
  BY Zenon DEF Swap
<1>3. next \in Job
  BY <1>1, NotifyingType
<1>4. /\ job'[s] = next /\ known'[s] = job[s].tag
      /\ known' \in [Services -> Tags \cup {None}]
      /\ \A r \in Services \ {s} : known'[r] = known[r]
  BY <1>0, <1>2 DEF IndInv, TypeOK
<1>5. JobOK(s)'
  <2>1. CASE HasStore
    BY <1>0, <1>1, <1>4, <2>1 DEF JobOK
  <2>2. CASE ~HasStore
    <3>1. next = Notifying(j)
      BY <2>2
    <3>2. CASE next = NoJob
      BY <1>4, <3>2 DEF JobOK, NoJob
    <3>3. CASE next # NoJob
      BY <1>0, <1>1, <1>4, <2>2, <3>1, <3>3, NotifyingType DEF JobOK, IsNew
    <3> QED BY <3>2, <3>3
  <2> QED BY <2>1, <2>2
<1>6. HasStore /\ "kv_write" \notin Faults => BaselineOK(s)'
  <2> SUFFICES ASSUME HasStore, "kv_write" \notin Faults PROVE BaselineOK(s)'
    OBVIOUS
  <2>1. BaselineOK(s) /\ job'[s].pc = "setkv" /\ job'[s].old = known[s] /\ kv'[s] = kv[s]
    BY <1>1, <1>2, <1>4 DEF IndInv, DurableBaseline, store
  <2> QED BY <1>0, <2>1 DEF BaselineOK
<1>7. HasStore /\ "record" \notin Faults => HistoryOK(s)'
  BY <1>2 DEF IndInv, HistoryHoldsAnnounced, HistoryOK, store
<1> QED BY <1>0, <1>2, <1>3, <1>4, <1>5, <1>6, <1>7, OneJobMoves DEF IndInv, TypeOK, store

\* SetKV pays the store what the swap owed it, if it succeeds.
LEMMA SetKVInv ==
  ASSUME IndInv, NEW s \in Services, NEW ok \in BOOLEAN, SetKV(s, ok)
  PROVE  IndInv'
<1>0. job[s] \in Job /\ job[s].pc = "setkv" /\ job[s].tag \in Tags /\ known[s] = job[s].tag
  BY DEF IndInv, TypeOK, JobOK, SetKV, SetKVStep
<1>1. /\ job' = [job EXCEPT ![s] = Recording(s)]
      /\ kv' \in {kv, [kv EXCEPT ![s] = job[s].tag]}
      /\ "kv_write" \notin Faults => kv' = [kv EXCEPT ![s] = job[s].tag]
      /\ UNCHANGED <<env, releases, control, known, posts>>
  BY DEF SetKV, SetKVStep
<1>2. Recording(s) \in Job /\ Recording(s) = [job[s] EXCEPT !.pc = "record"]
  BY <1>0 DEF Recording, Job
<1>3. /\ job'[s] = [job[s] EXCEPT !.pc = "record"] /\ job'[s].pc = "record"
      /\ kv' \in [Services -> Tags \cup {None}]
      /\ \A r \in Services \ {s} : kv'[r] = kv[r]
      /\ "kv_write" \notin Faults => kv'[s] = job[s].tag
  BY <1>0, <1>1, <1>2 DEF IndInv, TypeOK, Job
<1>4. JobOK(s)'
  BY <1>0, <1>1, <1>3 DEF IndInv, JobOK, Job
<1>5. HasStore /\ "kv_write" \notin Faults => BaselineOK(s)'
  BY <1>0, <1>1, <1>3 DEF BaselineOK
<1>6. HasStore /\ "record" \notin Faults => HistoryOK(s)'
  BY <1>1 DEF IndInv, HistoryHoldsAnnounced, HistoryOK
<1> QED BY <1>0, <1>1, <1>2, <1>3, <1>4, <1>5, <1>6, OneJobMoves DEF IndInv, TypeOK

\* What is recorded may be announced.
LEMMA RecordInv ==
  ASSUME IndInv, NEW s \in Services, NEW ok \in BOOLEAN, RecordRelease(s, ok)
  PROVE  IndInv'
<1> DEFINE next == Notifying(job[s])
<1>0. job[s] \in Job /\ job[s].pc = "record" /\ job[s].tag \in Tags /\ known[s] = job[s].tag
  BY DEF IndInv, TypeOK, JobOK, RecordRelease, RecordStep
<1>1. /\ job' = [job EXCEPT ![s] = next]
      /\ releases' \in {releases, [releases EXCEPT ![s] = @ \cup {job[s].tag}]}
      /\ "record" \notin Faults => releases' = [releases EXCEPT ![s] = @ \cup {job[s].tag}]
      /\ UNCHANGED <<env, kv, control, known, posts>>
  BY DEF RecordRelease, RecordStep
<1>2. next \in Job
  BY <1>0, NotifyingType
<1>3. /\ job'[s] = next
      /\ releases' \in [Services -> SUBSET Tags]
      /\ \A r \in Services \ {s} : releases'[r] = releases[r]
      /\ releases[s] \subseteq releases'[s]
      /\ "record" \notin Faults => job[s].tag \in releases'[s]
  <2>1. job \in [Services -> Job] /\ releases \in [Services -> SUBSET Tags]
    BY DEF IndInv, TypeOK
  <2>2. job'[s] = next
    BY <1>1, <2>1
  <2>3. CASE releases' = releases /\ "record" \in Faults
    BY <2>1, <2>2, <2>3
  <2>4. CASE releases' = [releases EXCEPT ![s] = @ \cup {job[s].tag}]
    BY <1>0, <2>1, <2>2, <2>4
  <2> QED BY <1>1, <2>3, <2>4
<1>4. JobOK(s)' /\ job'[s].pc # "setkv"
  <2>1. CASE next = NoJob
    BY <1>3, <2>1 DEF JobOK, NoJob
  <2>2. CASE next # NoJob
    BY <1>0, <1>1, <1>3, <2>2, NotifyingType DEF JobOK, IsNew
  <2> QED BY <2>1, <2>2
<1>5. HasStore /\ "kv_write" \notin Faults => BaselineOK(s)'
  BY <1>0, <1>1, <1>4 DEF IndInv, DurableBaseline, BaselineOK
<1>6. HasStore /\ "record" \notin Faults => HistoryOK(s)'
  BY <1>1, <1>3 DEF IndInv, HistoryHoldsAnnounced, HistoryOK
<1> QED BY <1>0, <1>1, <1>2, <1>3, <1>4, <1>5, <1>6, OneJobMoves DEF IndInv, TypeOK

\* The tail of the fan-out: the next channel with the same change, or the end.
LEMMA NextChannelType ==
  ASSUME NEW j \in Job, j.pc = "post", j.ch \in Channels
  PROVE  LET n == NextChannel(j, NumChannels) IN
           /\ n \in Job
           /\ n = NoJob \/ (/\ n.pc = "post" /\ n.old = j.old /\ n.tag = j.tag
                            /\ n.ch \in Channels /\ n.ch = j.ch + 1)
           /\ n = NoJob <=> j.ch = NumChannels
<1> USE DaemonAssumption DEF DaemonAssumption
<1>1. CASE j.ch < NumChannels
  <2>1. NextChannel(j, NumChannels) = [j EXCEPT !.ch = j.ch + 1]
    BY <1>1 DEF NextChannel
  <2>2. j.ch + 1 \in Channels /\ j.ch + 1 \in 0..NumChannels
    BY <1>1 DEF Channels
  <2> QED BY <1>1, <2>1, <2>2 DEF Job, NoJob
<1>2. CASE ~(j.ch < NumChannels)
  <2>1. NextChannel(j, NumChannels) = NoJob /\ j.ch = NumChannels
    BY <1>2 DEF NextChannel, Channels
  <2> QED BY <2>1, NoJobType
<1> QED BY <1>1, <1>2

\* An announcement names a release that the history holds.
LEMMA NotifyInv ==
  ASSUME IndInv, NEW s \in Services, NEW delivered \in BOOLEAN, Notify(s, delivered)
  PROVE  IndInv'
<1> DEFINE next == NextChannel(job[s], NumChannels)
           k == job[s].ch
           told == [old |-> job[s].old, new |-> job[s].tag]
           row == [posts[s] EXCEPT ![k] = Append(posts[s][k], told)]
<1>0. /\ job[s] \in Job /\ job[s].pc = "post" /\ job[s].tag \in Tags /\ known[s] = job[s].tag
      /\ job[s].old \in Tags /\ IsNew(job[s]) /\ k \in Channels
      /\ HasStore /\ "record" \notin Faults => job[s].tag \in releases[s]
  BY DEF IndInv, TypeOK, JobOK, Notify, NotifyStep, Job, IsNew
<1>1. /\ job' = [job EXCEPT ![s] = next]
      /\ posts' = posts \/ posts' = [posts EXCEPT ![s] = row]
      /\ UNCHANGED <<env, store, control, known>>
  BY DEF Notify, NotifyStep
<1>2. /\ next \in Job
      /\ next = NoJob \/ (/\ next.pc = "post" /\ next.ch \in Channels
                          /\ next.old = job[s].old /\ next.tag = job[s].tag)
  BY <1>0, NextChannelType
<1>3. told \in Change
  BY <1>0 DEF Change
<1>4. /\ job'[s] = next
      /\ posts' \in [Services -> [Channels -> Seq(Change)]]
      /\ \A r \in Services \ {s} : posts'[r] = posts[r]
      /\ posts'[s] = posts[s] \/ posts'[s] = row
  <2>1. posts[s] \in [Channels -> Seq(Change)] /\ posts \in [Services -> [Channels -> Seq(Change)]]
    BY DEF IndInv, TypeOK
  <2>2. Append(posts[s][k], told) \in Seq(Change)
    BY <1>0, <1>3, <2>1
  <2>3. row \in [Channels -> Seq(Change)]
    BY <2>1, <2>2
  <2>4. job'[s] = next
    BY <1>1 DEF IndInv, TypeOK
  <2> HIDE DEF row, next, told
  <2> QED BY <1>1, <2>1, <2>3, <2>4
<1>5. JobOK(s)' /\ job'[s].pc # "setkv"
  <2>1. known' = known /\ releases' = releases /\ job'[s] = next
    BY <1>1, <1>4 DEF store
  <2> HIDE DEF next
  <2>2. CASE next = NoJob
    BY <2>1, <2>2 DEF JobOK, NoJob
  <2>3. CASE next # NoJob
    BY <1>0, <1>2, <2>1, <2>3 DEF JobOK, IsNew
  <2> QED BY <2>2, <2>3
<1>6. HasStore /\ "kv_write" \notin Faults => BaselineOK(s)'
  BY <1>0, <1>1, <1>5 DEF IndInv, DurableBaseline, BaselineOK, store
<1>7. HasStore /\ "record" \notin Faults => HistoryOK(s)'
  <2> SUFFICES ASSUME HasStore, "record" \notin Faults,
                      NEW c \in Channels, NEW i \in 1..Len(posts'[s][c])
               PROVE  posts'[s][c][i].new \in releases'[s]
    BY DEF HistoryOK
  <2>1. HistoryOK(s) /\ releases' = releases
    BY <1>1 DEF IndInv, HistoryHoldsAnnounced, store
  <2>2. CASE posts'[s][c] = posts[s][c]
    BY <2>1, <2>2 DEF HistoryOK
  <2>3. CASE posts'[s][c] # posts[s][c]
    <3>1. c = k /\ posts'[s][c] = Append(posts[s][c], told)
      <4>1. posts'[s] = row /\ DOMAIN posts[s] = Channels
        BY <1>4, <2>3 DEF IndInv, TypeOK
      <4> HIDE DEF told
      <4>2. posts'[s][c] = IF c = k THEN Append(posts[s][k], told) ELSE posts[s][c]
        BY <4>1
      <4> QED BY <2>3, <4>2
    <3>2. posts[s][c] \in Seq(Change)
      BY DEF IndInv, TypeOK
    <3> DEFINE old == posts[s][c]   new == posts'[s][c]
    <3>3. told.new \in releases[s] /\ \A j \in 1..Len(old) : old[j].new \in releases[s]
      BY <1>0, <2>1 DEF HistoryOK
    <3>4. i \in 1..Len(new) /\ new = Append(old, told) /\ old \in Seq(Change)
      BY <3>1, <3>2
    <3> HIDE DEF old, new, told
    <3>5. (i \in 1..Len(old) /\ new[i] = old[i]) \/ new[i] = told
      BY <3>4
    <3> QED BY <2>1, <3>3, <3>5 DEF new
  <2> QED BY <2>2, <2>3
<1> QED BY <1>0, <1>1, <1>2, <1>4, <1>5, <1>6, <1>7, OneJobMoves DEF IndInv, TypeOK, store

-----------------------------------------------------------------------------
(* The loop of Start, and the calls that end it. *)

\* Steps that move only the control: no goroutine, no store, no announcement.
LEMMA ControlMoves ==
  ASSUME IndInv, UNCHANGED <<env, store, work>>, FlagTypeOK', ControlTypeOK', ProcessOK'
  PROVE  IndInv'
<1>1. TypeOK'
  BY DEF IndInv, TypeOK, env, store, work
<1>2. \A s \in Services : JobOK(s)'
  BY DEF IndInv, JobOK, IsNew, store, work
<1>3. DurableBaseline' /\ HistoryHoldsAnnounced'
  BY DEF IndInv, DurableBaseline, BaselineOK, HistoryHoldsAnnounced, HistoryOK, store, work
<1> QED BY <1>1, <1>2, <1>3 DEF IndInv

\* The poll ends, or Start returns.
LEMMA LoopInv == ASSUME IndInv, PollDone \/ SelectStop PROVE IndInv'
<1>1. /\ UNCHANGED <<env, store, process, signals, work>>
      /\ pc' \in {"idle", "exited"} /\ pc \notin {"off", "load"} /\ JobsDone
      /\ pc # "exited"
  BY DEF PollDone, SelectStop, GoTo, IndInv, ProcessOK
<1>2. FlagTypeOK'
  BY <1>1, Zenon DEF IndInv, TypeOK, FlagTypeOK, signals
<1>3. ControlTypeOK'
  BY <1>1 DEF IndInv, TypeOK, ControlTypeOK, signals, process
<1>4. ProcessOK'
  BY <1>1 DEF IndInv, ProcessOK, JobsDone, signals, work
<1> QED BY <1>1, <1>2, <1>3, <1>4, ControlMoves

\* A call of Stop begins, or returns after Start has.
LEMMA StopInv == ASSUME IndInv, NEW c \in Stoppers, Stop(c) \/ StopReturn(c) PROVE IndInv'
<1>1. /\ UNCHANGED <<env, store, process, pc, ctxDone, work>>
      /\ \/ stopper' = [stopper EXCEPT ![c] = "waiting"]
         \/ pc = "exited" /\ stopper' = [stopper EXCEPT ![c] = "returned"]
  BY DEF Stop, StopReturn
<1>2. FlagTypeOK'
  BY Zenon DEF IndInv, TypeOK, FlagTypeOK, Stop, StopReturn
<1>3. ControlTypeOK'
  BY <1>1 DEF IndInv, TypeOK, ControlTypeOK, process
<1>4. ProcessOK'
  <2>1. pc' # "poll" => JobsDone'
    BY <1>1 DEF IndInv, ProcessOK, JobsDone, work
  <2>2. pc' \in {"off", "load"} => known' = [s \in Services |-> None]
    BY <1>1 DEF IndInv, ProcessOK, work
  <2>3. \A d \in Stoppers : stopper'[d] = "returned" => pc' = "exited"
    BY <1>1 DEF IndInv, ProcessOK, TypeOK, ControlTypeOK
  <2> QED BY <2>1, <2>2, <2>3 DEF ProcessOK
<1> QED BY <1>1, <1>2, <1>3, <1>4, ControlMoves

\* The context ends.
LEMMA CancelInv == ASSUME IndInv, Cancel PROVE IndInv'
<1>1. UNCHANGED <<env, store, process, pc, stopReq, stopper, work>> /\ ctxDone' = TRUE
  BY Zenon DEF Cancel
<1>2. FlagTypeOK'
  BY <1>1, Zenon DEF IndInv, TypeOK, FlagTypeOK
<1>3. ControlTypeOK' /\ ProcessOK'
  BY <1>1 DEF IndInv, TypeOK, ControlTypeOK, ProcessOK, JobsDone, process, work
<1> QED BY <1>1, <1>2, <1>3, ControlMoves

\* A crash leaves an empty memory and no goroutine: nothing is owed.
LEMMA CrashInv == ASSUME IndInv, Crash PROVE IndInv'
<1> USE DEF IndInv, Crash, env, store, process
<1>1. TypeOK'
  <2>1. FlagTypeOK'
    BY Zenon DEF TypeOK, FlagTypeOK
  <2>2. ControlTypeOK'
    BY DEF TypeOK, ControlTypeOK
  <2> QED BY <2>1, <2>2, NoJobType DEF TypeOK
<1>2. \A s \in Services : JobOK(s)'
  BY DEF JobOK, NoJob
<1>3. ProcessOK'
  BY DEF ProcessOK, JobsDone, NoJob
<1>4. DurableBaseline' /\ HistoryHoldsAnnounced'
  BY DEF DurableBaseline, BaselineOK, HistoryHoldsAnnounced, HistoryOK
<1> QED BY <1>1, <1>2, <1>3, <1>4

\* Every step preserves the inductive invariant.
LEMMA NextIndInv == IndInv /\ [Next]_vars => IndInv'
<1> SUFFICES ASSUME IndInv, [Next]_vars PROVE IndInv'
  OBVIOUS
<1>1. CASE \E s \in Services, t \in Tags : Publish(s, t)
  BY <1>1, PublishInv
<1>2. CASE \E m \in {"loop", "once"} : Launch(m)
  BY <1>2, LaunchInv
<1>3. CASE \E unread \in SUBSET Services : Begin(unread)
  BY <1>3, BeginInv
<1>4. CASE Tick
  BY <1>4, TickInv
<1>5. CASE PollDone \/ SelectStop
  BY <1>5, LoopInv
<1>6. CASE Cancel
  BY <1>6, CancelInv
<1>7. CASE Crash
  BY <1>7, CrashInv
<1>8. CASE \E s \in Services : JobStep(s)
  BY <1>8, FetchInv, SwapInv, SetKVInv, RecordInv, NotifyInv DEF JobStep
<1>9. CASE \E c \in Stoppers : Stop(c) \/ StopReturn(c)
  BY <1>9, StopInv
<1>10. CASE UNCHANGED vars
  <2>1. FlagTypeOK' /\ ControlTypeOK'
    BY <1>10, ControlFrame DEF vars, IndInv, TypeOK
  <2>2. ProcessOK'
    BY <1>10 DEF vars, control, signals, work, IndInv, ProcessOK, JobsDone
  <2> QED BY <1>10, <2>1, <2>2, ControlMoves DEF vars
<1> QED BY <1>1, <1>2, <1>3, <1>4, <1>5, <1>6, <1>7, <1>8, <1>9, <1>10 DEF Next

-----------------------------------------------------------------------------
(* The theorems. *)

\* The inductive invariant holds in every reachable state.
THEOREM Invariance == Spec => []IndInv
<1> QED BY InitIndInv, NextIndInv, PTL DEF Spec

\* Type correctness.
THEOREM TypeCorrect == Spec => []TypeOK
<1>1. IndInv => TypeOK
  BY DEF IndInv
<1> QED BY <1>1, Invariance, PTL

\* While writes of the baseline succeed, the store never disagrees with the
\* memory of the process outside the window between swap and SetKV, for any
\* services and any interleaving of their goroutines, whatever else fails.
THEOREM BaselineIsDurable == Spec => []DurableBaseline
<1>1. IndInv => DurableBaseline
  BY DEF IndInv
<1> QED BY <1>1, Invariance, PTL

\* While writes of the history succeed, everything ever announced is in it,
\* across any number of crashes and restarts.
THEOREM AnnouncedIsRecorded == Spec => []HistoryHoldsAnnounced
<1>1. IndInv => HistoryHoldsAnnounced
  BY DEF IndInv
<1> QED BY <1>1, Invariance, PTL

\* After a call of Stop has returned, nothing is written and nothing announced.
THEOREM StoppedIsQuiet == Spec => NoEffectsAfterStop
<1>1. ASSUME IndInv, [Next]_vars, NEW c \in Stoppers, stopper[c] = "returned"
      PROVE  UNCHANGED <<kv, releases, posts>>
  <2>1. pc = "exited" /\ JobsDone
    BY <1>1 DEF IndInv, ProcessOK
  <2>2. ASSUME NEW s \in Services PROVE ~JobStep(s)
    BY <2>1, <2>2 DEF JobsDone, JobStep, FetchOK, FetchFail, Swap, SetKV,
       SetKVStep, RecordRelease, RecordStep, Notify, NotifyStep
  <2> QED BY <1>1, <2>1, <2>2 DEF Next, Publish, Launch, Begin, Tick, PollDone, SelectStop,
       Cancel, Crash, Up, Stop, StopReturn, vars, store, work
<1>2. IndInv /\ [Next]_vars =>
        [(\E c \in Stoppers : stopper[c] = "returned") => UNCHANGED <<kv, releases, posts>>]_vars
  BY <1>1
<1> QED BY <1>2, Invariance, PTL DEF Spec, NoEffectsAfterStop

-----------------------------------------------------------------------------
(* A failing channel does not deprive the others.                           *)

\* The channel at which the fan-out of s is; past them all where there is none.
Front(s) == IF job[s].pc = "post" THEN job[s].ch ELSE NumChannels + 1

ToldNow(s) == [old |-> job[s].old, new |-> job[s].tag]

\* Sound channels on one side of the fan-out were told the same; those behind it one
\* change more, the one it is telling.
FanOutOK(s) ==
  \A k, l \in Channels \ FlakyChannels :
    /\ (k < Front(s) <=> l < Front(s)) => posts[s][k] = posts[s][l]
    /\ k < Front(s) /\ l >= Front(s) => posts[s][k] = Append(posts[s][l], ToldNow(s))

InOneLife == Faults \cap {"cancel", "crash"} = {}

FanOutInv == InOneLife => ~ctxDone /\ \A s \in Services : FanOutOK(s)

\* A step that tells nothing either leaves a fan-out where it is or begins one.
LEMMA FanOutFrame ==
  ASSUME FanOutInv, posts' = posts, InOneLife => ~ctxDone',
         \A s \in Services :
           \/ job'[s] = job[s]
           \/ /\ job[s].pc # "post"
              /\ job'[s].pc = "post" => job'[s].ch = 1
  PROVE  FanOutInv'
<1> USE DaemonAssumption DEF DaemonAssumption
<1> SUFFICES ASSUME InOneLife, NEW s \in Services PROVE FanOutOK(s)'
  BY DEF FanOutInv, InOneLife
<1>0. FanOutOK(s)
  BY DEF FanOutInv
<1>1. CASE job'[s] = job[s]
  BY <1>0, <1>1 DEF FanOutOK, Front, ToldNow
<1>2. CASE job[s].pc # "post" /\ (job'[s].pc = "post" => job'[s].ch = 1)
  <2>1. Front(s) = NumChannels + 1 /\ Front(s)' \in {1, NumChannels + 1}
    BY <1>2 DEF Front
  <2>2. \A k \in Channels \ FlakyChannels : k \in Nat /\ 1 <= k /\ k < NumChannels + 1
    BY DEF Channels
  <2>3. \A k, l \in Channels \ FlakyChannels : posts[s][k] = posts[s][l]
    BY <1>0, <2>1, <2>2 DEF FanOutOK
  <2>4. \A k, l \in Channels \ FlakyChannels : ~(k < Front(s)' /\ l >= Front(s)')
    BY <2>1, <2>2
  <2> QED BY <2>3, <2>4 DEF FanOutOK
<1> QED BY <1>1, <1>2

\* A change told to a sound channel, or lost at a flaky one, moves the fan-out on by one.
LEMMA FanOutNotify ==
  ASSUME IndInv, FanOutInv, NEW s \in Services, NEW delivered \in BOOLEAN, Notify(s, delivered)
  PROVE  FanOutInv'
<1> USE DaemonAssumption DEF DaemonAssumption
<1> DEFINE next == NextChannel(job[s], NumChannels)
           c    == job[s].ch
<1>0. /\ job[s] \in Job /\ job[s].pc = "post" /\ c \in Channels
      /\ job \in [Services -> Job] /\ posts \in [Services -> [Channels -> Seq(Change)]]
  BY DEF IndInv, TypeOK, JobOK, Notify, NotifyStep
<1>1. /\ job' = [job EXCEPT ![s] = next] /\ ctxDone' = ctxDone
      /\ IF delivered THEN posts' = [posts EXCEPT ![s][c] = Append(posts[s][c], ToldNow(s))]
                      ELSE posts' = posts /\ (ctxDone \/ c \in FlakyChannels)
  BY Zenon DEF Notify, NotifyStep, control, signals, ToldNow
<1>2. /\ next = NoJob \/ (/\ next.pc = "post" /\ next.ch = c + 1
                          /\ next.old = job[s].old /\ next.tag = job[s].tag)
      /\ next = NoJob <=> c = NumChannels
  BY <1>0, NextChannelType
<1> SUFFICES ASSUME InOneLife PROVE ~ctxDone' /\ \A r \in Services : FanOutOK(r)'
  BY DEF FanOutInv, InOneLife
<1>3. ~ctxDone /\ \A r \in Services : FanOutOK(r)
  BY DEF FanOutInv
<1>4. ASSUME NEW r \in Services, r # s PROVE FanOutOK(r)'
  <2>1. job'[r] = job[r] /\ posts'[r] = posts[r]
    BY <1>0, <1>1, <1>4
  <2> QED BY <1>3, <2>1 DEF FanOutOK, Front, ToldNow
<1>5. FanOutOK(s)'
  <2> DEFINE sound == Channels \ FlakyChannels
  <2>1. Front(s) = c /\ Front(s)' = c + 1 /\ c \in Nat /\ \A k \in sound : k \in Nat /\ k <= NumChannels
    <3>1. job'[s] = next
      BY <1>0, <1>1
    <3>2. next = NoJob => next.pc # "post"
      BY DEF NoJob
    <3> HIDE DEF next
    <3> QED BY <1>0, <1>2, <3>1, <3>2 DEF Front, Channels
  <2>2. c # NumChannels => ToldNow(s)' = ToldNow(s)
    <3>1. job'[s] = next
      BY <1>0, <1>1
    <3> HIDE DEF next
    <3> QED BY <1>2, <3>1 DEF ToldNow
  <2>3. \A k \in sound :
          posts'[s][k] = IF k = c THEN Append(posts[s][k], ToldNow(s)) ELSE posts[s][k]
    <3> DEFINE told == ToldNow(s)
    <3>1. CASE delivered
      <4>1. posts' = [posts EXCEPT ![s] = [posts[s] EXCEPT ![c] = Append(posts[s][c], told)]]
        BY <1>1, <3>1
      <4> HIDE DEF told, c
      <4>2. posts'[s] = [posts[s] EXCEPT ![c] = Append(posts[s][c], told)]
        BY <1>0, <4>1
      <4>3. posts[s] \in [Channels -> Seq(Change)]
        BY <1>0
      <4> QED BY <4>2, <4>3 DEF told
    <3>2. CASE ~delivered
      <4>1. posts' = posts /\ c \notin sound
        BY <1>1, <1>3, <3>2, Zenon
      <4> HIDE DEF c, sound
      <4> QED BY <4>1
    <3> QED BY <3>1, <3>2
  <2>4. \A k, l \in sound :
          /\ (k < c <=> l < c) => posts[s][k] = posts[s][l]
          /\ k < c /\ l >= c => posts[s][k] = Append(posts[s][l], ToldNow(s))
    BY <1>3, <2>1 DEF FanOutOK
  <2> SUFFICES ASSUME NEW k \in sound, NEW l \in sound
               PROVE  /\ (k < c + 1 <=> l < c + 1) => posts'[s][k] = posts'[s][l]
                      /\ k < c + 1 /\ l >= c + 1 =>
                           posts'[s][k] = Append(posts'[s][l], ToldNow(s)')
    BY <2>1 DEF FanOutOK
  <2> DEFINE told == ToldNow(s)
             k0 == posts[s][k]   k1 == posts'[s][k]
             l0 == posts[s][l]   l1 == posts'[s][l]
  <2>5. /\ k1 = IF k = c THEN Append(k0, told) ELSE k0
        /\ l1 = IF l = c THEN Append(l0, told) ELSE l0
    BY <2>3
  <2>6. /\ (k < c <=> l < c) => k0 = l0
        /\ k < c /\ l >= c => k0 = Append(l0, told)
        /\ l < c /\ k >= c => l0 = Append(k0, told)
    BY <2>4
  <2>7. c \in Nat /\ k \in Nat /\ l \in Nat /\ k <= NumChannels /\ l <= NumChannels
    BY <2>1
  <2>8. l >= c + 1 => told' = told
    BY <2>2, <2>7
  <2> HIDE DEF told, k0, k1, l0, l1, c, sound
  <2>9. (k < c + 1 <=> l < c + 1) => k1 = l1
    <3>1. CASE k < c
      <4>1. CASE l < c
        BY <2>5, <2>6, <2>7, <3>1, <4>1
      <4>2. CASE l = c
        <5>1. l >= c /\ k # c
          BY <2>7, <3>1, <4>2
        <5> QED BY <2>5, <2>6, <3>1, <4>2, <5>1
      <4>3. CASE l > c
        BY <2>7, <3>1, <4>3
      <4> QED BY <2>7, <4>1, <4>2, <4>3
    <3>2. CASE k = c
      <4>1. CASE l < c
        BY <2>5, <2>6, <2>7, <3>2, <4>1
      <4>2. CASE l = c
        BY <2>5, <2>6, <2>7, <3>2, <4>2
      <4>3. CASE l > c
        BY <2>7, <3>2, <4>3
      <4> QED BY <2>7, <4>1, <4>2, <4>3
    <3>3. CASE k > c
      BY <2>5, <2>6, <2>7, <3>3
    <3> QED BY <2>7, <3>1, <3>2, <3>3
  <2>10. k < c + 1 /\ l >= c + 1 => k1 = Append(l1, told)
    BY <2>5, <2>6, <2>7
  <2> QED BY <2>8, <2>9, <2>10 DEF told, k1, l1
<1> QED BY <1>1, <1>3, <1>4, <1>5

\* Every other step tells nothing.
LEMMA FanOutStep == IndInv /\ FanOutInv /\ [Next]_vars => FanOutInv'
<1> SUFFICES ASSUME IndInv, FanOutInv, [Next]_vars PROVE FanOutInv'
  OBVIOUS
<1>1. CASE \E s \in Services, ok \in BOOLEAN : Notify(s, ok)
  BY <1>1, FanOutNotify
<1>2. InOneLife => ~ctxDone
  BY DEF FanOutInv, InOneLife
<1>3. CASE \/ \E s \in Services, t \in Tags : Publish(s, t)
           \/ PollDone \/ SelectStop \/ UNCHANGED vars
           \/ \E c \in Stoppers : Stop(c) \/ StopReturn(c)
  <2>1. UNCHANGED <<posts, job, ctxDone>>
    BY <1>3, Zenon
    DEF Publish, PollDone, SelectStop, GoTo, Stop, StopReturn, vars, control, signals, work
  <2>2. InOneLife => ~ctxDone'
    BY <1>2, <2>1, Zenon
  <2>3. posts' = posts /\ \A s \in Services : job'[s] = job[s]
    BY <2>1
  <2> QED BY <2>2, <2>3, FanOutFrame
<1>4. CASE Cancel \/ Crash
  <2>1. ~InOneLife
    BY <1>4 DEF Cancel, Crash, InOneLife
  <2> QED BY <2>1 DEF FanOutInv, InOneLife
<1>5. CASE \E m \in {"loop", "once"} : Launch(m)
  <2>1. posts' = posts /\ \A s \in Services : job'[s] = job[s]
    BY <1>5 DEF Launch
  <2>2. InOneLife => ~ctxDone'
    BY <1>5, Zenon DEF Launch
  <2> QED BY <2>1, <2>2, FanOutFrame
<1>6. CASE Tick \/ \E unread \in SUBSET Services : Begin(unread)
  <2>1. Poll /\ pc # "poll"
    BY <1>6 DEF Tick, Begin
  <2>2. posts' = posts /\ ctxDone' = ctxDone
    BY <2>1, Zenon DEF Poll, signals
  <2>3. \A s \in Services : job[s].pc # "post" /\ job'[s].pc # "post"
    BY <2>1 DEF Poll, NoJob, IndInv, ProcessOK, JobsDone
  <2>4. InOneLife => ~ctxDone'
    BY <1>2, <2>2, Zenon
  <2> QED BY <2>2, <2>3, <2>4, FanOutFrame
<1>7. ASSUME NEW s \in Services, NEW ok \in BOOLEAN,
             FetchOK(s) \/ FetchFail(s) \/ Swap(s) \/ SetKV(s, ok) \/ RecordRelease(s, ok)
      PROVE  FanOutInv'
  <2>1. posts' = posts /\ ctxDone' = ctxDone /\ job[s].pc # "post"
    BY <1>7, Zenon DEF FetchOK, FetchFail, Swap, SetKV, SetKVStep, RecordRelease, RecordStep,
       control, signals
  <2>2. job \in [Services -> Job] /\ job[s] \in Job
    BY DEF IndInv, TypeOK
  <2>3. ASSUME NEW j, job' = [job EXCEPT ![s] = j], j.pc = "post" => j.ch = 1
        PROVE  FanOutInv'
    <3>1. \A r \in Services : r # s => job'[r] = job[r]
      BY <2>2, <2>3
    <3>2. job'[s] = j
      BY <2>2, <2>3
    <3>3. InOneLife => ~ctxDone'
      BY <1>2, <2>1, Zenon
    <3> QED BY <2>1, <2>3, <3>1, <3>2, <3>3, FanOutFrame
  <2>4. ASSUME NEW j \in Job PROVE Notifying(j).pc = "post" => Notifying(j).ch = 1
    BY DEF Notifying, NoJob, Job
  <2>5. CASE FetchOK(s)
    <3> DEFINE j == [job[s] EXCEPT !.pc = "swap", !.tag = upstream[s]]
    <3>1. job' = [job EXCEPT ![s] = j]
      BY <2>5 DEF FetchOK
    <3>2. j.pc = "swap"
      BY <2>2 DEF Job
    <3> HIDE DEF j
    <3> QED BY <2>3, <3>1, <3>2
  <2>6. CASE FetchFail(s)
    BY <2>3, <2>6 DEF FetchFail, NoJob
  <2>7. CASE Swap(s)
    <3>1. /\ Swapped(s, "setkv").pc = "setkv"
          /\ Swapped(s, "swap") \in Job
      BY <2>2 DEF Swapped, Job, IndInv, TypeOK
    <3>2. CASE HasStore
      BY <2>3, <2>7, <3>1, <3>2 DEF Swap
    <3>3. CASE ~HasStore
      BY <2>3, <2>4, <2>7, <3>1, <3>3 DEF Swap
    <3> QED BY <3>2, <3>3
  <2>8. CASE SetKV(s, ok)
    <3>1. Recording(s).pc = "record"
      BY <2>2 DEF Recording, Job
    <3>2. job' = [job EXCEPT ![s] = Recording(s)]
      BY <2>8 DEF SetKV, SetKVStep
    <3> QED BY <2>3, <3>1, <3>2
  <2>9. CASE RecordRelease(s, ok)
    <3>1. job' = [job EXCEPT ![s] = Notifying(job[s])]
      BY <2>9 DEF RecordRelease, RecordStep
    <3> QED BY <2>2, <2>3, <2>4, <3>1
  <2> QED BY <1>7, <2>5, <2>6, <2>7, <2>8, <2>9
<1> QED BY <1>1, <1>3, <1>4, <1>5, <1>6, <1>7 DEF Next, JobStep

\* Between two announcements all sound channels have been told the same, for any number
\* of channels, whichever of the others fail and however often
\* (MultiNotifier.Notify goes on after an error).
THEOREM SoundChannelsAreTold == Spec => []SoundChannelsAgree
<1>1. Init => FanOutInv
  <2> USE DaemonAssumption DEF DaemonAssumption
  <2> SUFFICES ASSUME Init PROVE FanOutInv
    OBVIOUS
  <2>1. ~ctxDone
    BY Zenon DEF Init
  <2>2. ASSUME NEW s \in Services PROVE FanOutOK(s)
    <3>1. \A k \in Channels : posts[s][k] = <<>>
      BY DEF Init
    <3>2. Front(s) = NumChannels + 1
      BY DEF Init, NoJob, Front
    <3>3. \A l \in Channels : ~(l >= Front(s))
      BY <3>2 DEF Channels
    <3> QED BY <3>1, <3>3 DEF FanOutOK
  <2> QED BY <2>1, <2>2 DEF FanOutInv
<1>2. FanOutInv => SoundChannelsAgree
  <2> USE DaemonAssumption DEF DaemonAssumption
  <2> SUFFICES ASSUME FanOutInv, InOneLife, NEW s \in Services, job[s].pc # "post",
                      NEW k \in Channels \ FlakyChannels, NEW l \in Channels \ FlakyChannels
               PROVE  posts[s][k] = posts[s][l]
    BY DEF SoundChannelsAgree, InOneLife
  <2>1. k < Front(s) /\ l < Front(s)
    BY DEF Front, Channels
  <2> QED BY <2>1 DEF FanOutInv, FanOutOK
<1> QED BY <1>1, <1>2, Invariance, FanOutStep, PTL DEF Spec

-----------------------------------------------------------------------------
(* What else the refinement needs to know. *)

\* A baseline in the store is remembered: the one step that could forget it,
\* the start of a process, loads it.
LEMMA RememberedStep ==
  ASSUME IndInv, BaselineRemembered, [Next]_vars
  PROVE  BaselineRemembered'
<1> SUFFICES ASSUME HasStore, "kv_read" \notin Faults, pc' \notin {"off", "load"},
                    NEW s \in Services
             PROVE  Remembered(s)'
  BY DEF BaselineRemembered
<1>0. known \in [Services -> Tags \cup {None}] /\ kv \in [Services -> Tags \cup {None}]
      /\ job \in [Services -> Job]
  BY DEF IndInv, TypeOK
<1>1. CASE \E unread \in SUBSET Services : Begin(unread)
  <2>1. known' = kv /\ kv' = kv /\ job'[s].pc # "setkv"
    BY <1>0, <1>1 DEF Begin, Poll, store, NoJob
  <2> QED BY <2>1 DEF Remembered
<1>2. CASE Tick
  BY <1>2 DEF Tick, Poll, store, NoJob, IndInv, ProcessOK, JobsDone, BaselineRemembered, Remembered
<1>3. CASE \E r \in Services : FetchOK(r) \/ FetchFail(r)
  <2> PICK r \in Services : FetchOK(r) \/ FetchFail(r)
    BY <1>3
  <2>1. known' = known /\ kv' = kv /\ pc' = pc /\ job[r].pc = "fetch"
    BY DEF FetchOK, FetchFail, store, control
  <2>3. job'[r].pc # "setkv"
    <3>1. CASE FetchOK(r)
      BY <1>0, <3>1 DEF FetchOK, Job
    <3>2. CASE FetchFail(r)
      BY <1>0, <3>2 DEF FetchFail, NoJob
    <3> QED BY <3>1, <3>2
  <2>2. r # s => job'[s] = job[s]
    BY <1>0 DEF FetchOK, FetchFail
  <2> QED BY <2>1, <2>2, <2>3 DEF BaselineRemembered, Remembered
<1>4. CASE \E r \in Services : Swap(r)
  <2> PICK r \in Services : Swap(r)
    BY <1>4
  <2>1. /\ kv' = kv /\ pc' = pc /\ job[r].pc = "swap"
        /\ r # s => job'[s] = job[s] /\ known'[s] = known[s]
        /\ job'[r] = Swapped(r, "setkv")
    BY <1>0 DEF Swap, store, control
  <2>2. Swapped(r, "setkv").pc = "setkv" /\ Swapped(r, "setkv").old = known[r]
    BY <1>0 DEF Swapped, Job
  <2> QED BY <2>1, <2>2 DEF BaselineRemembered, Remembered
<1>5. CASE \E r \in Services, ok \in BOOLEAN : SetKV(r, ok) \/ RecordRelease(r, ok) \/ Notify(r, ok)
  <2> PICK r \in Services, ok \in BOOLEAN : SetKV(r, ok) \/ RecordRelease(r, ok) \/ Notify(r, ok)
    BY <1>5
  <2>1. known' = known /\ pc' = pc /\ known[r] # None /\ (r # s => kv'[s] = kv[s])
    BY <1>0, DaemonAssumption DEF DaemonAssumption, IndInv, JobOK, SetKV, SetKVStep,
       RecordRelease, RecordStep, Notify, NotifyStep, store, control
  <2>2. r # s => job'[s] = job[s]
    BY <1>0 DEF SetKV, SetKVStep, RecordRelease, RecordStep, Notify, NotifyStep
  <2>3. job'[r].pc # "setkv"
    <3>1. CASE SetKV(r, ok)
      BY <1>0, <3>1 DEF SetKV, SetKVStep, Recording, Job
    <3>2. CASE RecordRelease(r, ok)
      BY <1>0, <3>2, NotifyingType DEF RecordRelease, RecordStep, NoJob
    <3>3. CASE Notify(r, ok)
      <4>1. job[r] \in Job /\ job[r].pc = "post" /\ job[r].ch \in Channels
        BY <1>0, <3>3 DEF IndInv, JobOK, Notify, NotifyStep
      <4> QED BY <1>0, <3>3, <4>1, NextChannelType DEF Notify, NotifyStep, NoJob
    <3> QED BY <3>1, <3>2, <3>3
  <2> QED BY <2>1, <2>2, <2>3 DEF BaselineRemembered, Remembered
<1>6. CASE Crash \/ \E m \in {"loop", "once"} : Launch(m)
  BY <1>6 DEF Crash, Launch
<1>7. CASE UNCHANGED <<kv, known, job>> /\ pc' \in {pc, "idle", "exited"} /\ pc \notin {"off", "load"}
  BY <1>7 DEF BaselineRemembered, Remembered
<1>8. CASE UNCHANGED <<kv, known, job, pc>>
  BY <1>8 DEF BaselineRemembered, Remembered
<1> QED
  BY <1>1, <1>2, <1>3, <1>4, <1>5, <1>6, <1>7, <1>8 DEF Next, JobStep, Publish, PollDone,
     SelectStop, GoTo, Cancel, Stop, StopReturn, vars, store, control, work

\* A service with a baseline in the store is never seen for the first time.
THEOREM BaselineIsRemembered == Spec => []BaselineRemembered
<1>1. Init => BaselineRemembered
  BY DEF Init, BaselineRemembered
<1>2. IndInv /\ BaselineRemembered /\ [Next]_vars => BaselineRemembered'
  BY RememberedStep
<1> QED BY <1>1, <1>2, Invariance, PTL DEF Spec

-----------------------------------------------------------------------------
(* The refinement. *)

\* The context ends only if it may be cancelled or time out.
CancelOK == ctxDone => "cancel" \in Faults

LEMMA CancelStep == CancelOK /\ [Next]_vars => CancelOK'
  BY Zenon DEF CancelOK, Next, Publish, Launch, Begin, Tick, Poll, PollDone, SelectStop, GoTo,
     Cancel, Crash, JobStep, FetchOK, FetchFail, Swap, SetKV, SetKVStep,
     RecordRelease, RecordStep, Notify, NotifyStep, Stop, StopReturn,
     vars, control, signals

DInv == IndInv /\ BaselineRemembered /\ CancelOK

LEMMA DInvariance == Spec => []DInv
<1>1. Init => CancelOK
  BY DEF Init, CancelOK
<1> QED BY <1>1, CancelStep, Invariance, BaselineIsRemembered, PTL DEF Spec, DInv

\* Nothing is announced to the reader, and every job owes what it owed.
OwesTheSame == /\ Heard' = Heard
               /\ \A s \in Services : /\ Owes(s)' <=> Owes(s)
                                      /\ Owes(s) => job'[s].old = job[s].old

\* Such a step is not visible to the reader, if it leaves alone the baselines of the
\* store, or the memory of the process.
LEMMA Unseen ==
  ASSUME OwesTheSame
  PROVE  /\ kv' = kv => UNCHANGED Durable!avars
         /\ known' = known => UNCHANGED InMemory!avars
<1>1. kv' = kv => UpTo(kv)' = UpTo(kv)
  BY DEF OwesTheSame, UpTo
<1>2. known' = known => UpTo(known)' = UpTo(known)
  BY DEF OwesTheSame, UpTo
<1> QED BY <1>1, <1>2 DEF OwesTheSame, Durable!avars, InMemory!avars

\* Nothing is owed for a service whose goroutine is not past its swap.
LEMMA NothingOwed ==
  ASSUME NEW s \in Services, job[s].pc \notin {"setkv", "record", "post"}
  PROVE  ~Owes(s)
  BY DEF Owes

\* Steps without a goroutine: none is owed before or after, but by a crash.
LEMMA LoopOwes ==
  ASSUME DInv,
         \/ \E s \in Services, t \in Tags : Publish(s, t)
         \/ \E m \in {"loop", "once"} : Launch(m)
         \/ \E unread \in SUBSET Services : Begin(unread)
         \/ Tick \/ PollDone \/ SelectStop \/ Cancel
         \/ \E c \in Stoppers : Stop(c) \/ StopReturn(c)
         \/ UNCHANGED vars
  PROVE  kv' = kv /\ OwesTheSame
<1>1. kv' = kv /\ posts' = posts
  BY DEF Publish, Launch, Begin, Tick, Poll, PollDone, SelectStop, GoTo, Cancel, Stop,
     StopReturn, store, work, vars
<1>2. job' = job \/ \A s \in Services : /\ job[s].pc = "none"
                                       /\ job'[s].pc \notin {"setkv", "record", "post"}
  <2>1. CASE Tick \/ \E unread \in SUBSET Services : Begin(unread)
    BY <2>1 DEF DInv, IndInv, ProcessOK, JobsDone, Tick, Begin, Poll, NoJob
  <2>2. CASE ~(Tick \/ \E unread \in SUBSET Services : Begin(unread))
    BY <2>2 DEF Publish, Launch, PollDone, SelectStop, GoTo, Cancel, Stop, StopReturn, work, vars
  <2> QED BY <2>1, <2>2
<1>3. Heard' = Heard
  BY <1>1 DEF Heard
<1>4. \A s \in Services : /\ Owes(s)' <=> Owes(s)
                          /\ Owes(s) => job'[s].old = job[s].old
  BY <1>2 DEF Owes, IsNew
<1> QED BY <1>1, <1>3, <1>4 DEF OwesTheSame

\* A crash loses what is owed at that moment, and only that.
LEMMA CrashRefines ==
  ASSUME DInv, Crash
  PROVE  Durable!ANext
<1>1. Lossy
  BY DEF Crash, Lossy
<1>2. kv' = kv /\ Heard' = Heard /\ \A s \in Services : ~Owes(s)'
  BY DEF Crash, store, Heard, Owes, NoJob
<1>3. UpTo(kv)' = [s \in Services |-> IF s \in Services THEN kv[s] ELSE UpTo(kv)[s]]
  BY <1>2 DEF UpTo
<1>4. Durable!Miss(Services)
  BY <1>1, <1>2, <1>3 DEF Durable!Miss
<1> QED BY <1>4 DEF Durable!ANext

\* What the steps of one goroutine leave alone for the other services.
LEMMA OthersOwe ==
  ASSUME NEW s \in Services, NEW j, IndInv, job' = [job EXCEPT ![s] = j],
         NEW r \in Services, r # s
  PROVE  /\ Owes(r)' <=> Owes(r)
         /\ job'[r] = job[r]
<1>1. job'[r] = job[r]
  BY DEF IndInv, TypeOK
<1> QED BY <1>1 DEF Owes, IsNew

\* So it is enough to look at what that goroutine owes itself.
LEMMA OneOwes ==
  ASSUME NEW s \in Services, NEW j, IndInv, job' = [job EXCEPT ![s] = j], Heard' = Heard,
         Owes(s)' <=> Owes(s), Owes(s) => job'[s].old = job[s].old
  PROVE  OwesTheSame
<1> SUFFICES ASSUME NEW r \in Services
             PROVE  (Owes(r)' <=> Owes(r)) /\ (Owes(r) => job'[r].old = job[r].old)
  BY DEF OwesTheSame
<1>1. CASE r # s
  BY <1>1, OthersOwe
<1> QED BY <1>1

\* Fetching and recording are not seen by the reader.
LEMMA FetchOwes ==
  ASSUME DInv, NEW s \in Services, FetchOK(s) \/ FetchFail(s)
  PROVE  kv' = kv /\ known' = known /\ OwesTheSame
<1>1. PICK j \in {NoJob, [job[s] EXCEPT !.pc = "swap", !.tag = upstream[s]]} :
        job' = [job EXCEPT ![s] = j]
  BY DEF FetchOK, FetchFail
<1>2. /\ job[s] \in Job /\ job[s].pc = "fetch"
      /\ kv' = kv /\ known' = known /\ Heard' = Heard
  BY DEF DInv, IndInv, TypeOK, FetchOK, FetchFail, store, Heard
<1>3. job'[s] = j /\ j.pc \in {"none", "swap"}
  <2>1. job'[s] = j
    BY <1>1 DEF DInv, IndInv, TypeOK
  <2>2. CASE j = NoJob
    BY <2>1, <2>2 DEF NoJob
  <2>3. CASE j # NoJob
    <3>1. j = [job[s] EXCEPT !.pc = "swap", !.tag = upstream[s]]
      BY <2>3
    <3> QED BY <1>2, <2>1, <3>1 DEF Job
  <2> QED BY <2>2, <2>3
<1>4. ~Owes(s) /\ ~Owes(s)'
  BY <1>2, <1>3 DEF Owes
<1> QED BY <1>1, <1>2, <1>4, OneOwes DEF DInv

\* After the swap the job owes the reader the change from the stored baseline.
LEMMA SwapRefines ==
  ASSUME DInv, HasStore, "kv_write" \notin Faults, NEW s \in Services, Swap(s)
  PROVE  UNCHANGED Durable!avars
<1> DEFINE j == Swapped(s, "setkv")
<1>1. /\ job' = [job EXCEPT ![s] = j] /\ job[s] \in Job /\ job[s].pc = "swap"
      /\ kv' = kv /\ Heard' = Heard
  BY DEF DInv, IndInv, TypeOK, Swap, store, Heard
<1>2. job'[s] = j /\ j.pc = "setkv" /\ j.old = known[s] /\ j.tag = job[s].tag
  BY <1>1 DEF DInv, IndInv, TypeOK, Swapped, Job
<1>3. ~Owes(s) /\ (known[s] # None => kv[s] = known[s])
  BY <1>1 DEF Owes, DInv, IndInv, DurableBaseline, BaselineOK
<1>4. Owes(s)' => job'[s].old = kv[s]
  BY <1>2, <1>3 DEF Owes, IsNew
<1>5. UpTo(kv)' = UpTo(kv)
  <2>1. \A r \in Services : (IF Owes(r)' THEN job'[r].old ELSE kv'[r])
                              = (IF Owes(r) THEN job[r].old ELSE kv[r])
    <3> SUFFICES ASSUME NEW r \in Services
                 PROVE  (IF Owes(r)' THEN job'[r].old ELSE kv'[r])
                          = (IF Owes(r) THEN job[r].old ELSE kv[r])
      OBVIOUS
    <3>1. CASE r = s
      BY <1>1, <1>3, <1>4, <3>1
    <3>2. CASE r # s
      <4>1. (Owes(r)' <=> Owes(r)) /\ job'[r] = job[r]
        BY <1>1, <3>2, OthersOwe DEF DInv
      <4> QED BY <1>1, <4>1
    <3> QED BY <3>1, <3>2
  <2> QED BY <2>1 DEF UpTo
<1> QED BY <1>1, <1>5 DEF Durable!avars

\* SetKV is the observation: the first release is learnt, the next is owed.
LEMMA SetKVRefines ==
  ASSUME DInv, HasStore, "kv_write" \notin Faults, NEW s \in Services, NEW ok \in BOOLEAN,
         SetKV(s, ok)
  PROVE  Durable!ANext \/ UNCHANGED Durable!avars
<1> DEFINE j == Recording(s)
           t == job[s].tag
<1>1. /\ job' = [job EXCEPT ![s] = j] /\ job[s] \in Job /\ job[s].pc = "setkv" /\ t \in Tags
      /\ kv' = [kv EXCEPT ![s] = t] /\ Heard' = Heard
  BY DEF DInv, IndInv, TypeOK, JobOK, SetKV, SetKVStep, Heard
<1>2. job'[s] = j /\ j.pc = "record" /\ j.old = job[s].old /\ j.tag = t
  BY <1>1 DEF DInv, IndInv, TypeOK, Recording, Job
<1>3. kv[s] = job[s].old \/ job[s].old = None
  BY <1>1, DaemonAssumption
  DEF DaemonAssumption, DInv, IndInv, DurableBaseline, BaselineOK, JobOK
<1>4. Owes(s)' <=> Owes(s)
  BY <1>1, <1>2 DEF Owes, IsNew
<1>5. kv \in [Services -> Tags \cup {None}] /\ UpTo(kv) = [r \in Services |-> UpTo(kv)[r]]
  BY DEF DInv, IndInv, TypeOK, UpTo
<1>6. \A r \in Services \ {s} : UpTo(kv)'[r] = UpTo(kv)[r]
  BY <1>1, <1>5, OthersOwe DEF DInv, UpTo
<1>7. CASE IsNew(job[s])
  <2>1. Owes(s) /\ job[s].old # None /\ job[s].old # t /\ kv[s] = job[s].old
    BY <1>1, <1>3, <1>7 DEF Owes, IsNew
  <2>2. UpTo(kv)' = UpTo(kv) /\ UpTo(kv)[s] = kv[s]
    <3>1. UpTo(kv)'[s] = UpTo(kv)[s] /\ UpTo(kv)[s] = kv[s]
      BY <1>2, <1>4, <2>1 DEF UpTo
    <3> QED BY <1>6, <3>1 DEF UpTo
  <2>3. Durable!Observe(s, t)
    BY <1>1, <2>1, <2>2 DEF Durable!Observe
  <2> QED BY <1>1, <2>3 DEF Durable!ANext
<1>8. CASE ~IsNew(job[s])
  <2>1. ~Owes(s) /\ (job[s].old = None \/ job[s].old = t)
    BY <1>8 DEF Owes, IsNew
  <2>2. UpTo(kv)[s] = kv[s] /\ UpTo(kv)'[s] = t
    BY <1>1, <1>4, <1>5, <2>1 DEF UpTo
  <2>3. UpTo(kv)' = [UpTo(kv) EXCEPT ![s] = t]
    BY <1>5, <1>6, <2>2 DEF UpTo
  <2>4. CASE kv[s] = t
    <3>1. kv' = kv /\ UpTo(kv)' = UpTo(kv)
      BY <1>1, <1>5, <2>2, <2>3, <2>4
    <3> QED BY <1>1, <3>1 DEF Durable!avars
  <2>5. CASE kv[s] = None
    <3>1. Durable!Learn(s, t)
      BY <1>1, <2>3, <2>5 DEF Durable!Learn
    <3> QED BY <1>1, <3>1 DEF Durable!ANext
  <2>6. CASE kv[s] # None /\ kv[s] # t
    <3>1. job[s].old = None
      BY <1>3, <2>1, <2>6
    <3>2. Lossy
      <4>1. pc \notin {"off", "load"}
        BY <1>1 DEF DInv, IndInv, ProcessOK, JobsDone
      <4>2. "kv_read" \in Faults
        BY <1>1, <2>6, <3>1, <4>1 DEF DInv, BaselineRemembered, Remembered
      <4> QED BY <4>2 DEF Lossy
    <3>3. Durable!Overlook(s, t)
      BY <1>1, <2>2, <2>3, <2>6, <3>2 DEF Durable!Overlook
    <3> QED BY <1>1, <3>3 DEF Durable!ANext
  <2> QED BY <2>4, <2>5, <2>6
<1> QED BY <1>7, <1>8

\* Between the store and the first channel nothing changes for the reader.
LEMMA RecordOwes ==
  ASSUME DInv, NEW s \in Services, NEW ok \in BOOLEAN, RecordRelease(s, ok)
  PROVE  kv' = kv /\ known' = known /\ OwesTheSame
<1> DEFINE j == Notifying(job[s])
<1>1. /\ job' = [job EXCEPT ![s] = j] /\ job[s] \in Job /\ job[s].pc = "record"
      /\ kv' = kv /\ known' = known /\ Heard' = Heard
  BY DEF DInv, IndInv, TypeOK, RecordRelease, RecordStep, Heard
<1>2. job'[s] = j
  BY <1>1 DEF DInv, IndInv, TypeOK
<1>3. (Owes(s)' <=> Owes(s)) /\ (Owes(s) => job'[s].old = job[s].old)
  <2>1. CASE IsNew(job[s])
    <3>1. NumChannels > 0 /\ 1 <= Reader
      BY ReaderAssumption, DaemonAssumption DEF DaemonAssumption, Channels
    <3>2. j = [job[s] EXCEPT !.pc = "post", !.ch = 1]
      BY <2>1, <3>1 DEF Notifying
    <3>3. j.pc = "post" /\ j.ch = 1 /\ j.old = job[s].old /\ j.tag = job[s].tag
      BY <1>1, <3>2 DEF Job
    <3> QED BY <1>1, <1>2, <2>1, <3>1, <3>3 DEF Owes, IsNew
  <2>2. CASE ~IsNew(job[s])
    <3>1. j = NoJob
      BY <2>2 DEF Notifying
    <3> QED BY <1>2, <2>2, <3>1 DEF Owes, NoJob
  <2> QED BY <2>1, <2>2
<1> QED BY <1>1, <1>3, OneOwes DEF DInv

\* What a goroutine owed to the reader is told or lost.
Settles(s, delivered) ==
  /\ Owes(s) /\ ~Owes(s)' /\ job[s].old # job[s].tag
  /\ \A r \in Services \ {s} : (Owes(r)' <=> Owes(r)) /\ job'[r] = job[r]
  /\ Heard' = IF delivered
              THEN [Heard EXCEPT ![s] = Append(@, [old |-> job[s].old, new |-> job[s].tag])]
              ELSE Heard
  /\ delivered \/ ctxDone \/ Reader \in FlakyChannels

\* The turn of the reader's channel settles what was owed.  The turns of the other
\* channels are not seen.
LEMMA NotifyOwes ==
  ASSUME DInv, NEW s \in Services, NEW delivered \in BOOLEAN, Notify(s, delivered)
  PROVE  /\ kv' = kv /\ known' = known /\ known[s] = job[s].tag
         /\ OwesTheSame \/ Settles(s, delivered)
<1> DEFINE j == NextChannel(job[s], NumChannels)
           k == job[s].ch
           told == [old |-> job[s].old, new |-> job[s].tag]
<1>1. /\ job' = [job EXCEPT ![s] = j] /\ job[s] \in Job /\ job[s].pc = "post" /\ k \in Channels
      /\ kv' = kv /\ known' = known /\ IsNew(job[s]) /\ known[s] = job[s].tag
  BY DEF DInv, IndInv, TypeOK, JobOK, Notify, NotifyStep, store
<1>2. job'[s] = j
  BY <1>1 DEF DInv, IndInv, TypeOK
<1>3. /\ j = NoJob \/ (/\ j.pc = "post" /\ j.old = job[s].old /\ j.tag = job[s].tag
                       /\ j.ch = k + 1)
      /\ j = NoJob <=> k = NumChannels
  BY <1>1, NextChannelType
<1>4. k \in 1..NumChannels /\ Reader \in 1..NumChannels /\ NumChannels \in Nat
  BY <1>1, ReaderAssumption, DaemonAssumption DEF DaemonAssumption, Channels
<1>5. posts \in [Services -> [Channels -> Seq(Change)]]
  BY DEF DInv, IndInv, TypeOK
<1>6. posts' = IF delivered THEN [posts EXCEPT ![s][k] = Append(@, told)] ELSE posts
  BY DEF Notify, NotifyStep
<1>7. CASE k # Reader
  <2>1. Heard' = Heard
    <3>1. \A r \in Services : posts'[r][Reader] = posts[r][Reader]
      BY <1>1, <1>4, <1>5, <1>6, <1>7, ReaderAssumption
    <3> QED BY <3>1 DEF Heard
  <2>2. CASE j = NoJob
    <3>1. ~Owes(s) /\ ~Owes(s)'
      BY <1>1, <1>2, <1>3, <1>4, <1>7, <2>2 DEF Owes, NoJob
    <3> QED BY <1>1, <2>1, <3>1, OneOwes DEF DInv
  <2>3. CASE j # NoJob
    <3>1. (Owes(s)' <=> Owes(s)) /\ job'[s].old = job[s].old
      BY <1>1, <1>2, <1>3, <1>4, <1>7, <2>3 DEF Owes, IsNew
    <3> QED BY <1>1, <2>1, <3>1, OneOwes DEF DInv
  <2> QED BY <1>1, <2>2, <2>3
<1>8. CASE k = Reader
  <2>1. Owes(s) /\ ~Owes(s)' /\ job[s].old # job[s].tag
    BY <1>1, <1>2, <1>3, <1>4, <1>8 DEF Owes, NoJob, IsNew
  <2>2. \A r \in Services \ {s} : (Owes(r)' <=> Owes(r)) /\ job'[r] = job[r]
    BY <1>1, OthersOwe DEF DInv
  <2>3. Heard' = IF delivered THEN [Heard EXCEPT ![s] = Append(@, told)] ELSE Heard
    <3>1. CASE delivered
      <4>1. \A r \in Services : posts'[r][Reader] = IF r = s THEN Append(posts[r][Reader], told)
                                                            ELSE posts[r][Reader]
        BY <1>1, <1>5, <1>6, <1>8, <3>1, ReaderAssumption
      <4> HIDE DEF told
      <4> QED BY <3>1, <4>1 DEF Heard
    <3>2. CASE ~delivered
      BY <1>6, <3>2 DEF Heard
    <3> QED BY <3>1, <3>2
  <2>4. delivered \/ ctxDone \/ Reader \in FlakyChannels
    BY <1>8, Zenon DEF Notify, NotifyStep
  <2> QED BY <1>1, <2>1, <2>2, <2>3, <2>4 DEF Settles
<1> QED BY <1>7, <1>8

\* Then the channel is up to what the store, or the process, knows.
LEMMA UpToAgain ==
  ASSUME NEW s \in Services, NEW delivered \in BOOLEAN, Settles(s, delivered)
  PROVE  /\ UpTo(kv)[s] = job[s].old /\ UpTo(known)[s] = job[s].old
         /\ kv' = kv => UpTo(kv)' = [UpTo(kv) EXCEPT ![s] = kv[s]]
         /\ known' = known => UpTo(known)' = [UpTo(known) EXCEPT ![s] = known[s]]
  BY DEF Settles, UpTo

\* What was owed is announced, or lost where losses are possible.
LEMMA NotifyRefines ==
  ASSUME DInv, HasStore, "kv_write" \notin Faults, NEW s \in Services,
         NEW delivered \in BOOLEAN, Notify(s, delivered)
  PROVE  Durable!ANext \/ UNCHANGED Durable!avars
<1>1. CASE OwesTheSame
  BY <1>1, NotifyOwes, Unseen
<1>2. CASE Settles(s, delivered)
  <2>1. kv' = kv /\ kv[s] = job[s].tag
    <3>1. kv' = kv /\ known[s] = job[s].tag /\ job[s].pc = "post" /\ job[s].tag \in Tags
      BY NotifyOwes DEF DInv, IndInv, JobOK, Notify, NotifyStep
    <3> QED BY <3>1, DaemonAssumption
        DEF DaemonAssumption, DInv, IndInv, DurableBaseline, BaselineOK
  <2>2. UpTo(kv)[s] = job[s].old /\ UpTo(kv)' = [UpTo(kv) EXCEPT ![s] = kv[s]]
    BY <1>2, <2>1, UpToAgain
  <2>3. CASE delivered
    <3>1. Durable!Announce(s)
      BY <1>2, <2>1, <2>2, <2>3 DEF Durable!Announce, Settles
    <3> QED BY <3>1 DEF Durable!ANext
  <2>4. CASE ~delivered
    <3>1. Heard' = Heard /\ Lossy
      BY <1>2, <2>4, Zenon DEF Settles, DInv, CancelOK, Lossy
    <3>2. UpTo(kv)' = [r \in Services |-> IF r \in {s} THEN kv[r] ELSE UpTo(kv)[r]]
      BY <2>2 DEF UpTo
    <3>3. Durable!Miss({s})
      BY <2>1, <3>1, <3>2 DEF Durable!Miss
    <3> QED BY <3>3 DEF Durable!ANext
  <2> QED BY <2>3, <2>4
<1> QED BY <1>1, <1>2, NotifyOwes

LEMMA StepRefines ==
  ASSUME HasStore, "kv_write" \notin Faults, DInv, [Next]_vars
  PROVE  [Durable!ANext]_Durable!avars
<1>1. CASE \E s \in Services : JobStep(s)
  BY <1>1, FetchOwes, SwapRefines, SetKVRefines, RecordOwes, NotifyRefines, Unseen DEF JobStep
<1>2. CASE Crash
  BY <1>2, CrashRefines
<1>3. CASE ~Crash /\ ~(\E s \in Services : JobStep(s))
  BY <1>3, LoopOwes, Unseen DEF Next
<1> QED BY <1>1, <1>2, <1>3

LEMMA InitRefines == Init => Durable!AInit
<1> SUFFICES ASSUME Init PROVE Durable!AInit
  OBVIOUS
<1>1. \A s \in Services : ~Owes(s)
  BY DEF Init, Owes, NoJob
<1>2. UpTo(kv) = [s \in Services |-> None]
  BY <1>1 DEF Init, UpTo
<1>3. Heard = [s \in Services |-> <<>>]
  BY ReaderAssumption DEF Init, Heard
<1>4. kv = [s \in Services |-> None]
  BY DEF Init
<1> QED BY <1>2, <1>3, <1>4 DEF Durable!AInit

\* With a store whose baseline writes succeed, the daemon implements
\* ReleaseAnnouncements for the reader of any channel: across any number of
\* stops, crashes and restarts, for any services polled concurrently, no change
\* is announced twice or out of order, and none is lost unless the channel is
\* flaky, a baseline cannot be read, the context ends or the process crashes.
THEOREM DaemonAnnounces ==
  ASSUME HasStore, "kv_write" \notin Faults
  PROVE  Spec => DurableAnnouncements
<1>1. DInv /\ [Next]_vars => [Durable!ANext]_Durable!avars
  BY StepRefines
<1> QED BY <1>1, InitRefines, DInvariance, PTL DEF Spec, DurableAnnouncements, Durable!ASpec

\* The reader's view of the daemon, with what is known of it.
Replay == INSTANCE AnnouncementsProofs WITH
  MayMiss <- Lossy, latest <- kv, base <- UpTo(kv), events <- Heard

\* So the daemon's announcements are real changes and, on a channel without
\* losses, a chain the history can be replayed from.
THEOREM DaemonReaderCanReplay ==
  ASSUME HasStore, "kv_write" \notin Faults
  PROVE  Spec => []Replayable
<1>1. Replay!Sensible
  BY DaemonAssumption DEF DaemonAssumption, Replay!Sensible
<1>2. Init => Replay!AInv
  <2>1. Replay!AInit => Replay!AInv
    BY DEF Replay!AInit, Replay!AInv, Replay!ATypeOK, Replay!Known, Replay!RealChanges,
           Replay!Chained
  <2> QED BY <2>1, InitRefines DEF Durable!AInit, Replay!AInit
<1>3. Replay!AInv /\ DInv /\ [Next]_vars => Replay!AInv'
  <2>1. [Durable!ANext]_Durable!avars => [Replay!ANext]_Replay!avars
    BY Zenon DEF Durable!ANext, Replay!ANext, Durable!avars, Replay!avars,
       Durable!Learn, Replay!Learn, Durable!Observe, Replay!Observe,
       Durable!Overlook, Replay!Overlook, Durable!Announce, Replay!Announce,
       Durable!Miss, Replay!Miss
  <2> QED BY <1>1, <2>1, StepRefines, Replay!AStep
<1>4. Replay!AInv => Replayable
  BY Zenon DEF Replayable, Replay!AInv, Replay!RealChanges, Replay!Chained, Durable!RealChanges, Durable!Chained
<1> QED BY <1>2, <1>3, <1>4, DInvariance, PTL DEF Spec

-----------------------------------------------------------------------------
(* The same within one process, with any store or none.                     *)

\* The swap of d.known is the observation: the first release is learnt, the next owed.
LEMMA SwapTells ==
  ASSUME DInv, NEW s \in Services, Swap(s)
  PROVE  InMemory!ANext \/ UNCHANGED InMemory!avars
<1> DEFINE t == job[s].tag
           j == job'[s]
<1>0. /\ known \in [Services -> Tags \cup {None}] /\ job \in [Services -> Job]
      /\ job[s] \in Job /\ job[s].pc = "swap" /\ t \in Tags /\ t # None
      /\ 1 <= Reader /\ NumChannels > 0
  BY ReaderAssumption, DaemonAssumption
  DEF DaemonAssumption, Channels, DInv, IndInv, TypeOK, JobOK, Swap
<1>1. /\ known' = [known EXCEPT ![s] = t] /\ Heard' = Heard
      /\ job' = [job EXCEPT ![s] = j]
      /\ j = IF HasStore THEN Swapped(s, "setkv") ELSE Notifying(Swapped(s, "swap"))
  BY <1>0 DEF Swap, Heard
<1>2. /\ Owes(s)' <=> known[s] \notin {None, t}
      /\ Owes(s)' => j.old = known[s]
  <2>1. \A pcNext : /\ Swapped(s, pcNext).pc = pcNext /\ Swapped(s, pcNext).old = known[s]
                    /\ Swapped(s, pcNext).tag = t
    BY <1>0 DEF Swapped, Job
  <2>2. CASE HasStore
    BY <1>1, <2>1, <2>2 DEF Owes, IsNew
  <2>3. CASE ~HasStore
    <3> DEFINE w == Swapped(s, "swap")
    <3>1. j = Notifying(w) /\ w.old = known[s] /\ w.tag = t
      BY <1>1, <2>1, <2>3
    <3>2. w = [pc |-> "swap", old |-> known[s], tag |-> t, ch |-> w.ch]
      <4> DEFINE w0 == [job[s] EXCEPT !.pc = "swap"]
      <4>1. w0 = [pc |-> "swap", old |-> job[s].old, tag |-> t, ch |-> job[s].ch]
        BY <1>0 DEF Job
      <4>2. w = [w0 EXCEPT !.old = known[s]]
        BY DEF Swapped
      <4> HIDE DEF w0
      <4>3. w = [pc |-> "swap", old |-> known[s], tag |-> t, ch |-> job[s].ch]
        BY <4>1, <4>2
      <4> HIDE DEF w
      <4> QED BY <4>3
    <3> HIDE DEF w
    <3>3. CASE IsNew(w)
      <4> DEFINE w1 == [w EXCEPT !.pc = "post"]
      <4>1. w1 = [pc |-> "post", old |-> known[s], tag |-> t, ch |-> w.ch]
        BY <3>2
      <4>2. j = [w1 EXCEPT !.ch = 1]
        BY <1>0, <3>1, <3>3 DEF Notifying
      <4> HIDE DEF w1
      <4>3. j = [pc |-> "post", old |-> known[s], tag |-> t, ch |-> 1]
        BY <4>1, <4>2
      <4> QED BY <1>0, <3>1, <3>3, <4>3 DEF Owes, IsNew
    <3>4. CASE ~IsNew(w)
      BY <3>1, <3>4 DEF Notifying, NoJob, Owes, IsNew
    <3> QED BY <3>3, <3>4
  <2> QED BY <2>2, <2>3
<1>3. ~Owes(s)
  BY <1>0 DEF Owes
<1> HIDE DEF j, t
<1>4. \A r \in Services \ {s} : /\ (Owes(r)' <=> Owes(r)) /\ job'[r] = job[r]
                                 /\ known'[r] = known[r]
  BY <1>0, <1>1, OthersOwe DEF DInv
<1>5. /\ UpTo(known)[s] = known[s]
      /\ UpTo(known)' = [UpTo(known) EXCEPT ![s] = IF Owes(s)' THEN known[s] ELSE t]
  BY <1>0, <1>1, <1>2, <1>3, <1>4 DEF UpTo, j
<1>6. CASE known[s] \notin {None, t}
  <2>1. UpTo(known)' = UpTo(known)
    BY <1>2, <1>5, <1>6 DEF UpTo
  <2>2. InMemory!Observe(s, t)
    BY <1>1, <1>5, <1>6, <2>1 DEF InMemory!Observe
  <2> QED BY <1>0, <2>2 DEF InMemory!ANext
<1>7. CASE known[s] = None
  <2>1. InMemory!Learn(s, t)
    BY <1>1, <1>2, <1>5, <1>7 DEF InMemory!Learn
  <2> QED BY <1>0, <2>1 DEF InMemory!ANext
<1>8. CASE known[s] = t
  <2>1. known' = known /\ UpTo(known)' = UpTo(known)
    BY <1>0, <1>1, <1>2, <1>5, <1>8 DEF UpTo
  <2> QED BY <1>1, <2>1 DEF InMemory!avars
<1> QED BY <1>6, <1>7, <1>8

\* What becomes of the store is not seen.
LEMMA SetKVTells ==
  ASSUME DInv, NEW s \in Services, NEW ok \in BOOLEAN, SetKV(s, ok)
  PROVE  known' = known /\ OwesTheSame
<1> DEFINE j == Recording(s)
<1>1. /\ job' = [job EXCEPT ![s] = j] /\ job[s] \in Job /\ job[s].pc = "setkv"
      /\ known' = known /\ Heard' = Heard
  BY DEF DInv, IndInv, TypeOK, SetKV, SetKVStep, Heard
<1>2. job'[s] = j /\ j.pc = "record" /\ j.old = job[s].old /\ j.tag = job[s].tag
  BY <1>1 DEF DInv, IndInv, TypeOK, Recording, Job
<1>3. (Owes(s)' <=> Owes(s)) /\ job'[s].old = job[s].old
  BY <1>1, <1>2 DEF Owes, IsNew
<1> QED BY <1>1, <1>3, OneOwes DEF DInv

\* Nothing is lost at a channel that does not fail, as long as the context lives.
LEMMA NotifyTells ==
  ASSUME DInv, ~ctxDone, NEW s \in Services, NEW delivered \in BOOLEAN, Notify(s, delivered)
  PROVE  InMemory!ANext \/ UNCHANGED InMemory!avars
<1>1. CASE OwesTheSame
  BY <1>1, NotifyOwes, Unseen
<1>2. CASE Settles(s, delivered)
  <2>1. known' = known /\ known[s] = job[s].tag
    BY NotifyOwes
  <2>2. UpTo(known)[s] = job[s].old /\ UpTo(known)' = [UpTo(known) EXCEPT ![s] = known[s]]
    BY <1>2, <2>1, UpToAgain
  <2>3. CASE delivered
    <3>1. InMemory!Announce(s)
      BY <1>2, <2>1, <2>2, <2>3 DEF InMemory!Announce, Settles
    <3> QED BY <3>1 DEF InMemory!ANext
  <2>4. CASE ~delivered
    <3>1. Heard' = Heard /\ Reader \in FlakyChannels
      BY <1>2, <2>4, Zenon DEF Settles
    <3>2. UpTo(known)' = [r \in Services |-> IF r \in {s} THEN known[r] ELSE UpTo(known)[r]]
      BY <2>2 DEF UpTo
    <3>3. InMemory!Miss({s})
      BY <2>1, <3>1, <3>2 DEF InMemory!Miss
    <3> QED BY <3>3 DEF InMemory!ANext
  <2> QED BY <2>3, <2>4
<1> QED BY <1>1, <1>2, NotifyOwes

\* A process that lives keeps its memory, but by a swap.
LEMMA LoopKeepsMemory ==
  ASSUME DInv, Polling,
         \/ \E s \in Services, t \in Tags : Publish(s, t)
         \/ Tick \/ PollDone \/ SelectStop \/ Cancel
         \/ \E c \in Stoppers : Stop(c) \/ StopReturn(c)
         \/ UNCHANGED vars
  PROVE  known' = known
BY DEF Publish, Tick, PollDone, SelectStop, GoTo, Cancel, Stop, StopReturn, work, vars

LEMMA StepTells ==
  ASSUME DInv, Polling, [Next]_vars
  PROVE  InMemory!ANext \/ UNCHANGED InMemory!avars
<1>1. CASE \E s \in Services : JobStep(s)
  <2>1. ~ctxDone
    BY Zenon DEF Polling
  <2> QED BY <1>1, <2>1, FetchOwes, SwapTells, SetKVTells, RecordOwes, NotifyTells, Unseen
      DEF JobStep
<1>2. CASE \/ Crash \/ \E m \in {"loop", "once"} : Launch(m)
           \/ \E unread \in SUBSET Services : Begin(unread)
  BY <1>2 DEF Polling, Crash, Launch, Begin
<1>3. CASE \/ \E s \in Services, t \in Tags : Publish(s, t)
           \/ Tick \/ PollDone \/ SelectStop \/ Cancel
           \/ \E c \in Stoppers : Stop(c) \/ StopReturn(c)
           \/ UNCHANGED vars
  BY <1>3, LoopKeepsMemory, LoopOwes, Unseen
<1> QED BY <1>1, <1>2, <1>3 DEF Next

\* As long as its context lives, a process announces to the reader of any channel every
\* change of what it knows, once and in order, with any store or none and whatever the
\* store refuses; only a flaky channel loses one (checkService goes on to Notify after
\* an error of SetKV or RecordRelease).
THEOREM ProcessAnnounces == Spec => InMemoryAnnouncements
<1>1. DInv /\ [Next]_vars => [Polling => InMemory!ANext]_InMemory!avars
  BY StepTells
<1> QED BY <1>1, DInvariance, PTL DEF Spec, InMemoryAnnouncements
=============================================================================
