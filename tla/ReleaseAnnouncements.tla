------------------------ MODULE ReleaseAnnouncements ------------------------
(* What the daemon promises the reader of one notification channel.         *)
(* The first release of a service is learnt silently.  From then on every   *)
(* release observed is owed to the channel, as a change from the release    *)
(* observed before it, and is announced once, before the next is observed.  *)
(* If MayMiss holds a change may be lost; it is never announced twice.      *)
EXTENDS Naturals, Sequences

CONSTANTS Services, Tags, None, MayMiss

\* What the constants must be; proved of every instance.
Sensible == None \notin Tags

VARIABLES
  latest,   \* latest[s]: the release of s observed last
  base,     \* base[s]: the release the channel has been brought up to
  events    \* events[s]: the changes announced, oldest first

avars == <<latest, base, events>>

AChange == [old : Tags, new : Tags]

AInit == /\ latest = [s \in Services |-> None]
         /\ base = [s \in Services |-> None]
         /\ events = [s \in Services |-> <<>>]

Learn(s, t) == /\ latest[s] = None
               /\ latest' = [latest EXCEPT ![s] = t]
               /\ base' = [base EXCEPT ![s] = t]
               /\ UNCHANGED events

Observe(s, t) == /\ latest[s] \notin {None, t} /\ base[s] = latest[s]
                 /\ latest' = [latest EXCEPT ![s] = t]
                 /\ UNCHANGED <<base, events>>

Announce(s) ==
  /\ base[s] # latest[s]
  /\ base' = [base EXCEPT ![s] = latest[s]]
  /\ events' = [events EXCEPT ![s] = Append(@, [old |-> base[s], new |-> latest[s]])]
  /\ UNCHANGED latest

\* What is owed for the services of S is lost.
Miss(S) == /\ MayMiss
           /\ base' = [s \in Services |-> IF s \in S THEN latest[s] ELSE base[s]]
           /\ UNCHANGED <<latest, events>>

\* A release is observed and its announcement lost at the same time.
Overlook(s, t) == /\ MayMiss /\ latest[s] # None /\ base[s] = latest[s]
                  /\ latest' = [latest EXCEPT ![s] = t]
                  /\ base' = [base EXCEPT ![s] = t]
                  /\ UNCHANGED events

ANext == \/ \E s \in Services, t \in Tags : Learn(s, t) \/ Observe(s, t) \/ Overlook(s, t)
         \/ \E s \in Services : Announce(s)
         \/ \E S \in SUBSET Services : Miss(S)

ASpec == AInit /\ [][ANext]_avars

-----------------------------------------------------------------------------
ATypeOK == /\ latest \in [Services -> Tags \cup {None}]
           /\ base \in [Services -> Tags \cup {None}]
           /\ events \in [Services -> Seq(AChange)]

\* No announcement says that a release replaced itself
\* (daemon.go: isNew requires old # release.Tag).
RealChanges == \A s \in Services : \A i \in 1..Len(events[s]) :
                  events[s][i].old # events[s][i].new

\* Without losses every announcement starts where the one before it ended and
\* the last one ends at the release the channel is up to: the reader can replay
\* the history of the service from the announcements alone.
Chained ==
  ~MayMiss => \A s \in Services :
    /\ \A i \in 1..Len(events[s]) - 1 : events[s][i].new = events[s][i + 1].old
    /\ events[s] # <<>> => base[s] = events[s][Len(events[s])].new

\* What is owed is announced or lost, in the end.
Settled == \A s \in Services : base[s] # latest[s] ~> base[s] = latest[s]
=============================================================================
