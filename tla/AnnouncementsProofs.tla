------------------------ MODULE AnnouncementsProofs -------------------------
(* What follows from ReleaseAnnouncements for the reader of a channel.      *)
EXTENDS ReleaseAnnouncements, TLAPS

\* A channel is up to some release once the service has been observed.
Known == \A s \in Services : base[s] = None <=> latest[s] = None

AInv == ATypeOK /\ Known /\ RealChanges /\ Chained

\* What holds of a list of changes holds of it with one more change.
LEMMA AppendChange ==
  ASSUME NEW es \in Seq(AChange), NEW e \in AChange
  PROVE  LET new == Append(es, e) IN
           /\ new \in Seq(AChange) /\ new # <<>> /\ Len(new) = Len(es) + 1
           /\ new[Len(new)] = e
           /\ \A i \in 1..Len(es) : new[i] = es[i]
  OBVIOUS

\* A step that announces nothing keeps the chain if, without losses, it also
\* leaves the bases of the services already announced alone.
LEMMA QuietStep ==
  ASSUME Sensible, AInv, ATypeOK', Known', events' = events,
         ~MayMiss => \A s \in Services : base'[s] = base[s] \/ base[s] = None
  PROVE  AInv'
<1>1. RealChanges'
  BY DEF AInv, RealChanges
<1>2. Chained'
  <2> SUFFICES ASSUME ~MayMiss, NEW s \in Services, events[s] # <<>>
               PROVE  base'[s] = events[s][Len(events[s])].new
    BY DEF AInv, Chained
  <2>1. base[s] = events[s][Len(events[s])].new /\ events[s] \in Seq(AChange)
    BY DEF AInv, Chained, ATypeOK
  <2>2. base[s] \in Tags
    <3>1. Len(events[s]) \in 1..Len(events[s])
      BY <2>1
    <3>2. events[s][Len(events[s])] \in AChange
      BY <2>1, <3>1
    <3> QED BY <2>1, <3>2 DEF AChange
  <2> QED BY <2>1, <2>2 DEF Sensible
<1> QED BY <1>1, <1>2 DEF AInv

\* An announcement prolongs the chain.
LEMMA AnnounceStep ==
  ASSUME Sensible, AInv, NEW s \in Services, Announce(s)
  PROVE  AInv'
<1> DEFINE e == [old |-> base[s], new |-> latest[s]]
<1>0. /\ e \in AChange /\ e.old # e.new
      /\ latest \in [Services -> Tags \cup {None}] /\ base \in [Services -> Tags \cup {None}]
      /\ events \in [Services -> Seq(AChange)]
  BY DEF Sensible, AInv, ATypeOK, Known, Announce, AChange
<1>1. /\ events' = [events EXCEPT ![s] = Append(events[s], e)]
      /\ base' = [base EXCEPT ![s] = latest[s]] /\ latest' = latest
  BY DEF Announce
<1>2. /\ events'[s] \in Seq(AChange) /\ events'[s] # <<>>
      /\ Len(events'[s]) = Len(events[s]) + 1
      /\ events'[s][Len(events'[s])] = e
      /\ \A i \in 1..Len(events[s]) : events'[s][i] = events[s][i]
      /\ events[s] \in Seq(AChange)
  BY <1>0, <1>1, AppendChange
<1>3. \A r \in Services \ {s} : events'[r] = events[r] /\ base'[r] = base[r]
  BY <1>0, <1>1
<1>4. ATypeOK' /\ Known'
  BY <1>0, <1>1, <1>2 DEF ATypeOK, Known, AInv
<1>5. RealChanges'
  <2> SUFFICES ASSUME NEW r \in Services, NEW i \in 1..Len(events'[r])
               PROVE  events'[r][i].old # events'[r][i].new
    BY DEF RealChanges
  <2>1. CASE r # s
    BY <1>3, <2>1 DEF AInv, RealChanges
  <2>2. CASE r = s /\ i = Len(events'[s])
    BY <1>0, <1>2, <2>2
  <2>3. CASE r = s /\ i # Len(events'[s])
    <3>1. i \in 1..Len(events[s])
      BY <1>2, <2>3
    <3> QED BY <1>2, <2>3, <3>1 DEF AInv, RealChanges
  <2> QED BY <2>1, <2>2, <2>3
<1>6. Chained'
  <2> SUFFICES ASSUME ~MayMiss, NEW r \in Services
               PROVE  /\ \A i \in 1..Len(events'[r]) - 1 :
                            events'[r][i].new = events'[r][i + 1].old
                      /\ events'[r] # <<>> => base'[r] = events'[r][Len(events'[r])].new
    BY DEF Chained
  <2>1. CASE r # s
    BY <1>3, <2>1 DEF AInv, Chained
  <2>2. CASE r = s
    <3>1. base'[s] = e.new
      BY <1>0, <1>1
    <3>2. ASSUME NEW i \in 1..Len(events'[s]) - 1
          PROVE  events'[s][i].new = events'[s][i + 1].old
      <4>1. CASE i = Len(events[s])
        <5>1. events[s] # <<>> /\ base[s] = events[s][Len(events[s])].new
          BY <1>2, <4>1 DEF AInv, Chained
        <5> QED BY <1>2, <4>1, <5>1
      <4>2. CASE i # Len(events[s])
        <5>1. i \in 1..Len(events[s]) - 1 /\ i + 1 \in 1..Len(events[s]) /\ i \in 1..Len(events[s])
          BY <1>2, <4>2
        <5> QED BY <1>2, <5>1 DEF AInv, Chained
      <4> QED BY <4>1, <4>2
    <3> QED BY <1>2, <2>2, <3>1, <3>2
  <2> QED BY <2>1, <2>2
<1> QED BY <1>4, <1>5, <1>6 DEF AInv

\* Every step of the abstract specification keeps the chain.
LEMMA AStep == Sensible /\ AInv /\ [ANext]_avars => AInv'
<1> SUFFICES ASSUME Sensible, AInv, [ANext]_avars PROVE AInv'
  OBVIOUS
<1> USE DEF Sensible
<1>1. CASE \E s \in Services : Announce(s)
  BY <1>1, AnnounceStep
<1>2. CASE \E s \in Services, t \in Tags : Learn(s, t)
  BY <1>2, QuietStep DEF AInv, ATypeOK, Known, Learn
<1>3. CASE \E s \in Services, t \in Tags : Observe(s, t)
  BY <1>3, QuietStep DEF AInv, ATypeOK, Known, Observe
<1>4. CASE \E s \in Services, t \in Tags : Overlook(s, t)
  BY <1>4, QuietStep DEF AInv, ATypeOK, Known, Overlook
<1>5. CASE \E S \in SUBSET Services : Miss(S)
  BY <1>5, QuietStep DEF AInv, ATypeOK, Known, Miss
<1>6. CASE UNCHANGED avars
  BY <1>6, QuietStep DEF AInv, ATypeOK, Known, avars
<1> QED BY <1>1, <1>2, <1>3, <1>4, <1>5, <1>6 DEF ANext

\* Every announcement is a real change, and without losses the announcements of
\* a service form a chain that ends at the release the channel is up to: the
\* reader can replay the history of the service from the announcements alone.
THEOREM ReaderCanReplay ==
  ASSUME Sensible
  PROVE  ASpec => [](RealChanges /\ Chained)
<1>1. AInit => AInv
  BY DEF AInit, AInv, ATypeOK, Known, RealChanges, Chained
<1>2. AInv => RealChanges /\ Chained
  BY DEF AInv
<1> QED BY <1>1, <1>2, AStep, PTL DEF ASpec
=============================================================================
