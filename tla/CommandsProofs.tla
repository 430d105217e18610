--------------------------- MODULE CommandsProofs ---------------------------
(* What the commands keep that run by themselves.  `watch`, for any number  *)
(* of services and platforms, any rate and any deadline: no platform gets   *)
(* more requests than its bucket allows, nobody is refused but where a check*)
(* has more services than tokens come in, and every change is printed once, *)
(* in order.  The commands that rewrite a file, for any files, clusters and *)
(* number of processes: nothing that a file held, or was given, is lost; one*)
(* that loads goes on loading; and what is discovered is what runs.         *)
EXTENDS WatchCommand, ConfigFile, FiniteSetTheorems, SequenceTheorems, WellFoundedInduction, TLAPS

Job == [pc : {"none", "start", "wait", "refused", "sent", "swap", "print", "done"},
        wait : Nat, tag : Tags \cup {NoTag}, old : Tags \cup {NoTag}]

WatchType ==
  /\ platform \in [Services -> Platforms] /\ upstream \in [Services -> Tags]
  /\ tokens \in [Platforms -> Int] /\ sent \in [Platforms -> [1..Window -> Nat]]
  /\ left \in 0..Deadline
  /\ known \in [Services -> Tags \cup {NoTag}] /\ job \in [Services -> Job]

\* Goroutines live in a check only, and time passes only when all have asked the limiter.
Checking ==
  /\ phase \in {"off", "select", "stopped"} => \A s \in Services : job[s].pc = "none"
  /\ phase = "check" => \A s \in Services : job[s].pc = "start" => left = Deadline

\* The goroutines that wait for more than w ticks, and how many promises of the bucket
\* are that far away: each tick keeps Rate of them.
Later(p, w) == {s \in Services : platform[s] = p /\ job[s].pc = "wait" /\ job[s].wait > w}
Owed(p, w)  == IF -tokens[p] > Rate * w THEN -tokens[p] - Rate * w ELSE 0

Promised(p) == \A w \in Nat : Cardinality(Later(p, w)) = Owed(p, w)

\* What was sent, what is about to be, and what could be at once.
Due(p)  == {s \in Services : platform[s] = p /\ job[s].pc = "wait" /\ job[s].wait = 0}
Held(p) == IF tokens[p] > 0 THEN tokens[p] ELSE 0
Most    == IF Rate > Burst THEN Rate ELSE Burst

Spent(p) ==
  \A k \in 1..Window :
    sent[p][k] + Cardinality(Due(p)) + Held(p) <= Most + Rate * (k - 1)

\* The goroutines of the check that have taken a token of the bucket.
Takers(p) == {s \in Services : platform[s] = p /\ job[s].pc \notin {"none", "start", "refused"}}

Drawn(p) == tokens[p] >= -Cardinality(Takers(p))

Bucket(p) == Promised(p) /\ Spent(p) /\ Drawn(p)

\* The first check learns, each service once.
FirstLearns ==
  /\ phase = "off" => first /\ \A s \in Services : known[s] = NoTag
  /\ phase = "select" => ~first
  /\ first => \A s \in Services : known[s] # NoTag => job[s].pc = "done"

\* What a goroutine owes the terminal.
Owing(s) ==
  /\ job[s].pc = "swap" => job[s].tag \in Tags
  /\ job[s].pc = "print" => known[s] = job[s].tag /\ job[s].old \notin {NoTag, job[s].tag}

WatchInv ==
  /\ WatchType /\ Checking /\ FirstLearns /\ RefusedIsOverload
  /\ \A p \in Platforms : Bucket(p)
  /\ \A s \in Services : Owing(s)

-----------------------------------------------------------------------------
(* The arithmetic of the bucket, and the goroutines that draw on it.        *)

LEMMA DivFacts ==
  ASSUME NEW a \in Int, NEW b \in Nat \ {0}
  PROVE  a \div b \in Int /\ b * (a \div b) <= a /\ a < b * (a \div b) + b
OBVIOUS

\* Whoever is promised the next token waits for those that were promised before it, Rate
\* of them in each tick.
LEMMA WaitFits ==
  ASSUME NEW t \in Int, t <= 0
  PROVE  /\ (Rate - t) \div Rate \in Nat /\ (Rate - t) \div Rate > 0
         /\ \A v \in Nat : v < (Rate - t) \div Rate <=> Rate * v <= -t
<1> DEFINE q == (Rate - t) \div Rate
<1>1. Rate \in Nat \ {0} /\ Rate - t \in Int
  BY WatchAssumption
<1>2. q \in Int /\ Rate * q <= Rate - t /\ Rate - t < Rate * q + Rate
  BY <1>1, DivFacts
<1> HIDE DEF q
<1>3. Rate * q \in Int
  BY <1>1, <1>2
<1>4. q \in Nat /\ q > 0
  <2>1. CASE q > 0
    BY <1>2, <2>1
  <2>2. CASE q <= 0
    <3>1. Rate * q <= 0
      BY <1>1, <1>2, <2>2
    <3> QED BY <1>1, <1>2, <1>3, <3>1
  <2> QED BY <1>2, <2>1, <2>2
<1>5. ASSUME NEW v \in Nat PROVE v < q <=> Rate * v <= -t
  <2>1. CASE v < q
    <3>1. PICK e \in Nat : q = v + 1 + e
      <4>1. q - v - 1 \in Nat /\ q = v + 1 + (q - v - 1)
        BY <1>2, <2>1
      <4> QED BY <4>1
    <3>2. Rate * q = Rate * v + Rate + Rate * e
      BY <1>1, <3>1
    <3>3. Rate * e >= 0 /\ Rate * e \in Int /\ Rate * v \in Int
      BY <1>1, <3>1
    <3> QED BY <1>1, <1>2, <2>1, <3>2, <3>3
  <2>2. CASE ~(v < q)
    <3>1. PICK e \in Nat : v = q + e
      <4>1. v - q \in Nat /\ v = q + (v - q)
        BY <1>2, <2>2
      <4> QED BY <4>1
    <3>2. Rate * v = Rate * q + Rate * e
      BY <1>1, <1>2, <3>1
    <3>3. Rate * e >= 0 /\ Rate * e \in Int
      BY <1>1, <3>1
    <3> QED BY <1>1, <1>2, <1>3, <2>2, <3>2, <3>3
  <2> QED BY <2>1, <2>2
<1> QED BY <1>4, <1>5 DEF q

\* What a tick brings: the promises that are due after it and the tokens to hold are no
\* more than Rate and what was held before.
LEMMA TickBrings ==
  ASSUME NEW t \in Int, NEW u \in Int, NEW l0 \in Int, NEW l1 \in Int,
         u = IF t + Rate > Burst THEN Burst ELSE t + Rate,
         l0 = IF -t > 0 THEN -t ELSE 0, l1 = IF -t > Rate THEN -t - Rate ELSE 0
  PROVE  /\ (l0 - l1) + (IF u > 0 THEN u ELSE 0) <= Rate + (IF t > 0 THEN t ELSE 0)
         /\ (l0 - l1) + (IF u > 0 THEN u ELSE 0) <= Most
BY WatchAssumption DEF Most

\* A wait that would outlast the context means that so many tokens are promised.
LEMMA RefusalMeans ==
  ASSUME NEW t \in Int, (IF t > 0 THEN 0 ELSE (Rate - t) \div Rate) > Deadline
  PROVE  -t >= Rate * Deadline
<1> DEFINE q == (Rate - t) \div Rate
<1>1. Rate \in Nat \ {0} /\ Rate - t \in Int /\ Deadline \in Nat
  BY WatchAssumption
<1>2. q \in Int /\ Rate * q <= Rate - t
  BY <1>1, DivFacts
<1>3. t <= 0 /\ q > Deadline
  BY <1>1
<1> HIDE DEF q
<1>4. PICK e \in Nat : q = Deadline + 1 + e
  <2>1. q - Deadline - 1 \in Nat /\ q = Deadline + 1 + (q - Deadline - 1)
    BY <1>1, <1>2, <1>3
  <2> QED BY <2>1
<1>5. Rate * q = Rate * Deadline + Rate + Rate * e
  BY <1>1, <1>4
<1>6. Rate * e >= 0 /\ Rate * e \in Int /\ Rate * Deadline \in Int
  BY <1>1, <1>4
<1> QED BY <1>1, <1>2, <1>5, <1>6

LEMMA Countable ==
  ASSUME NEW S \in SUBSET Services
  PROVE  IsFiniteSet(S) /\ Cardinality(S) \in Nat
<1>1. IsFiniteSet(S)
  BY WatchAssumption, FS_Subset
<1> QED BY <1>1, FS_CardinalityType

LEMMA Groups ==
  ASSUME NEW p
  PROVE  /\ Takers(p) \in SUBSET Services /\ Due(p) \in SUBSET Services
         /\ \A w : Later(p, w) \in SUBSET Services
BY DEF Takers, Due, Later

LEMMA Counts ==
  ASSUME NEW p
  PROVE  /\ Cardinality(Takers(p)) \in Nat /\ Cardinality(Due(p)) \in Nat
         /\ \A w : Cardinality(Later(p, w)) \in Nat
BY Groups, Countable

\* Nobody is promised anything by a bucket that is not empty, and a bucket that nobody
\* waits for has promised nothing.
LEMMA NoDebt ==
  ASSUME NEW p, tokens[p] \in Int, Promised(p)
  PROVE  (\A s \in Services : job[s].pc # "wait") => tokens[p] >= 0
<1> SUFFICES ASSUME \A s \in Services : job[s].pc # "wait" PROVE tokens[p] >= 0
  OBVIOUS
<1>1. Later(p, 0) = {}
  BY DEF Later
<1>2. Owed(p, 0) = 0
  BY <1>1, FS_EmptySet DEF Promised
<1>3. Rate * 0 = 0
  BY WatchAssumption
<1> QED BY <1>2, <1>3 DEF Owed

-----------------------------------------------------------------------------
(* The goroutines of a check.                                               *)

\* What the invariant says of one goroutine and of the state around it.
LEMMA Facts ==
  ASSUME WatchInv, NEW s \in Services
  PROVE  /\ job[s] \in Job /\ platform[s] \in Platforms /\ upstream[s] \in Tags
         /\ tokens[platform[s]] \in Int /\ known[s] \in Tags \cup {NoTag} /\ left \in 0..Deadline
         /\ Owing(s) /\ NoTag \notin Tags
BY WatchAssumption DEF WatchInv, WatchType

\* One goroutine moves, in a check.
Moves(s, j) ==
  /\ phase = "check" /\ job' = [job EXCEPT ![s] = j] /\ j \in Job /\ j.pc \notin {"none", "start"}
  /\ UNCHANGED <<platform, upstream, phase, first, left>>

LEMMA OneMoves ==
  ASSUME WatchInv, NEW s \in Services, NEW j, Moves(s, j),
         known' \in [Services -> Tags \cup {NoTag}], tokens' \in [Platforms -> Int],
         sent' \in [Platforms -> [1..Window -> Nat]],
         \A r \in Services \ {s} : known'[r] = known[r],
         \A p \in Platforms : Bucket(p)',
         j.pc = "refused" =>
           Cardinality({r \in Services : platform[r] = platform[s]}) > Rate * Deadline,
         first /\ known'[s] # NoTag => j.pc = "done",
         j.pc = "swap" => j.tag \in Tags,
         j.pc = "print" => known'[s] = j.tag /\ j.old \notin {NoTag, j.tag}
  PROVE  WatchInv'
<1>1. /\ job \in [Services -> Job] /\ phase = "check" /\ j \in Job /\ j.pc \notin {"none", "start"}
      /\ UNCHANGED <<platform, upstream, phase, first, left>> /\ job' = [job EXCEPT ![s] = j]
  BY DEF WatchInv, WatchType, Moves
<1>2. /\ job' \in [Services -> Job] /\ job'[s] = j
      /\ \A r \in Services \ {s} : job'[r] = job[r] /\ known'[r] = known[r]
  BY <1>1
<1>3. WatchType'
  BY <1>1, <1>2 DEF WatchInv, WatchType
<1>4. Checking'
  <2>1. \A r \in Services : job'[r].pc = "start" => left = Deadline
    BY <1>1, <1>2 DEF WatchInv, Checking
  <2> QED BY <1>1, <2>1 DEF Checking
<1>5. FirstLearns'
  <2>1. \A r \in Services : first /\ known'[r] # NoTag => job'[r].pc = "done"
    BY <1>2 DEF WatchInv, FirstLearns
  <2> QED BY <1>1, <2>1 DEF FirstLearns
<1>6. RefusedIsOverload'
  <2> SUFFICES ASSUME NEW r \in Services, job'[r].pc = "refused"
               PROVE  Cardinality({q \in Services : platform[q] = platform[r]}) > Rate * Deadline
    BY <1>1 DEF RefusedIsOverload
  <2>1. CASE r = s
    BY <1>2, <2>1
  <2>2. CASE r # s
    BY <1>2, <2>2 DEF WatchInv, RefusedIsOverload
  <2> QED BY <2>1, <2>2
<1>7. \A r \in Services : Owing(r)'
  <2> SUFFICES ASSUME NEW r \in Services PROVE Owing(r)'
    OBVIOUS
  <2>1. CASE r = s
    BY <1>2, <2>1 DEF Owing
  <2>2. CASE r # s
    <3>1. Owing(r) /\ job'[r] = job[r] /\ known'[r] = known[r]
      BY <1>2, <2>2 DEF WatchInv
    <3> QED BY <3>1 DEF Owing
  <2> QED BY <2>1, <2>2
<1> QED BY <1>3, <1>4, <1>5, <1>6, <1>7 DEF WatchInv

LEMMA OneMore ==
  ASSUME NEW f \in [1..Window -> Nat]
  PROVE  [k \in 1..Window |-> f[k] + 1] \in [1..Window -> Nat]
OBVIOUS

\* A goroutine that goes on leaves the tokens as they are; its request counts as sent.
LEMMA BucketsStand ==
  ASSUME WatchInv, NEW s \in Services, NEW j, Moves(s, j), UNCHANGED tokens,
         job[s].pc \notin {"none", "start", "refused"}, j.pc \notin {"refused", "wait"},
         \/ job[s].pc # "wait" /\ UNCHANGED sent
         \/ /\ job[s].pc = "wait" /\ job[s].wait = 0
            /\ sent' = [sent EXCEPT ![platform[s]] = [k \in 1..Window |-> @[k] + 1]]
  PROVE  /\ \A p \in Platforms : Bucket(p)'
         /\ sent' \in [Platforms -> [1..Window -> Nat]]
<1>1. /\ job \in [Services -> Job] /\ j.pc \notin {"none", "start"}
      /\ UNCHANGED <<platform, tokens>> /\ job' = [job EXCEPT ![s] = j]
      /\ tokens \in [Platforms -> Int] /\ platform[s] \in Platforms
      /\ sent \in [Platforms -> [1..Window -> Nat]]
  BY DEF WatchInv, WatchType, Moves
<1>2. job'[s] = j /\ \A r \in Services \ {s} : job'[r] = job[r]
  BY <1>1
<1>3. sent' \in [Platforms -> [1..Window -> Nat]]
  <2>1. CASE UNCHANGED sent
    BY <1>1, <2>1
  <2>2. CASE sent' = [sent EXCEPT ![platform[s]] = [k \in 1..Window |-> @[k] + 1]]
    <3> DEFINE f == [k \in 1..Window |-> sent[platform[s]][k] + 1]
    <3>1. f \in [1..Window -> Nat]
      <4>1. sent[platform[s]] \in [1..Window -> Nat]
        BY <1>1
      <4> QED BY <4>1, OneMore
    <3>2. sent' = [sent EXCEPT ![platform[s]] = f]
      BY <2>2
    <3> HIDE DEF f
    <3> QED BY <1>1, <3>1, <3>2
  <2> QED BY <2>1, <2>2
<1>4. ASSUME NEW p \in Platforms PROVE Promised(p)'
  <2>1. \A w \in Nat : Later(p, w)' = Later(p, w)
    BY <1>1, <1>2 DEF Later
  <2>2. \A w \in Nat : Owed(p, w)' = Owed(p, w)
    BY <1>1 DEF Owed
  <2>3. Promised(p)
    BY DEF WatchInv, Bucket
  <2> QED BY <2>1, <2>2, <2>3 DEF Promised
<1>5. ASSUME NEW p \in Platforms PROVE Drawn(p)'
  <2>1. Takers(p)' = Takers(p)
    BY <1>1, <1>2 DEF Takers
  <2>2. Drawn(p)
    BY DEF WatchInv, Bucket
  <2> QED BY <1>1, <2>1, <2>2 DEF Drawn
<1>6. ASSUME NEW p \in Platforms PROVE Spent(p)'
  <2>1. Spent(p)
    BY DEF WatchInv, Bucket
  <2>2. Held(p)' = Held(p)
    BY <1>1 DEF Held
  <2>3. CASE job[s].pc # "wait" \/ p # platform[s]
    <3>1. Due(p)' = Due(p)
      BY <1>1, <1>2, <2>3 DEF Due
    <3>2. sent'[p] = sent[p]
      BY <1>1, <2>3
    <3> QED BY <2>1, <2>2, <3>1, <3>2 DEF Spent, Most
  <2>4. CASE job[s].pc = "wait" /\ p = platform[s]
    <3>1. Due(p)' = Due(p) \ {s} /\ s \in Due(p)
      BY <1>1, <1>2, <2>4 DEF Due
    <3>2. IsFiniteSet(Due(p)) /\ Cardinality(Due(p)) \in Nat
      BY Groups, Countable
    <3>3. Cardinality(Due(p) \ {s}) = Cardinality(Due(p)) - 1
      BY <3>1, <3>2, FS_RemoveElement
    <3>4. \A k \in 1..Window : sent'[p][k] = sent[p][k] + 1 /\ sent[p][k] \in Nat
      <4>1. sent[p] \in [1..Window -> Nat]
        BY <1>1, <2>4
      <4>2. sent' = [sent EXCEPT ![platform[s]] = [k \in 1..Window |-> sent[platform[s]][k] + 1]]
        BY <2>4
      <4>3. sent'[p] = [k \in 1..Window |-> sent[p][k] + 1]
        BY <1>1, <2>4, <4>2
      <4> QED BY <4>1, <4>3
    <3>5. Held(p) \in Int
      BY <1>1 DEF Held
    <3> SUFFICES ASSUME NEW k \in 1..Window
                 PROVE  sent'[p][k] + Cardinality(Due(p) \ {s}) + Held(p) <= Most + Rate * (k - 1)
      BY <2>2, <3>1 DEF Spent, Most
    <3>6. sent[p][k] + Cardinality(Due(p)) + Held(p) <= Most + Rate * (k - 1)
      BY <2>1 DEF Spent
    <3>7. sent'[p][k] + Cardinality(Due(p) \ {s}) + Held(p)
          = sent[p][k] + Cardinality(Due(p)) + Held(p)
      <4> DEFINE a == sent[p][k]
                 b == sent'[p][k]
                 n == Cardinality(Due(p))
                 m == Cardinality(Due(p) \ {s})
                 h == Held(p)
      <4>1. a \in Int /\ b = a + 1
        BY <3>4
      <4>2. n \in Int /\ m = n - 1
        BY <3>2, <3>3
      <4>3. h \in Int
        BY <3>5
      <4> HIDE DEF a, b, n, m, h
      <4>4. b + m + h = a + n + h
        BY <4>1, <4>2, <4>3
      <4> QED BY <4>4 DEF a, b, n, m, h
    <3> QED BY <3>6, <3>7
  <2> QED BY <2>3, <2>4
<1> QED BY <1>3, <1>4, <1>5, <1>6 DEF Bucket

\* The limiter gives a goroutine its token, or a promise of one.
LEMMA Granted ==
  ASSUME WatchInv, NEW s \in Services, NEW w \in Nat, NEW j, Moves(s, j),
         job[s].pc = "start", j.pc = "wait", j.wait = w, UNCHANGED sent,
         tokens' = [tokens EXCEPT ![platform[s]] = @ - 1],
         \/ tokens[platform[s]] > 0 /\ w = 0
         \/ /\ tokens[platform[s]] <= 0 /\ w > 0
            /\ \A v \in Nat : v < w <=> Rate * v <= -tokens[platform[s]]
  PROVE  /\ \A p \in Platforms : Bucket(p)'
         /\ tokens' \in [Platforms -> Int]
<1>1. /\ job \in [Services -> Job] /\ UNCHANGED platform /\ job' = [job EXCEPT ![s] = j]
      /\ tokens \in [Platforms -> Int] /\ platform[s] \in Platforms
      /\ sent \in [Platforms -> [1..Window -> Nat]]
  BY DEF WatchInv, WatchType, Moves
<1>2. job'[s] = j /\ \A r \in Services \ {s} : job'[r] = job[r]
  BY <1>1
<1>3. /\ tokens' \in [Platforms -> Int] /\ tokens'[platform[s]] = tokens[platform[s]] - 1
      /\ \A p \in Platforms \ {platform[s]} : tokens'[p] = tokens[p]
  BY <1>1
<1>4. ASSUME NEW p \in Platforms, p # platform[s] PROVE Bucket(p)'
  <2>1. /\ Takers(p)' = Takers(p) /\ Due(p)' = Due(p)
        /\ \A v \in Nat : Later(p, v)' = Later(p, v)
    BY <1>1, <1>2, <1>4 DEF Takers, Due, Later
  <2>2. tokens'[p] = tokens[p] /\ sent' = sent
    BY <1>3, <1>4
  <2>3. Promised(p) /\ Spent(p) /\ Drawn(p)
    BY DEF WatchInv, Bucket
  <2>4. Promised(p)'
    BY <2>1, <2>2, <2>3 DEF Promised, Owed
  <2>5. Spent(p)'
    BY <2>1, <2>2, <2>3 DEF Spent, Held, Most
  <2>6. Drawn(p)'
    BY <2>1, <2>2, <2>3 DEF Drawn
  <2> QED BY <2>4, <2>5, <2>6 DEF Bucket
<1> DEFINE p == platform[s]
           t == tokens[p]
<1>5. /\ t \in Int /\ tokens'[p] = t - 1 /\ p \in Platforms /\ p' = p
      /\ Promised(p) /\ Spent(p) /\ Drawn(p)
  BY <1>1, <1>3 DEF WatchInv, Bucket
<1> HIDE DEF p
<1>6. /\ platform[s] = p /\ job[s].pc = "start" /\ j.pc = "wait" /\ j.wait = w
      /\ \/ t > 0 /\ w = 0
         \/ t <= 0 /\ w > 0 /\ \A v \in Nat : v < w <=> Rate * v <= -t
  BY DEF p
<1> HIDE DEF t
<1>7. ASSUME NEW v \in Nat
      PROVE  Cardinality({r \in Services : platform[r] = p /\ job'[r].pc = "wait" /\ job'[r].wait > v})
             = IF -(t - 1) > Rate * v THEN -(t - 1) - Rate * v ELSE 0
  <2> DEFINE L == {r \in Services : platform[r] = p /\ job'[r].pc = "wait" /\ job'[r].wait > v}
  <2>1. /\ Cardinality(Later(p, v)) = (IF -t > Rate * v THEN -t - Rate * v ELSE 0)
        /\ IsFiniteSet(Later(p, v)) /\ Rate * v \in Nat
    <3>1. Rate * v \in Nat
      BY WatchAssumption
    <3>2. IsFiniteSet(Later(p, v))
      BY Groups, Countable
    <3>3. Cardinality(Later(p, v)) = Owed(p, v)
      BY <1>5 DEF Promised
    <3> QED BY <3>1, <3>2, <3>3 DEF Owed, t
  <2>2. CASE v < w
    <3>1. L = Later(p, v) \cup {s} /\ s \notin Later(p, v)
      BY <1>1, <1>2, <1>6, <2>2 DEF Later
    <3>2. Cardinality(L) = Cardinality(Later(p, v)) + 1
      BY <2>1, <3>1, FS_AddElement
    <3>3. t <= 0 /\ Rate * v <= -t
      BY <1>6, <2>2
    <3> QED BY <1>5, <2>1, <3>2, <3>3
  <2>3. CASE ~(v < w)
    <3>1. L = Later(p, v)
      BY <1>1, <1>2, <1>6, <2>3 DEF Later
    <3>2. t > 0 \/ ~(Rate * v <= -t)
      BY <1>6, <2>3
    <3> HIDE DEF L
    <3>3. ~(-t > Rate * v) /\ ~(-(t - 1) > Rate * v)
      <4>1. CASE t > 0
        BY <1>5, <2>1, <4>1
      <4>2. CASE ~(Rate * v <= -t)
        <5>1. ~(-t > Rate * v)
          BY <1>5, <2>1, <4>2
        <5>2. ~(-(t - 1) > Rate * v)
          BY <1>5, <2>1, <4>2
        <5> QED BY <5>1, <5>2
      <4> QED BY <3>2, <4>1, <4>2
    <3>4. Cardinality(L) = 0
      BY <2>1, <3>1, <3>3
    <3> QED BY <3>3, <3>4 DEF L
  <2> QED BY <2>2, <2>3
<1>8. ASSUME NEW k \in 1..Window
      PROVE  sent[p][k] + Cardinality({r \in Services : platform[r] = p /\ job'[r].pc = "wait"
                                                                        /\ job'[r].wait = 0})
               + (IF t - 1 > 0 THEN t - 1 ELSE 0) <= Most + Rate * (k - 1)
  <2> DEFINE D == {r \in Services : platform[r] = p /\ job'[r].pc = "wait" /\ job'[r].wait = 0}
  <2>1. /\ sent[p][k] + Cardinality(Due(p)) + (IF t > 0 THEN t ELSE 0) <= Most + Rate * (k - 1)
        /\ sent[p][k] \in Nat
    BY <1>1, <1>5 DEF Spent, Held, t
  <2>2. IsFiniteSet(Due(p)) /\ Cardinality(Due(p)) \in Nat
    BY Groups, Countable
  <2>3. CASE t > 0 /\ w = 0
    <3>1. D = Due(p) \cup {s} /\ s \notin Due(p)
      BY <1>1, <1>2, <1>6, <2>3 DEF Due
    <3>2. Cardinality(D) = Cardinality(Due(p)) + 1
      BY <2>2, <3>1, FS_AddElement
    <3>3. sent[p][k] + Cardinality(D) + (IF t - 1 > 0 THEN t - 1 ELSE 0)
          = sent[p][k] + Cardinality(Due(p)) + (IF t > 0 THEN t ELSE 0)
      <4> HIDE DEF D
      <4> QED BY <1>5, <2>1, <2>2, <2>3, <3>2
    <3> QED BY <2>1, <3>3
  <2>4. CASE t <= 0 /\ w > 0
    <3>1. D = Due(p)
      BY <1>1, <1>2, <1>6, <2>4 DEF Due
    <3>2. (IF t - 1 > 0 THEN t - 1 ELSE 0) = (IF t > 0 THEN t ELSE 0)
      BY <1>5, <2>4
    <3> QED BY <2>1, <3>1, <3>2
  <2> QED BY <1>6, <2>3, <2>4
<1>9. tokens'[p] >= -Cardinality({r \in Services : platform[r] = p
                                     /\ job'[r].pc \notin {"none", "start", "refused"}})
  <2> DEFINE K == {r \in Services : platform[r] = p
                                    /\ job'[r].pc \notin {"none", "start", "refused"}}
  <2>1. t >= -Cardinality(Takers(p)) /\ IsFiniteSet(Takers(p)) /\ Cardinality(Takers(p)) \in Nat
    BY <1>5, Groups, Countable DEF Drawn, t
  <2>2. K = Takers(p) \cup {s} /\ s \notin Takers(p)
    BY <1>1, <1>2, <1>6 DEF Takers
  <2>3. Cardinality(K) = Cardinality(Takers(p)) + 1
    BY <2>1, <2>2, FS_AddElement
  <2> HIDE DEF K
  <2> QED BY <1>5, <2>1, <2>3 DEF K
<1>10. Bucket(platform[s])'
  <2>1. Promised(platform[s])'
    BY <1>1, <1>5, <1>6, <1>7 DEF Promised, Later, Owed
  <2>2. Spent(platform[s])'
    BY <1>1, <1>5, <1>6, <1>8 DEF Spent, Due, Held, Most
  <2>3. Drawn(platform[s])'
    BY <1>1, <1>5, <1>6, <1>9 DEF Drawn, Takers
  <2> QED BY <2>1, <2>2, <2>3 DEF Bucket
<1>11. ASSUME NEW q \in Platforms PROVE Bucket(q)'
  BY <1>1, <1>4, <1>10
<1> QED BY <1>3, <1>11

LEMMA JobAt ==
  ASSUME NEW j \in Job, NEW x \in {"none", "start", "wait", "refused", "sent", "swap", "print", "done"}
  PROVE  LET e == [j EXCEPT !.pc = x]
         IN e \in Job /\ e.pc = x /\ e.wait = j.wait /\ e.tag = j.tag /\ e.old = j.old
BY DEF Job

\* A bucket stands as long as its tokens, its count and those who draw on it do.
LEMMA BucketIsFramed ==
  ASSUME WatchInv, NEW q \in Platforms, tokens'[q] = tokens[q], sent'[q] = sent[q],
         Takers(q)' = Takers(q), Due(q)' = Due(q), \A w \in Nat : Later(q, w)' = Later(q, w)
  PROVE  Bucket(q)'
<1>1. Promised(q) /\ Spent(q) /\ Drawn(q)
  BY DEF WatchInv, Bucket
<1>2. Promised(q)'
  BY <1>1 DEF Promised, Owed
<1>3. Spent(q)'
  BY <1>1 DEF Spent, Held, Most
<1>4. Drawn(q)'
  BY <1>1 DEF Drawn
<1> QED BY <1>2, <1>3, <1>4 DEF Bucket

LEMMA WaitStep ==
  ASSUME WatchInv, phase = "check", NEW s \in Services, Wait(s)
  PROVE  WatchInv'
<1> DEFINE p == platform[s]
           d == Delay(p)
<1>1. /\ job[s] \in Job /\ p \in Platforms /\ tokens[p] \in Int /\ job[s].pc = "start"
      /\ UNCHANGED <<left, first, known, platform, upstream, phase, sent>>
      /\ tokens \in [Platforms -> Int] /\ known \in [Services -> Tags \cup {NoTag}]
      /\ sent \in [Platforms -> [1..Window -> Nat]]
      /\ left = Deadline /\ (first => known[s] = NoTag)
  BY Facts DEF Wait, At, WatchInv, WatchType, Checking, FirstLearns, memory, world, control
<1>2. d = IF tokens[p] > 0 THEN 0 ELSE (Rate - tokens[p]) \div Rate
  BY DEF Delay
<1>3. CASE d > left
  <2> DEFINE j == [job[s] EXCEPT !.pc = "refused"]
  <2>1. job' = [job EXCEPT ![s] = j] /\ UNCHANGED tokens
    BY <1>3 DEF Wait, Limiter, At
  <2>2. j \in Job /\ j.pc = "refused"
    BY <1>1, JobAt
  <2> HIDE DEF j
  <2>3. Moves(s, j)
    BY <1>1, <2>1, <2>2 DEF Moves
  <2>4. -tokens[p] >= Rate * Deadline
    BY <1>1, <1>2, <1>3, RefusalMeans
  <2>5. Cardinality({r \in Services : platform[r] = platform[s]}) > Rate * Deadline
    <3> DEFINE S == {r \in Services : platform[r] = platform[s]}
    <3>1. IsFiniteSet(S)
      BY WatchAssumption, FS_Subset
    <3>2. Takers(p) \subseteq S \ {s} /\ s \in S
      BY <1>1 DEF Takers
    <3>3. /\ IsFiniteSet(S \ {s}) /\ Cardinality(S \ {s}) = Cardinality(S) - 1
          /\ Cardinality(S) \in Nat
      BY <3>1, <3>2, FS_RemoveElement, FS_CardinalityType
    <3>4. Cardinality(Takers(p)) <= Cardinality(S \ {s}) /\ Cardinality(Takers(p)) \in Nat
      BY <3>2, <3>3, FS_Subset, Counts
    <3>5. tokens[p] >= -Cardinality(Takers(p))
      BY <1>1 DEF WatchInv, Bucket, Drawn
    <3>6. Rate * Deadline \in Int
      BY WatchAssumption
    <3> HIDE DEF S
    <3> QED BY <1>1, <2>4, <3>3, <3>4, <3>5, <3>6 DEF S
  <2>6. \A q \in Platforms : Bucket(q)'
    <3> TAKE q \in Platforms
    <3>1. job' = [job EXCEPT ![s] = j] /\ job \in [Services -> Job]
      BY <2>1 DEF WatchInv, WatchType
    <3>2. job'[s] = j /\ \A r \in Services \ {s} : job'[r] = job[r]
      BY <3>1
    <3>3. /\ Takers(q)' = Takers(q) /\ Due(q)' = Due(q)
          /\ \A w \in Nat : Later(q, w)' = Later(q, w)
      BY <1>1, <2>2, <3>2 DEF Takers, Due, Later
    <3>4. tokens' = tokens /\ sent' = sent
      BY <1>1, <2>1
    <3> QED BY <3>3, <3>4, BucketIsFramed
  <2>7. /\ tokens' \in [Platforms -> Int] /\ known' = known
        /\ sent' \in [Platforms -> [1..Window -> Nat]]
    BY <1>1, <2>1
  <2> QED BY <1>1, <2>2, <2>3, <2>5, <2>6, <2>7, OneMoves
<1>4. CASE ~(d > left)
  <2> DEFINE j0 == [job[s] EXCEPT !.pc = "wait"]
             j == [j0 EXCEPT !.wait = d]
  <2>1. /\ job' = [job EXCEPT ![s] = j]
        /\ tokens' = [tokens EXCEPT ![p] = @ - 1]
    BY <1>4 DEF Wait, Limiter, At
  <2>2. /\ d \in Nat
        /\ \/ tokens[p] > 0 /\ d = 0
           \/ /\ tokens[p] <= 0 /\ d > 0
              /\ \A v \in Nat : v < d <=> Rate * v <= -tokens[p]
    <3>1. CASE tokens[p] > 0
      BY <1>2, <3>1
    <3>2. CASE ~(tokens[p] > 0)
      <4>1. tokens[p] <= 0 /\ d = (Rate - tokens[p]) \div Rate
        BY <1>1, <1>2, <3>2
      <4> QED BY <1>1, <4>1, WaitFits
    <3> QED BY <3>1, <3>2
  <2>3. j0 \in Job /\ j0.pc = "wait"
    BY <1>1, JobAt
  <2> HIDE DEF j0, d
  <2>4. j \in Job /\ j.pc = "wait" /\ j.wait = d
    BY <2>2, <2>3 DEF Job
  <2> HIDE DEF j
  <2>5. Moves(s, j)
    BY <1>1, <2>1, <2>4 DEF Moves
  <2>6. /\ \A q \in Platforms : Bucket(q)'
        /\ tokens' \in [Platforms -> Int]
    BY <1>1, <2>1, <2>2, <2>4, <2>5, Granted
  <2> QED BY <1>1, <2>4, <2>5, <2>6, OneMoves
<1> QED BY <1>3, <1>4

\* The steps of a goroutine that has its token.
LEMMA LaterSteps ==
  ASSUME WatchInv, phase = "check", NEW s \in Services,
         Send(s) \/ Reply(s) \/ Fail(s) \/ Swap(s) \/ PrintNew(s)
  PROVE  WatchInv'
<1> DEFINE more == [sent EXCEPT ![platform[s]] = [k \in 1..Window |-> @[k] + 1]]
<1>1. /\ job[s] \in Job /\ known[s] \in Tags \cup {NoTag} /\ upstream[s] \in Tags
      /\ NoTag \notin Tags /\ Owing(s)
      /\ tokens \in [Platforms -> Int] /\ known \in [Services -> Tags \cup {NoTag}]
  BY Facts DEF WatchInv, WatchType
<1>2. UNCHANGED <<platform, upstream, phase, first, left, tokens>>
  BY DEF Send, Reply, Fail, Swap, PrintNew, At, bucket, memory, world, control
<1>3. /\ job[s].pc \in {"wait", "sent", "swap", "print"}
      /\ job[s].pc = "wait" => job[s].wait = 0
      /\ job[s].pc \in {"wait", "sent", "swap"} /\ first => known[s] = NoTag
  BY DEF Send, Reply, Fail, Swap, PrintNew, WatchInv, FirstLearns
<1>4. \/ job[s].pc # "wait" /\ UNCHANGED sent
      \/ job[s].pc = "wait" /\ job[s].wait = 0 /\ sent' = more
  BY DEF Send, Reply, Fail, Swap, PrintNew, bucket
<1>5. ASSUME NEW j, job' = [job EXCEPT ![s] = j], j \in Job, j.pc \in {"sent", "swap", "print", "done"},
             known' \in [Services -> Tags \cup {NoTag}],
             \A r \in Services \ {s} : known'[r] = known[r],
             first /\ known'[s] # NoTag => j.pc = "done",
             j.pc = "swap" => j.tag \in Tags,
             j.pc = "print" => known'[s] = j.tag /\ j.old \notin {NoTag, j.tag}
      PROVE  WatchInv'
  <2>1. Moves(s, j)
    BY <1>2, <1>5 DEF Moves
  <2>2. /\ \A p \in Platforms : Bucket(p)'
        /\ sent' \in [Platforms -> [1..Window -> Nat]]
    BY <1>2, <1>3, <1>5, <1>4, <2>1, BucketsStand
  <2>3. tokens' \in [Platforms -> Int]
    BY <1>1, <1>2
  <2> QED BY <1>5, <2>1, <2>2, <2>3, OneMoves
<1> HIDE DEF more
<1>6. CASE Send(s)
  <2> DEFINE j == [job[s] EXCEPT !.pc = "sent"]
  <2>1. job' = [job EXCEPT ![s] = j] /\ known' = known /\ job[s].pc = "wait"
    BY <1>6 DEF Send, At, memory
  <2>2. j \in Job /\ j.pc = "sent"
    BY <1>1, JobAt
  <2> HIDE DEF j
  <2> QED BY <1>1, <1>3, <1>5, <2>1, <2>2
<1>7. CASE Fail(s)
  <2> DEFINE j == [job[s] EXCEPT !.pc = "done"]
  <2>1. job' = [job EXCEPT ![s] = j] /\ known' = known
    BY <1>7 DEF Fail, At, memory
  <2>2. j \in Job /\ j.pc = "done"
    BY <1>1, JobAt
  <2> HIDE DEF j
  <2> QED BY <1>1, <1>5, <2>1, <2>2
<1>8. CASE Reply(s)
  <2> DEFINE j0 == [job[s] EXCEPT !.pc = "swap"]
             j == [j0 EXCEPT !.tag = upstream[s]]
  <2>1. job' = [job EXCEPT ![s] = j] /\ known' = known /\ job[s].pc = "sent"
    BY <1>8 DEF Reply, At, memory
  <2>2. j0 \in Job /\ j0.pc = "swap"
    BY <1>1, JobAt
  <2> HIDE DEF j0
  <2>3. j \in Job /\ j.pc = "swap" /\ j.tag = upstream[s]
    BY <1>1, <2>2 DEF Job
  <2> HIDE DEF j
  <2> QED BY <1>1, <1>3, <1>5, <2>1, <2>3
<1>9. CASE Swap(s)
  <2>1. job[s].pc = "swap" /\ known' = [known EXCEPT ![s] = job[s].tag] /\ job[s].tag \in Tags
    BY <1>1, <1>9 DEF Swap, Owing
  <2>2. /\ known' \in [Services -> Tags \cup {NoTag}] /\ known'[s] = job[s].tag
        /\ \A r \in Services \ {s} : known'[r] = known[r]
    BY <1>1, <2>1
  <2>3. CASE IsNews(s)
    <3> DEFINE j0 == [job[s] EXCEPT !.pc = "print"]
               j == [j0 EXCEPT !.old = known[s]]
    <3>1. job' = [job EXCEPT ![s] = j] /\ ~first /\ known[s] \notin {NoTag, job[s].tag}
      BY <1>9, <2>3 DEF Swap, At, IsNews
    <3>2. j0 \in Job /\ j0.pc = "print" /\ j0.tag = job[s].tag
      BY <1>1, JobAt
    <3> HIDE DEF j0
    <3>3. j \in Job /\ j.pc = "print" /\ j.tag = job[s].tag /\ j.old = known[s]
      BY <1>1, <3>2 DEF Job
    <3> HIDE DEF j
    <3> QED BY <1>5, <2>2, <3>1, <3>3
  <2>4. CASE ~IsNews(s)
    <3> DEFINE j == [job[s] EXCEPT !.pc = "done"]
    <3>1. job' = [job EXCEPT ![s] = j]
      BY <1>9, <2>4 DEF Swap, At
    <3>2. j \in Job /\ j.pc = "done"
      BY <1>1, JobAt
    <3> HIDE DEF j
    <3> QED BY <1>5, <2>2, <3>1, <3>2
  <2> QED BY <2>3, <2>4
<1>10. CASE PrintNew(s)
  <2> DEFINE j == [job[s] EXCEPT !.pc = "done"]
  <2>1. job' = [job EXCEPT ![s] = j] /\ known' = known
    BY <1>10 DEF PrintNew, At
  <2>2. j \in Job /\ j.pc = "done"
    BY <1>1, JobAt
  <2> HIDE DEF j
  <2> QED BY <1>1, <1>5, <2>1, <2>2
<1> QED BY <1>6, <1>8, <1>9, <1>10, <1>7

-----------------------------------------------------------------------------
(* The command, and what happens around it.                                 *)

\* Between checks a bucket owes nothing: the check before has waited for all it promised.
LEMMA NobodyDraws ==
  ASSUME WatchInv, NEW p \in Platforms, UNCHANGED <<tokens, sent>>,
         \A s \in Services : job[s].pc # "wait",
         \A s \in Services : job'[s].pc \in {"none", "start"}
  PROVE  Bucket(p)'
<1>1. Promised(p) /\ Spent(p) /\ tokens[p] \in Int
  BY DEF WatchInv, WatchType, Bucket
<1>2. tokens[p] >= 0
  BY <1>1, NoDebt
<1>3. /\ Takers(p)' = {} /\ Due(p)' = {} /\ \A w \in Nat : Later(p, w)' = {}
      /\ Due(p) = {} /\ \A w \in Nat : Later(p, w) = {}
  BY DEF Takers, Due, Later
<1>4. Promised(p)'
  BY <1>1, <1>3 DEF Promised, Owed
<1>5. Spent(p)'
  BY <1>1, <1>3 DEF Spent, Held, Most
<1>6. Drawn(p)'
  BY <1>1, <1>2, <1>3, FS_EmptySet DEF Drawn
<1> QED BY <1>4, <1>5, <1>6 DEF Bucket

\* A check begins without a debt, since the one before it has waited for all it promised.
LEMMA CheckStep ==
  ASSUME WatchInv, Check, \A s \in Services : job[s].pc = "none",
         UNCHANGED <<platform, upstream, tokens, sent, known, first>>,
         first => \A s \in Services : known[s] = NoTag
  PROVE  WatchInv'
<1>1. /\ \A s \in Services : job'[s] = Goroutine
      /\ phase' = "check" /\ left' = Deadline /\ job' = [s \in Services |-> Goroutine]
  BY DEF Check
<1>2. Goroutine \in Job /\ Goroutine.pc = "start"
  BY DEF Goroutine, NoGoroutine, Job
<1>3. WatchType'
  BY <1>1, <1>2, WatchAssumption DEF WatchInv, WatchType
<1>4. Checking' /\ FirstLearns' /\ RefusedIsOverload'
  BY <1>1, <1>2 DEF Checking, FirstLearns, RefusedIsOverload
<1>5. ASSUME NEW p \in Platforms PROVE Bucket(p)'
  BY <1>1, <1>2, NobodyDraws
<1>6. \A s \in Services : Owing(s)'
  BY <1>1, <1>2 DEF Owing
<1> QED BY <1>3, <1>4, <1>5, <1>6 DEF WatchInv

LEMMA CheckDoneStep ==
  ASSUME WatchInv, CheckDone
  PROVE  WatchInv'
<1>1. /\ \A s \in Services : job[s].pc \in {"done", "refused"}
      /\ phase' \in {"stopped", "select"} /\ first' = FALSE /\ left' = 0
      /\ job' = [s \in Services |-> NoGoroutine]
      /\ UNCHANGED <<platform, upstream, tokens, sent, known>>
  BY DEF CheckDone, Returned, world, memory
<1>2. NoGoroutine \in Job /\ NoGoroutine.pc = "none" /\ \A s \in Services : job'[s] = NoGoroutine
  BY <1>1 DEF NoGoroutine, Job
<1>3. WatchType'
  BY <1>1, <1>2, WatchAssumption DEF WatchInv, WatchType
<1>4. Checking' /\ FirstLearns' /\ RefusedIsOverload'
  BY <1>1, <1>2 DEF Checking, FirstLearns, RefusedIsOverload
<1>5. ASSUME NEW p \in Platforms PROVE Bucket(p)'
  BY <1>1, <1>2, NobodyDraws
<1>6. \A s \in Services : Owing(s)'
  BY <1>2 DEF Owing
<1> QED BY <1>3, <1>4, <1>5, <1>6 DEF WatchInv

\* A promise is a tick nearer when the bucket has gained a tick's tokens.
LEMMA OwedLess ==
  ASSUME NEW t \in Int, NEW u \in Int, NEW r \in Nat,
         u = IF t + Rate > Burst THEN Burst ELSE t + Rate
  PROVE  (IF -u > r THEN -u - r ELSE 0) = IF -t > r + Rate THEN -t - (r + Rate) ELSE 0
BY WatchAssumption

\* A tick fills the buckets and brings every promise nearer by as much.
LEMMA ClockStep ==
  ASSUME WatchInv, Clock
  PROVE  WatchInv'
<1>1. /\ phase \in {"check", "select"}
      /\ \A s \in Services : /\ job[s].pc \notin {"start", "swap", "print"}
                             /\ job[s].pc = "wait" => job[s].wait > 0
      /\ left' = (IF left > 0 THEN left - 1 ELSE 0)
      /\ tokens' = [p \in Platforms |-> IF tokens[p] + Rate > Burst THEN Burst ELSE tokens[p] + Rate]
      /\ sent' = [p \in Platforms |-> [k \in 1..Window |-> IF k = 1 THEN 0 ELSE sent[p][k - 1]]]
      /\ job' = [s \in Services |-> IF job[s].pc = "wait" THEN [job[s] EXCEPT !.wait = @ - 1] ELSE job[s]]
      /\ UNCHANGED <<platform, upstream, known, first, phase>>
  BY DEF Clock, world, control, memory
<1>2. /\ job \in [Services -> Job] /\ tokens \in [Platforms -> Int] /\ left \in 0..Deadline
      /\ sent \in [Platforms -> [1..Window -> Nat]] /\ Window \in Nat \ {0}
      /\ Rate \in Nat \ {0} /\ Burst \in Nat \ {0} /\ Deadline \in Nat
  BY WatchAssumption DEF WatchInv, WatchType
<1>3. ASSUME NEW s \in Services
      PROVE  /\ job'[s] \in Job /\ job'[s].pc = job[s].pc /\ job'[s].tag = job[s].tag
             /\ job'[s].old = job[s].old
             /\ job[s].pc = "wait" => job'[s].wait = job[s].wait - 1
  <2>1. job[s] \in Job
    BY <1>2
  <2>2. CASE job[s].pc = "wait"
    <3> DEFINE w == job[s].wait - 1
    <3>1. job'[s] = [job[s] EXCEPT !.wait = w]
      BY <1>1, <2>2
    <3>2. w \in Nat
      BY <1>1, <2>1, <2>2 DEF Job
    <3> HIDE DEF w
    <3>3. /\ job'[s] \in Job /\ job'[s].pc = job[s].pc /\ job'[s].tag = job[s].tag
          /\ job'[s].old = job[s].old /\ job'[s].wait = w
      BY <2>1, <3>1, <3>2 DEF Job
    <3> QED BY <3>3 DEF w
  <2>3. CASE job[s].pc # "wait"
    BY <1>1, <2>1, <2>3
  <2> QED BY <2>2, <2>3
<1>4. ASSUME NEW p \in Platforms
      PROVE  /\ tokens[p] \in Int /\ tokens'[p] \in Int
             /\ tokens'[p] = IF tokens[p] + Rate > Burst THEN Burst ELSE tokens[p] + Rate
  BY <1>1, <1>2
<1>5. ASSUME NEW p \in Platforms, NEW k \in 1..Window
       PROVE  /\ sent'[p][k] = IF k = 1 THEN 0 ELSE sent[p][k - 1]
              /\ sent'[p][k] \in Nat
              /\ k # 1 => k - 1 \in 1..Window
  <2>1. sent[p] \in [1..Window -> Nat] /\ (k # 1 => k - 1 \in 1..Window)
    BY <1>2
  <2>2. sent'[p][k] = IF k = 1 THEN 0 ELSE sent[p][k - 1]
    BY <1>1
  <2>3. CASE k = 1
    BY <2>2, <2>3
  <2>4. CASE k # 1
    <3>1. sent[p][k - 1] \in Nat /\ sent'[p][k] = sent[p][k - 1]
      BY <2>1, <2>2, <2>4
    <3> QED BY <2>1, <2>2, <2>4, <3>1
  <2> QED BY <2>3, <2>4
<1>6. WatchType'
  <2>1. job' \in [Services -> Job]
    BY <1>1, <1>3
  <2>2. tokens' \in [Platforms -> Int]
    BY <1>1, <1>4
  <2>3. left' \in 0..Deadline
    BY <1>1, <1>2
  <2>4. sent' \in [Platforms -> [1..Window -> Nat]]
    <3>1. \A p \in Platforms : sent'[p] \in [1..Window -> Nat]
      <4> TAKE p \in Platforms
      <4>1. sent'[p] = [k \in 1..Window |-> IF k = 1 THEN 0 ELSE sent[p][k - 1]]
        BY <1>1
      <4> DEFINE f == sent'[p]
      <4>2. f = [k \in 1..Window |-> f[k]] /\ \A k \in 1..Window : f[k] \in Nat
        BY <1>5, <4>1
      <4> HIDE DEF f
      <4>3. f \in [1..Window -> Nat]
        BY <4>2
      <4> QED BY <4>3 DEF f
    <3>2. sent' = [p \in Platforms |-> sent'[p]]
      BY <1>1
    <3> QED BY <3>1, <3>2
  <2> QED BY <1>1, <2>1, <2>2, <2>3, <2>4 DEF WatchInv, WatchType
<1>7. Checking' /\ FirstLearns' /\ \A s \in Services : Owing(s)'
  BY <1>1, <1>3 DEF WatchInv, Checking, FirstLearns, Owing
<1>8. RefusedIsOverload'
  BY <1>1, <1>3 DEF WatchInv, RefusedIsOverload
<1>9. \A s \in Services : job[s].pc = "wait" => job[s].wait \in Nat \ {0}
  BY <1>1, <1>2 DEF Job
<1>10. ASSUME NEW p \in Platforms PROVE Promised(p)'
  <2> SUFFICES ASSUME NEW w \in Nat PROVE Cardinality(Later(p, w)') = Owed(p, w)'
    BY DEF Promised
  <2>1. Later(p, w)' = Later(p, w + 1)
    BY <1>1, <1>3, <1>9 DEF Later
  <2>2. Cardinality(Later(p, w + 1)) = Owed(p, w + 1)
    BY DEF WatchInv, Bucket, Promised
  <2>3. Rate * (w + 1) = Rate * w + Rate /\ Rate * w \in Nat
    BY <1>2
  <2>4. Owed(p, w)' = Owed(p, w + 1)
    <3> DEFINE t == tokens[p]
               u == tokens'[p]
               r == Rate * w
    <3>1. /\ t \in Int /\ u \in Int /\ r \in Nat
          /\ u = IF t + Rate > Burst THEN Burst ELSE t + Rate
      BY <1>4, <2>3
    <3>2. (IF -u > r THEN -u - r ELSE 0) = IF -t > r + Rate THEN -t - (r + Rate) ELSE 0
      <4> HIDE DEF t, u, r
      <4> QED BY <3>1, OwedLess
    <3> QED BY <2>3, <3>2 DEF Owed
  <2> QED BY <2>1, <2>2, <2>4
<1>11. ASSUME NEW p \in Platforms PROVE Spent(p)'
  <2> DEFINE t == tokens[p]
             u == tokens'[p]
             l0 == Cardinality(Later(p, 0))
             l1 == Cardinality(Later(p, 1))
  <2>1. Due(p)' = Later(p, 0) \ Later(p, 1) /\ Due(p) = {}
    BY <1>1, <1>3, <1>9 DEF Later, Due
  <2>2. Cardinality(Due(p)') = l0 - l1 /\ l0 \in Nat /\ l1 \in Nat
    <3>1. IsFiniteSet(Later(p, 0)) /\ l0 \in Nat /\ l1 \in Nat
      BY Groups, Countable
    <3>2. Later(p, 0) \cap Later(p, 1) = Later(p, 1)
      BY <1>9 DEF Later
    <3> QED BY <2>1, <3>1, <3>2, FS_Difference
  <2>3. l0 = (IF -t > 0 THEN -t ELSE 0) /\ l1 = (IF -t > Rate THEN -t - Rate ELSE 0)
    <3>1. l0 = Owed(p, 0) /\ l1 = Owed(p, 1) /\ t \in Int
      BY <1>4 DEF WatchInv, Bucket, Promised
    <3>2. Rate * 0 = 0 /\ Rate * 1 = Rate
      BY <1>2
    <3>3. t - 0 = t /\ -t - 0 = -t
      BY <3>1
    <3> QED BY <3>1, <3>2, <3>3 DEF Owed
  <2>4. u = (IF t + Rate > Burst THEN Burst ELSE t + Rate) /\ t \in Int /\ u \in Int
    BY <1>4
  <2> HIDE DEF l0, l1, t, u
  <2>5. /\ (l0 - l1) + (IF u > 0 THEN u ELSE 0) <= Rate + (IF t > 0 THEN t ELSE 0)
        /\ (l0 - l1) + (IF u > 0 THEN u ELSE 0) <= Most
    <3>1. l0 \in Int /\ l1 \in Int
      BY <2>2
    <3> QED BY <2>3, <2>4, <3>1, TickBrings
  <2> SUFFICES ASSUME NEW k \in 1..Window
               PROVE  sent'[p][k] + (l0 - l1) + (IF u > 0 THEN u ELSE 0) <= Most + Rate * (k - 1)
    BY <2>2 DEF Spent, Held, Most, u
  <2>6. Most \in Nat /\ Rate \in Nat
    BY <1>2 DEF Most
  <2>7. CASE k = 1
    <3>1. sent'[p][k] = 0 /\ Rate * (k - 1) = 0
      BY <1>2, <1>5, <2>7
    <3> QED BY <2>2, <2>4, <2>5, <2>6, <3>1
  <2>8. CASE k # 1
    <3>1. /\ sent'[p][k] = sent[p][k - 1] /\ sent'[p][k] \in Nat /\ k - 1 \in 1..Window
      BY <1>5, <2>8
    <3>2. sent[p][k - 1] + Cardinality(Due(p)) + Held(p) <= Most + Rate * ((k - 1) - 1)
      BY <3>1 DEF WatchInv, Bucket, Spent
    <3>3. Cardinality(Due(p)) = 0 /\ Held(p) = IF t > 0 THEN t ELSE 0
      BY <2>1, FS_EmptySet DEF Held, t
    <3>4. Rate * (k - 1) = Rate * ((k - 1) - 1) + Rate /\ Rate * ((k - 1) - 1) \in Int
      BY <2>6, <3>1
    <3> QED BY <2>2, <2>4, <2>5, <2>6, <3>1, <3>2, <3>3, <3>4
  <2> QED BY <2>7, <2>8
<1>12. ASSUME NEW p \in Platforms PROVE Drawn(p)'
  <2>1. Takers(p)' = Takers(p)
    BY <1>1, <1>3 DEF Takers
  <2>2. tokens[p] >= -Cardinality(Takers(p)) /\ Cardinality(Takers(p)) \in Nat
    BY Counts DEF WatchInv, Bucket, Drawn
  <2>3. tokens'[p] >= -Cardinality(Takers(p))
    BY <1>2, <1>4, <2>2
  <2> QED BY <2>1, <2>3 DEF Drawn
<1> QED BY <1>6, <1>7, <1>8, <1>10, <1>12, <1>11 DEF WatchInv, Bucket

\* What neither a goroutine nor the clock does.
LEMMA StillStep ==
  ASSUME WatchInv,
         UNCHANGED <<platform, tokens, sent, left, known, first, job>>,
         upstream' \in [Services -> Tags],
         phase' \in {phase, "killed"} \/ (phase = "select" /\ phase' = "stopped")
  PROVE  WatchInv'
<1>1. WatchType' /\ RefusedIsOverload'
  BY DEF WatchInv, WatchType, RefusedIsOverload
<1>2. Checking' /\ FirstLearns'
  BY DEF WatchInv, Checking, FirstLearns
<1>3. ASSUME NEW p \in Platforms PROVE Bucket(p)'
  <2>1. /\ Takers(p)' = Takers(p) /\ Due(p)' = Due(p)
        /\ \A w \in Nat : Later(p, w)' = Later(p, w)
    BY DEF Takers, Due, Later
  <2> QED BY <2>1, BucketIsFramed
<1>4. \A s \in Services : Owing(s)'
  BY DEF WatchInv, Owing
<1> QED BY <1>1, <1>2, <1>3, <1>4 DEF WatchInv

LEMMA WatchInitial == WatchInit => WatchInv
<1> SUFFICES ASSUME WatchInit PROVE WatchInv
  OBVIOUS
<1>1. NoGoroutine \in Job /\ NoGoroutine.pc = "none" /\ \A s \in Services : job[s] = NoGoroutine
  BY DEF WatchInit, NoGoroutine, Job
<1>2. Burst \in Nat /\ Deadline \in Nat /\ Rate \in Nat
  BY WatchAssumption
<1>3. WatchType
  BY <1>1, <1>2 DEF WatchInit, WatchType
<1>4. Checking /\ FirstLearns /\ RefusedIsOverload
  BY <1>1 DEF WatchInit, Checking, FirstLearns, RefusedIsOverload
<1>5. ASSUME NEW p \in Platforms PROVE Bucket(p)
  <2>1. tokens[p] = Burst /\ \A k \in 1..Window : sent[p][k] = 0
    BY DEF WatchInit
  <2>2. Takers(p) = {} /\ Due(p) = {} /\ \A w \in Nat : Later(p, w) = {}
    BY <1>1 DEF Takers, Due, Later
  <2>3. Promised(p)
    <3>1. \A w \in Nat : Rate * w \in Nat
      BY <1>2
    <3>2. \A w \in Nat : Owed(p, w) = 0
      BY <1>2, <2>1, <3>1 DEF Owed
    <3> QED BY <2>2, <3>2, FS_EmptySet DEF Promised
  <2>4. Spent(p)
    <3>1. \A k \in 1..Window : k - 1 \in Nat /\ Rate * (k - 1) \in Nat
      BY <1>2, WatchAssumption
    <3>2. Cardinality(Due(p)) = 0 /\ Held(p) <= Most /\ Held(p) \in Nat /\ Most \in Nat
      BY <1>2, <2>1, <2>2, FS_EmptySet DEF Held, Most
    <3> QED BY <2>1, <3>1, <3>2 DEF Spent
  <2>5. Drawn(p)
    BY <1>2, <2>1, <2>2, FS_EmptySet DEF Drawn
  <2> QED BY <2>3, <2>4, <2>5 DEF Bucket
<1>6. \A s \in Services : Owing(s)
  BY <1>1 DEF Owing
<1> QED BY <1>3, <1>4, <1>5, <1>6 DEF WatchInv

LEMMA WatchSteps == WatchInv /\ [WatchNext]_watchVars => WatchInv'
<1> SUFFICES ASSUME WatchInv, [WatchNext]_watchVars PROVE WatchInv'
  OBVIOUS
<1>1. upstream \in [Services -> Tags]
  BY DEF WatchInv, WatchType
<1>2. CASE Launch
  BY <1>2, CheckStep DEF Launch, WatchInv, Checking, FirstLearns, world, memory
<1>3. CASE SelectTick
  BY <1>3, CheckStep DEF SelectTick, WatchInv, Checking, FirstLearns, world, memory
<1>4. CASE SelectStop \/ TickerFires \/ UNCHANGED watchVars
  BY <1>1, <1>4, StillStep
     DEF SelectStop, TickerFires, watchVars, world, memory, bucket, control
<1>5. CASE Signal
  BY <1>1, <1>5, StillStep DEF Signal, world, memory, bucket
<1>6. CASE \E s \in Services, t \in Tags : Publish(s, t)
  <2>1. PICK s \in Services, t \in Tags : Publish(s, t)
    BY <1>6
  <2>2. upstream' \in [Services -> Tags]
    BY <1>1, <2>1 DEF Publish
  <2> QED BY <2>1, <2>2, StillStep DEF Publish, memory, bucket, control
<1>7. CASE \E s \in Services : phase = "check" /\ Goroutines(s)
  BY <1>7, WaitStep, LaterSteps DEF Goroutines
<1> QED BY <1>2, <1>3, <1>4, <1>5, <1>6, <1>7, CheckDoneStep, ClockStep DEF WatchNext

THEOREM WatchInvariance == WatchSpec => []WatchInv
BY WatchInitial, WatchSteps, PTL DEF WatchSpec

\* No check eats into the next one's tokens and no platform into another's, for any rate,
\* burst and deadline: where the limiter refuses, the check has more services of that
\* platform than tokens come in (rate.Limiter.Wait under watch.go's 60 seconds).
THEOREM NobodyRefusedForNothing == WatchSpec => []RefusedIsOverload
<1>1. WatchInv => RefusedIsOverload
  BY DEF WatchInv
<1> QED BY <1>1, WatchInvariance, PTL

\* No span of time sees more requests to a platform than its bucket allows, for any rate
\* and burst: what was sent, what is due and what is held keep to the bound together.
THEOREM RateIsKept == WatchSpec => []RateRespected
<1>1. WatchInv => RateRespected
  <2> SUFFICES ASSUME WatchInv, NEW p \in Platforms, NEW k \in 1..Window
               PROVE  sent[p][k] <= Most + Rate * (k - 1)
    BY DEF RateRespected, Most
  <2>1. sent[p][k] + Cardinality(Due(p)) + Held(p) <= Most + Rate * (k - 1)
    BY DEF WatchInv, Bucket, Spent
  <2>2. sent[p] \in [1..Window -> Nat] /\ tokens[p] \in Int
    BY DEF WatchInv, WatchType
  <2>3. sent[p][k] \in Nat /\ Held(p) \in Nat /\ Cardinality(Due(p)) \in Nat
    <3>1. sent[p][k] \in Nat
      BY <2>2
    <3>2. Held(p) \in Nat
      BY <2>2 DEF Held
    <3> QED BY <3>1, <3>2, Counts
  <2>4. Most + Rate * (k - 1) \in Int
    BY WatchAssumption DEF Most
  <2> QED BY <2>1, <2>3, <2>4
<1> QED BY <1>1, WatchInvariance, PTL

-----------------------------------------------------------------------------
(* The command implements ReleaseAnnouncements: the swap under mu observes, *)
(* the line on the terminal announces.                                      *)

\* base: what the terminal has been told, as the refinement has it.
UpTo == [s \in Services |-> IF job[s].pc = "print" THEN job[s].old ELSE known[s]]

\* A step in which no goroutine begins or ends a line is not seen.
LEMMA NotSeen ==
  ASSUME UNCHANGED <<known, printed>>,
         \A s \in Services : IF job[s].pc = "print" THEN job'[s] = job[s] ELSE job'[s].pc # "print"
  PROVE  UNCHANGED Printing!avars
BY DEF Printing!avars

LEMMA SwapPrints ==
  ASSUME WatchInv, NEW s \in Services, Swap(s)
  PROVE  Printing!ANext \/ UNCHANGED Printing!avars
<1> DEFINE t == job[s].tag
<1>1. /\ job[s] \in Job /\ job[s].pc = "swap" /\ t \in Tags /\ t # NoTag
      /\ job \in [Services -> Job] /\ known \in [Services -> Tags \cup {NoTag}]
      /\ known' = [known EXCEPT ![s] = t] /\ printed' = printed
      /\ first => known[s] = NoTag
  BY Facts DEF Swap, Owing, WatchInv, WatchType, FirstLearns
<1>2. CASE IsNews(s)
  <2> DEFINE j0 == [job[s] EXCEPT !.pc = "print"]
             j == [j0 EXCEPT !.old = known[s]]
  <2>1. job' = [job EXCEPT ![s] = j] /\ known[s] \notin {NoTag, t}
    BY <1>2 DEF Swap, At, IsNews
  <2>2. j0 \in Job /\ j0.pc = "print"
    BY <1>1, JobAt
  <2> HIDE DEF j0
  <2>3. j.pc = "print" /\ j.old = known[s]
    BY <2>2 DEF Job
  <2> HIDE DEF j
  <2>4. job'[s] = j /\ \A r \in Services \ {s} : job'[r] = job[r] /\ known'[r] = known[r]
    BY <1>1, <2>1
  <2>5. UpTo[s] = known[s] /\ UpTo' = UpTo
    BY <1>1, <2>3, <2>4 DEF UpTo
  <2>6. Printing!Observe(s, t)
    BY <1>1, <2>1, <2>5 DEF Printing!Observe, UpTo
  <2> QED BY <1>1, <2>6 DEF Printing!ANext
<1>3. CASE ~IsNews(s)
  <2> DEFINE j == [job[s] EXCEPT !.pc = "done"]
  <2>1. job' = [job EXCEPT ![s] = j] /\ known[s] \in {NoTag, t}
    BY <1>1, <1>3 DEF Swap, At, IsNews
  <2>2. j.pc = "done"
    BY <1>1, JobAt
  <2> HIDE DEF j
  <2>3. job'[s] = j /\ \A r \in Services \ {s} : job'[r] = job[r] /\ known'[r] = known[r]
    BY <1>1, <2>1
  <2>4. UpTo' = [UpTo EXCEPT ![s] = t] /\ UpTo[s] = known[s]
    BY <1>1, <2>2, <2>3 DEF UpTo
  <2>5. CASE known[s] = NoTag
    <3>1. Printing!Learn(s, t)
      BY <1>1, <2>4, <2>5 DEF Printing!Learn, UpTo
    <3>2. \E u \in Tags : Printing!Learn(s, u)
      BY <1>1, <3>1 DEF Printing!Learn
    <3> QED BY <3>2 DEF Printing!ANext
  <2>6. CASE known[s] = t
    <3>1. known' = known /\ UpTo' = UpTo
      BY <1>1, <2>4, <2>6 DEF UpTo
    <3> QED BY <1>1, <3>1 DEF Printing!avars, UpTo
  <2> QED BY <2>1, <2>5, <2>6
<1> QED BY <1>2, <1>3

LEMMA PrintPrints ==
  ASSUME WatchInv, NEW s \in Services, PrintNew(s)
  PROVE  Printing!ANext
<1> DEFINE j == [job[s] EXCEPT !.pc = "done"]
<1>1. /\ job[s] \in Job /\ job[s].pc = "print" /\ job \in [Services -> Job]
      /\ known[s] = job[s].tag /\ job[s].old # known[s]
      /\ known' = known /\ job' = [job EXCEPT ![s] = j]
      /\ printed' = [printed EXCEPT ![s] = Append(@, [old |-> job[s].old, new |-> job[s].tag])]
  BY Facts DEF PrintNew, At, Owing, WatchInv, WatchType
<1>2. j.pc = "done"
  BY <1>1, JobAt
<1> HIDE DEF j
<1>3. job'[s] = j /\ \A r \in Services \ {s} : job'[r] = job[r]
  BY <1>1
<1>4. UpTo[s] = job[s].old /\ UpTo' = [UpTo EXCEPT ![s] = known[s]]
  BY <1>1, <1>2, <1>3 DEF UpTo
<1>5. Printing!Announce(s)
  BY <1>1, <1>4 DEF Printing!Announce, UpTo
<1> QED BY <1>5 DEF Printing!ANext

LEMMA WatchPrints ==
  ASSUME WatchInv, [WatchNext]_watchVars
  PROVE  Printing!ANext \/ UNCHANGED Printing!avars
<1>1. job \in [Services -> Job]
  BY DEF WatchInv, WatchType
<1>2. CASE Launch \/ SelectTick
  <2>1. \A s \in Services : job[s].pc = "none" /\ job'[s].pc = "start"
    BY <1>2 DEF Launch, SelectTick, Check, WatchInv, Checking, Goroutine, NoGoroutine
  <2> QED BY <1>2, <2>1, NotSeen DEF Launch, SelectTick, memory
<1>3. CASE CheckDone
  <2>1. \A s \in Services : job[s].pc # "print" /\ job'[s].pc = "none"
    BY <1>3 DEF CheckDone, Returned, NoGoroutine
  <2> QED BY <1>3, <2>1, NotSeen DEF CheckDone, memory
<1>4. CASE Clock
  <2>1. ASSUME NEW s \in Services PROVE job[s].pc # "print" /\ job'[s].pc # "print"
    BY <1>1, <1>4 DEF Clock, Job
  <2> QED BY <1>4, <2>1, NotSeen DEF Clock, memory
<1>5. CASE UNCHANGED <<known, printed, job>>
  BY <1>5 DEF Printing!avars
<1>6. CASE \/ SelectStop \/ TickerFires \/ Signal \/ UNCHANGED watchVars
           \/ \E s \in Services, t \in Tags : Publish(s, t)
  BY <1>5, <1>6 DEF SelectStop, TickerFires, Signal, Publish, watchVars, memory
<1>7. ASSUME NEW s \in Services, Wait(s) \/ Send(s) \/ Reply(s) \/ Fail(s)
      PROVE  UNCHANGED Printing!avars
  <2>1. /\ job[s].pc # "print" /\ job[s] \in Job /\ UNCHANGED <<known, printed>>
    BY <1>1, <1>7 DEF Wait, Send, Reply, Fail, memory
  <2>2. ASSUME NEW j, job' = [job EXCEPT ![s] = j], j.pc # "print"
        PROVE  UNCHANGED Printing!avars
    BY <1>1, <2>1, <2>2, NotSeen
  <2>3. CASE Wait(s)
    <3> DEFINE refused == [job[s] EXCEPT !.pc = "refused"]
               waits   == [job[s] EXCEPT !.pc = "wait", !.wait = Delay(Limiter(s))]
    <3>1. job' = [job EXCEPT ![s] = refused] \/ job' = [job EXCEPT ![s] = waits]
      BY <2>3 DEF Wait, At
    <3>2. refused.pc = "refused" /\ waits.pc = "wait"
      BY <2>1 DEF Job
    <3> HIDE DEF refused, waits
    <3> QED BY <2>2, <3>1, <3>2
  <2>4. CASE Send(s) \/ Reply(s) \/ Fail(s)
    <3> DEFINE sends   == [job[s] EXCEPT !.pc = "sent"]
               replies == [job[s] EXCEPT !.pc = "swap", !.tag = upstream[s]]
               fails   == [job[s] EXCEPT !.pc = "done"]
    <3>1. \/ job' = [job EXCEPT ![s] = sends] \/ job' = [job EXCEPT ![s] = replies]
          \/ job' = [job EXCEPT ![s] = fails]
      BY <2>4 DEF Send, Reply, Fail, At
    <3>2. sends.pc = "sent" /\ replies.pc = "swap" /\ fails.pc = "done"
      BY <2>1 DEF Job
    <3> HIDE DEF sends, replies, fails
    <3> QED BY <2>2, <3>1, <3>2
  <2> QED BY <1>7, <2>3, <2>4
<1> QED BY <1>2, <1>3, <1>4, <1>6, <1>7, SwapPrints, PrintPrints DEF WatchNext, Goroutines

\* Every change of a service between two of its answers is printed once and in order, and
\* no first answer is taken for a change, for any services, platforms and limits and
\* however the goroutines of a check interleave (the comparison under mu in watch.go).
THEOREM EveryChangeIsPrinted == WatchSpec => ChangesPrinted
<1>1. WatchInit => Printing!AInit
  BY DEF WatchInit, Printing!AInit, NoGoroutine
<1>2. WatchInv /\ [WatchNext]_watchVars => [Printing!ANext]_Printing!avars
  BY WatchPrints
<1> QED BY <1>1, <1>2, WatchInvariance, PTL DEF WatchSpec, ChangesPrinted, Printing!ASpec

-----------------------------------------------------------------------------
(* Lists.                                                                   *)

\* A set of natural numbers has a least element: the initial segments below its
\* members are finite sets, and those are well-founded.
LEMMA Least ==
  ASSUME NEW T \in SUBSET Nat, T # {}
  PROVE  \E m \in T : \A k \in T : m <= k
<1> DEFINE Upto == {1..n : n \in T}
<1>1. Upto \subseteq FiniteSubsetsOf(Nat) /\ Upto # {}
  <2>1. ASSUME NEW n \in T PROVE 1..n \in FiniteSubsetsOf(Nat)
    <3>1. IsFiniteSet(1..n)
      BY FS_Interval
    <3> QED BY <3>1 DEF FiniteSubsetsOf
  <2> QED BY <2>1
<1>2. IsWellFoundedOn(StrictSubsetOrdering(Nat), FiniteSubsetsOf(Nat))
  BY FS_StrictSubsetOrderingWellFounded
<1>3. \E x \in Upto : \A y \in Upto : <<y, x>> \notin StrictSubsetOrdering(Nat)
  <2> HIDE DEF Upto
  <2> QED BY <1>1, <1>2, WFMin
<1>4. PICK m \in T : \A y \in Upto : <<y, 1..m>> \notin StrictSubsetOrdering(Nat)
  BY <1>3
<1>5. ASSUME NEW k \in T, k < m PROVE FALSE
  <2>1. 1..k \subseteq 1..m /\ m \in 1..m /\ m \notin 1..k
    BY <1>5
  <2>2. <<1..k, 1..m>> \in StrictSubsetOrdering(Nat)
    BY <2>1 DEF StrictSubsetOrdering
  <2> QED BY <1>4, <2>2
<1> QED BY <1>5

\* A set of natural numbers that has 0, and with each number the next, has them all.
LEMMA AllNumbers ==
  ASSUME NEW S, 0 \in S, \A n \in Nat : n \in S => n + 1 \in S
  PROVE  Nat \subseteq S
<1> SUFFICES ASSUME Nat \ S # {} PROVE FALSE
  OBVIOUS
<1>1. PICK m \in Nat \ S : \A k \in Nat \ S : m <= k
  <2>1. Nat \ S \in SUBSET Nat
    OBVIOUS
  <2> QED BY <2>1, Least
<1>2. m # 0
  BY <1>1
<1>3. m - 1 \in Nat /\ (m - 1) + 1 = m
  BY <1>1, <1>2
<1>4. m - 1 \notin Nat \ S
  <2>1. ~(m <= m - 1)
    BY <1>1
  <2> QED BY <1>1, <2>1
<1> QED BY <1>1, <1>3, <1>4

\* AddAllNew is what its loop computes.
LEMMA AddingGoes ==
  ASSUME NEW list, NEW found, Len(found) \in Nat
  PROVE  \E f : /\ f[0] = list
                /\ \A n \in 1..Len(found) : f[n] = AddNew(f[n - 1], found[n])
                /\ AddAllNew(list, found) = f[Len(found)]
<1> DEFINE Runs(g, n) == g = [m \in 0..n |-> IF m = 0 THEN list ELSE AddNew(g[m - 1], found[m])]
           E == {n \in Nat : \E g : Runs(g, n)}
<1>1. 0 \in E
  <2> DEFINE g == [m \in 0..0 |-> list]
  <2>1. Runs(g, 0)
    <3>1. \A m \in 0..0 : m = 0
      OBVIOUS
    <3> QED BY <3>1
  <2> QED BY <2>1
<1>2. ASSUME NEW n \in Nat, n \in E
      PROVE  n + 1 \in E
  <2>1. PICK g : Runs(g, n)
    BY <1>2
  <2> DEFINE h == [m \in 0..(n + 1) |-> IF m = n + 1 THEN AddNew(g[n], found[n + 1]) ELSE g[m]]
  <2>2. \A m \in 0..(n + 1) : h[m] = IF m = 0 THEN list ELSE AddNew(h[m - 1], found[m])
    <3> TAKE m \in 0..(n + 1)
    <3>1. CASE m = n + 1
      <4>1. n \in 0..(n + 1) /\ n # n + 1 /\ m # 0 /\ m - 1 = n
        BY <3>1
      <4>2. h[n] = g[n]
        BY <4>1
      <4> QED BY <3>1, <4>1, <4>2
    <3>2. CASE m # n + 1 /\ m # 0
      <4>1. /\ m \in 0..n /\ m - 1 \in 0..n /\ m - 1 \in 0..(n + 1) /\ m - 1 # n + 1
        BY <3>2
      <4>2. h[m] = g[m] /\ h[m - 1] = g[m - 1]
        BY <3>2, <4>1
      <4>3. g[m] = AddNew(g[m - 1], found[m])
        BY <2>1, <3>2, <4>1
      <4> QED BY <3>2, <4>2, <4>3
    <3>3. CASE m = 0
      <4>1. 0 \in 0..n /\ 0 # n + 1 /\ 0 \in 0..(n + 1)
        OBVIOUS
      <4>2. h[0] = g[0]
        BY <4>1
      <4>3. g[0] = list
        BY <2>1, <4>1
      <4> QED BY <3>3, <4>2, <4>3
    <3> QED BY <3>1, <3>2, <3>3
  <2>3. h = [m \in 0..(n + 1) |-> h[m]]
    OBVIOUS
  <2> HIDE DEF h
  <2>4. Runs(h, n + 1)
    BY <2>2, <2>3
  <2> QED BY <2>4
<1>3. Len(found) \in E
  <2> HIDE DEF E
  <2> QED BY <1>1, <1>2, AllNumbers
<1> DEFINE f == CHOOSE g : Runs(g, Len(found))
<1>4. Runs(f, Len(found))
  BY <1>3
<1>5. AddAllNew(list, found) = f[Len(found)]
  BY DEF AddAllNew
<1> HIDE DEF f
<1>6. f[0] = list /\ \A n \in 1..Len(found) : f[n] = AddNew(f[n - 1], found[n])
  BY <1>4
<1> QED BY <1>5, <1>6

Holds(s, x) == \E i \in DOMAIN s : s[i] = x

LEMMA Joined ==
  ASSUME NEW S, NEW s \in Seq(S), NEW t \in Seq(S), NEW x
  PROVE  Holds(s \o t, x) <=> Holds(s, x) \/ Holds(t, x)
<1>1. /\ Len(s) \in Nat /\ Len(t) \in Nat /\ DOMAIN s = 1..Len(s) /\ DOMAIN t = 1..Len(t)
      /\ DOMAIN (s \o t) = 1..(Len(s) + Len(t))
      /\ \A i \in 1..(Len(s) + Len(t)) : (s \o t)[i] = IF i <= Len(s) THEN s[i] ELSE t[i - Len(s)]
  OBVIOUS
<1>2. ASSUME NEW i \in DOMAIN s, s[i] = x
      PROVE  \E j \in DOMAIN (s \o t) : (s \o t)[j] = x
  BY <1>1, <1>2
<1>3. ASSUME NEW i \in DOMAIN t, t[i] = x
      PROVE  \E j \in DOMAIN (s \o t) : (s \o t)[j] = x
  <2>1. /\ i + Len(s) \in 1..(Len(s) + Len(t)) /\ ~(i + Len(s) <= Len(s)) /\ (i + Len(s)) - Len(s) = i
    BY <1>1
  <2> QED BY <1>1, <1>3, <2>1
<1>4. ASSUME NEW i \in DOMAIN (s \o t), (s \o t)[i] = x
      PROVE  (\E j \in DOMAIN s : s[j] = x) \/ (\E j \in DOMAIN t : t[j] = x)
  <2>1. CASE i <= Len(s)
    BY <1>1, <1>4, <2>1
  <2>2. CASE ~(i <= Len(s))
    <3>1. i - Len(s) \in 1..Len(t)
      BY <1>1, <2>2
    <3> QED BY <1>1, <1>4, <2>2, <3>1
  <2> QED BY <2>1, <2>2
<1> QED BY <1>2, <1>3, <1>4 DEF Holds

Distinct(list) == \A i, j \in DOMAIN list : list[i].name = list[j].name => i = j

LEMMA AddingOne ==
  ASSUME NEW S, NEW list \in Seq(S), NEW svc \in S
  PROVE  /\ AddNew(list, svc) \in Seq(S)
         /\ NamesIn(AddNew(list, svc)) = NamesIn(list) \cup {svc.name}
         /\ Distinct(list) => Distinct(AddNew(list, svc))
<1>1. CASE HasName(list, svc.name)
  BY <1>1 DEF AddNew, HasName, NamesIn
<1>2. CASE ~HasName(list, svc.name)
  <2> DEFINE new == Append(list, svc)
             n   == Len(list) + 1
  <2>1. /\ new \in Seq(S) /\ DOMAIN new = 1..n /\ new[n] = svc /\ DOMAIN list = 1..Len(list)
        /\ 1..n = 1..Len(list) \cup {n} /\ \A i \in 1..Len(list) : new[i] = list[i]
    OBVIOUS
  <2>2. AddNew(list, svc) = new
    BY <1>2 DEF AddNew
  <2> HIDE DEF new, n
  <2>3. NamesIn(new) = NamesIn(list) \cup {svc.name}
    BY <2>1 DEF NamesIn
  <2>4. ASSUME Distinct(list) PROVE Distinct(new)
    <3> SUFFICES ASSUME NEW i \in 1..n, NEW j \in 1..n, new[i].name = new[j].name
                 PROVE  i = j
      BY <2>1 DEF Distinct
    <3>1. \A k \in 1..Len(list) : list[k].name # svc.name
      BY <1>2, <2>1 DEF HasName
    <3>2. CASE i \in 1..Len(list) /\ j \in 1..Len(list)
      BY <2>1, <2>4, <3>2 DEF Distinct
    <3> QED BY <2>1, <3>1, <3>2
  <2> QED BY <2>1, <2>2, <2>3, <2>4
<1> QED BY <1>1, <1>2

\* What is added to a list by name leaves what is there, and repeats no name.
LEMMA AddingAll ==
  ASSUME NEW S, NEW list \in Seq(S), NEW found \in Seq(S)
  PROVE  /\ AddAllNew(list, found) \in Seq(S)
         /\ NamesIn(AddAllNew(list, found)) = NamesIn(list) \cup NamesIn(found)
         /\ Distinct(list) => Distinct(AddAllNew(list, found))
<1>1. /\ Len(found) \in Nat /\ DOMAIN found = 1..Len(found)
      /\ \A k \in 1..Len(found) : found[k] \in S
  OBVIOUS
<1>2. PICK f : /\ f[0] = list
               /\ \A n \in 1..Len(found) : f[n] = AddNew(f[n - 1], found[n])
               /\ AddAllNew(list, found) = f[Len(found)]
  BY <1>1, AddingGoes
<1> DEFINE Right(n) == /\ f[n] \in Seq(S)
                       /\ NamesIn(f[n]) = NamesIn(list) \cup {found[k].name : k \in 1..n}
                       /\ Distinct(list) => Distinct(f[n])
           E == {n \in Nat : n <= Len(found) => Right(n)}
<1>3. 0 \in E
  BY <1>2
<1>4. ASSUME NEW n \in Nat, n \in E
      PROVE  n + 1 \in E
  <2> SUFFICES ASSUME n + 1 <= Len(found) PROVE Right(n + 1)
    OBVIOUS
  <2>1. /\ n + 1 \in 1..Len(found) /\ (n + 1) - 1 = n /\ n <= Len(found)
        /\ 1..(n + 1) = 1..n \cup {n + 1}
    BY <1>1
  <2>2. f[n + 1] = AddNew(f[n], found[n + 1]) /\ found[n + 1] \in S
    BY <1>1, <1>2, <2>1
  <2>3. Right(n)
    BY <1>4, <2>1
  <2>4. {found[k].name : k \in 1..(n + 1)} = {found[k].name : k \in 1..n} \cup {found[n + 1].name}
    BY <2>1
  <2> DEFINE l == f[n]
             x == found[n + 1]
  <2>5. /\ l \in Seq(S) /\ x \in S
        /\ NamesIn(l) = NamesIn(list) \cup {found[k].name : k \in 1..n}
        /\ Distinct(list) => Distinct(l)
    BY <2>2, <2>3
  <2>6. f[n + 1] = AddNew(l, x)
    BY <2>2
  <2> HIDE DEF l, x
  <2>7. /\ AddNew(l, x) \in Seq(S) /\ NamesIn(AddNew(l, x)) = NamesIn(l) \cup {x.name}
        /\ Distinct(l) => Distinct(AddNew(l, x))
    <3>1. l \in Seq(S) /\ x \in S
      BY <2>5
    <3> HIDE DEF Right, E
    <3> QED BY <3>1, AddingOne, Zenon
  <2> QED BY <2>4, <2>5, <2>6, <2>7 DEF x
<1>5. Len(found) \in E
  <2> HIDE DEF E
  <2> QED BY <1>1, <1>3, <1>4, AllNumbers
<1>6. Right(Len(found))
  BY <1>1, <1>5
<1>7. {found[k].name : k \in 1..Len(found)} = NamesIn(found)
  BY <1>1 DEF NamesIn
<1> QED BY <1>2, <1>6, <1>7

\* FlattenSeq is what its recursion computes.
LEMMA FlatteningGoes ==
  ASSUME NEW seqs, Len(seqs) \in Nat, Len(seqs) # 0
  PROVE  \E f : /\ f[1] = seqs[1]
                /\ \A n \in 2..Len(seqs) : f[n] = f[n - 1] \o seqs[n]
                /\ Seqs!FlattenSeq(seqs) = f[Len(seqs)]
<1> DEFINE Runs(g, n) == g = [m \in 1..n |-> IF m = 1 THEN seqs[m] ELSE g[m - 1] \o seqs[m]]
           E == {n \in Nat : \E g : Runs(g, n)}
<1>1. 0 \in E
  <2> DEFINE g == [m \in 1..0 |-> seqs[m]]
  <2>1. Runs(g, 0)
    <3>1. \A m \in 1..0 : FALSE
      OBVIOUS
    <3> QED BY <3>1
  <2> QED BY <2>1
<1>2. ASSUME NEW n \in Nat, n \in E
      PROVE  n + 1 \in E
  <2>1. PICK g : Runs(g, n)
    BY <1>2
  <2> DEFINE h == [m \in 1..(n + 1) |-> IF m = n + 1 THEN IF m = 1 THEN seqs[m] ELSE g[n] \o seqs[m]
                                        ELSE g[m]]
  <2>2. \A m \in 1..(n + 1) : h[m] = IF m = 1 THEN seqs[m] ELSE h[m - 1] \o seqs[m]
    <3> TAKE m \in 1..(n + 1)
    <3>1. CASE m = n + 1 /\ m = 1
      BY <3>1
    <3>2. CASE m = n + 1 /\ m # 1
      <4>1. n \in 1..(n + 1) /\ n # n + 1 /\ m - 1 = n
        BY <3>2
      <4>2. h[n] = g[n]
        BY <4>1
      <4> QED BY <3>2, <4>1, <4>2
    <3>3. CASE m # n + 1 /\ m # 1
      <4>1. /\ m \in 1..n /\ m - 1 \in 1..n /\ m - 1 \in 1..(n + 1) /\ m - 1 # n + 1
        BY <3>3
      <4>2. h[m] = g[m] /\ h[m - 1] = g[m - 1]
        BY <3>3, <4>1
      <4>3. g[m] = g[m - 1] \o seqs[m]
        BY <2>1, <3>3, <4>1
      <4> QED BY <3>3, <4>2, <4>3
    <3>4. CASE m # n + 1 /\ m = 1
      <4>1. m \in 1..n
        BY <3>4
      <4> QED BY <2>1, <3>4, <4>1
    <3> QED BY <3>1, <3>2, <3>3, <3>4
  <2>3. h = [m \in 1..(n + 1) |-> h[m]]
    OBVIOUS
  <2> HIDE DEF h
  <2>4. Runs(h, n + 1)
    BY <2>2, <2>3
  <2> HIDE DEF Runs
  <2> QED BY <2>4
<1>3. Len(seqs) \in E
  <2> HIDE DEF E
  <2> QED BY <1>1, <1>2, AllNumbers
<1> DEFINE f == CHOOSE g : Runs(g, Len(seqs))
<1>4. Runs(f, Len(seqs))
  BY <1>3
<1>5. Seqs!FlattenSeq(seqs) = f[Len(seqs)]
  BY DEF Seqs!FlattenSeq
<1> HIDE DEF f
<1>6. f[1] = seqs[1] /\ \A n \in 2..Len(seqs) : f[n] = f[n - 1] \o seqs[n]
  <2>1. 1 \in 1..Len(seqs) /\ \A n \in 2..Len(seqs) : n \in 1..Len(seqs) /\ n # 1
    OBVIOUS
  <2> QED BY <1>4, <2>1
<1> QED BY <1>5, <1>6

\* It is a list of what is in the lists.
LEMMA Flattened ==
  ASSUME NEW S, NEW seqs \in Seq(Seq(S))
  PROVE  /\ Seqs!FlattenSeq(seqs) \in Seq(S)
         /\ \A x : Holds(Seqs!FlattenSeq(seqs), x) <=> \E k \in DOMAIN seqs : Holds(seqs[k], x)
<1>1. /\ Len(seqs) \in Nat /\ DOMAIN seqs = 1..Len(seqs)
      /\ \A k \in 1..Len(seqs) : seqs[k] \in Seq(S)
  OBVIOUS
<1>2. CASE Len(seqs) = 0
  <2>1. seqs = <<>> /\ Seqs!FlattenSeq(seqs) = <<>>
    BY <1>1, <1>2 DEF Seqs!FlattenSeq
  <2>2. DOMAIN seqs = {}
    BY <1>1, <1>2
  <2>3. \A x : ~Holds(<<>>, x)
    BY DEF Holds
  <2>4. <<>> \in Seq(S)
    OBVIOUS
  <2> QED BY <2>1, <2>2, <2>3, <2>4, Zenon
<1>3. CASE Len(seqs) # 0
  <2>1. PICK f : /\ f[1] = seqs[1]
                 /\ \A n \in 2..Len(seqs) : f[n] = f[n - 1] \o seqs[n]
                 /\ Seqs!FlattenSeq(seqs) = f[Len(seqs)]
    BY <1>1, <1>3, FlatteningGoes
  <2> DEFINE Right(n) == /\ f[n] \in Seq(S)
                         /\ \A x : Holds(f[n], x) <=> \E k \in 1..n : Holds(seqs[k], x)
             E == {n \in Nat : 1 <= n /\ n <= Len(seqs) => Right(n)}
  <2>2. 0 \in E
    OBVIOUS
  <2>3. ASSUME NEW n \in Nat, n \in E
        PROVE  n + 1 \in E
    <3> SUFFICES ASSUME n + 1 <= Len(seqs) PROVE Right(n + 1)
      OBVIOUS
    <3>1. n + 1 \in 1..Len(seqs) /\ (n + 1) - 1 = n /\ 1..(n + 1) = 1..n \cup {n + 1}
      BY <1>1
    <3>2. CASE n = 0
      <4>1. f[1] = seqs[1] /\ seqs[1] \in Seq(S)
        BY <1>1, <1>3, <2>1
      <4>2. \A k : k \in 1..1 <=> k = 1
        OBVIOUS
      <4> QED BY <3>2, <4>1, <4>2
    <3>3. CASE n # 0
      <4>1. n + 1 \in 2..Len(seqs) /\ 1 <= n /\ n <= Len(seqs)
        BY <1>1, <3>3
      <4>2. f[n + 1] = f[n] \o seqs[n + 1] /\ seqs[n + 1] \in Seq(S)
        BY <1>1, <2>1, <3>1, <4>1
      <4>3. Right(n)
        BY <2>3, <4>1
      <4>4. \A x : Holds(f[n + 1], x) <=> Holds(f[n], x) \/ Holds(seqs[n + 1], x)
        BY <4>2, <4>3, Joined
      <4> QED BY <3>1, <4>2, <4>3, <4>4
    <3> QED BY <3>2, <3>3
  <2>4. Len(seqs) \in E
    <3> HIDE DEF E
    <3> QED BY <1>1, <2>2, <2>3, AllNumbers
  <2>5. Right(Len(seqs))
    BY <1>1, <1>3, <2>4
  <2> QED BY <1>1, <2>1, <2>5
<1> QED BY <1>2, <1>3

LEMMA AList ==
  /\ \A S : \A s \in Seq(S) : IsList(s)
  /\ \A s : IsList(s) => /\ Len(s) \in Nat /\ DOMAIN s = 1..Len(s)
                         /\ \A S : (\A x : Holds(s, x) => x \in S) => s \in Seq(S)
<1>1. ASSUME NEW S, NEW s \in Seq(S)
      PROVE  IsList(s)
  <2>1. Len(s) \in Nat /\ s = [i \in 1..Len(s) |-> s[i]] /\ DOMAIN s = 1..Len(s)
    OBVIOUS
  <2>2. \A i \in 1..Len(s) : s[i] \in Seqs!ToSet(s)
    BY <2>1 DEF Seqs!ToSet
  <2> HIDE DEF Seqs!ToSet
  <2>3. [i \in 1..Len(s) |-> s[i]] \in Seq(Seqs!ToSet(s))
    BY <2>1, <2>2
  <2> QED BY <2>1, <2>3 DEF IsList
<1>2. ASSUME NEW s, IsList(s)
      PROVE  /\ Len(s) \in Nat /\ DOMAIN s = 1..Len(s)
             /\ \A S : (\A x : Holds(s, x) => x \in S) => s \in Seq(S)
  <2>1. s \in Seq(Seqs!ToSet(s))
    BY <1>2 DEF IsList
  <2>2. Len(s) \in Nat /\ DOMAIN s = 1..Len(s) /\ s = [i \in 1..Len(s) |-> s[i]]
    BY <2>1
  <2>3. ASSUME NEW S, \A x : Holds(s, x) => x \in S
        PROVE  s \in Seq(S)
    <3>1. \A i \in 1..Len(s) : s[i] \in S
      BY <2>2, <2>3 DEF Holds
    <3>2. [i \in 1..Len(s) |-> s[i]] \in Seq(S)
      BY <2>2, <3>1
    <3> QED BY <2>2, <3>2
  <2> QED BY <2>2, <2>3
<1> QED BY <1>1, <1>2

\* The same of lists of anything.
LEMMA AddingLists ==
  ASSUME NEW list, NEW found, IsList(list), IsList(found)
  PROVE  /\ IsList(AddAllNew(list, found))
         /\ \A x : Holds(AddAllNew(list, found), x) => Holds(list, x) \/ Holds(found, x)
         /\ NamesIn(AddAllNew(list, found)) = NamesIn(list) \cup NamesIn(found)
         /\ Distinct(list) => Distinct(AddAllNew(list, found))
<1> DEFINE S == Seqs!ToSet(list) \cup Seqs!ToSet(found)
<1>1. \A x : x \in S <=> Holds(list, x) \/ Holds(found, x)
  BY DEF Holds, Seqs!ToSet
<1> HIDE DEF S
<1>2. list \in Seq(S) /\ found \in Seq(S)
  BY <1>1, AList
<1>3. /\ AddAllNew(list, found) \in Seq(S)
      /\ NamesIn(AddAllNew(list, found)) = NamesIn(list) \cup NamesIn(found)
      /\ Distinct(list) => Distinct(AddAllNew(list, found))
  BY <1>2, AddingAll, Zenon
<1>4. \A x : Holds(AddAllNew(list, found), x) => x \in S
  BY <1>3 DEF Holds
<1> QED BY <1>1, <1>3, <1>4, AList

LEMMA FlattenedLists ==
  ASSUME NEW seqs, NEW n \in Nat, seqs = [k \in 1..n |-> seqs[k]], \A k \in 1..n : IsList(seqs[k])
  PROVE  /\ IsList(Seqs!FlattenSeq(seqs))
         /\ \A x : Holds(Seqs!FlattenSeq(seqs), x) <=> \E k \in 1..n : Holds(seqs[k], x)
<1> DEFINE S == UNION {Seqs!ToSet(seqs[k]) : k \in 1..n}
<1>1. \A k \in 1..n : \A x : Holds(seqs[k], x) => x \in S
  BY DEF Holds, Seqs!ToSet
<1> HIDE DEF S
<1>2. \A k \in 1..n : seqs[k] \in Seq(S)
  BY <1>1, AList
<1>3. seqs \in Seq(Seq(S)) /\ DOMAIN seqs = 1..n
  <2>1. [k \in 1..n |-> seqs[k]] \in Seq(Seq(S))
    BY <1>2
  <2> QED BY <2>1
<1>4. /\ Seqs!FlattenSeq(seqs) \in Seq(S)
      /\ \A x : Holds(Seqs!FlattenSeq(seqs), x) <=> \E k \in DOMAIN seqs : Holds(seqs[k], x)
  BY <1>3, Flattened, Zenon
<1> QED BY <1>3, <1>4, AList

\* What is discovered is a list of what is found at the workloads.
LEMMA Discovering ==
  ASSUME NEW c \in Clusters
  PROVE  /\ IsList(AllOf(c)) /\ Distinct(Discover(c))
         /\ \A k \in DOMAIN AllOf(c) : IsList(DiscoverFromWorkload(AllOf(c)[k]))
         /\ IsList(Discover(c))
         /\ \A x : Holds(Discover(c), x) =>
              \E k \in DOMAIN AllOf(c) : Holds(DiscoverFromWorkload(AllOf(c)[k]), x)
         /\ NamesIn(Discover(c)) =
              UNION {NamesIn(DiscoverFromWorkload(AllOf(c)[k])) : k \in DOMAIN AllOf(c)}
<1> DEFINE all  == AllOf(c)
           at   == [k \in DOMAIN all |-> DiscoverFromWorkload(all[k])]
           flat == Seqs!FlattenSeq(at)
<1>1. IsList(all) /\ \A k \in DOMAIN all : IsList(all[k].images)
  BY ConfigAssumption DEF IsWorkload
<1>2. Len(all) \in Nat /\ DOMAIN all = 1..Len(all)
  BY <1>1, AList
<1>3. ASSUME NEW k \in DOMAIN all
      PROVE  IsList(DiscoverFromWorkload(all[k]))
  <2> DEFINE w == all[k]
             service(i) == Inferred(w, w.images[i])
             told == [i \in DOMAIN w.images |-> service(i)]
  <2>1. IsList(w.images)
    BY <1>1
  <2>2. Len(w.images) \in Nat /\ DOMAIN w.images = 1..Len(w.images)
    BY <2>1, AList
  <2>3. \A x : IsList(<<x>>) /\ IsList(<<>>)
    <3>1. \A x : <<x>> \in Seq({x}) /\ <<>> \in Seq({x})
      OBVIOUS
    <3> QED BY <3>1, AList
  <2>4. \A i \in DOMAIN w.images : IsList(service(i))
    BY <2>3 DEF Inferred
  <2> HIDE DEF w, service
  <2>5. IsList(Seqs!FlattenSeq(told))
    <3>1. told = [i \in 1..Len(w.images) |-> told[i]] /\ \A i \in 1..Len(w.images) : IsList(told[i])
      BY <2>2, <2>4
    <3> HIDE DEF told
    <3> QED BY <2>2, <3>1, FlattenedLists
  <2>6. CASE w.repo # <<>>
    BY <2>3, <2>6 DEF DiscoverFromWorkload, w
  <2>7. CASE w.repo = <<>>
    BY <2>5, <2>7 DEF DiscoverFromWorkload, w, service
  <2> QED BY <2>6, <2>7
<1>4. /\ IsList(flat)
      /\ \A x : Holds(flat, x) <=> \E k \in DOMAIN all : Holds(DiscoverFromWorkload(all[k]), x)
  <2>1. at = [k \in 1..Len(all) |-> at[k]] /\ \A k \in DOMAIN all : at[k] = DiscoverFromWorkload(all[k])
    BY <1>2
  <2> HIDE DEF at, all
  <2>2. /\ IsList(flat)
        /\ \A x : Holds(flat, x) <=> \E k \in 1..Len(all) : Holds(at[k], x)
    <3>1. /\ Len(all) \in Nat /\ at = [k \in 1..Len(all) |-> at[k]]
          /\ \A k \in 1..Len(all) : IsList(at[k])
      BY <1>2, <1>3, <2>1
    <3> QED BY <3>1, FlattenedLists, Zenon
  <2> HIDE DEF flat
  <2> QED BY <1>2, <2>1, <2>2
<1>5. IsList(<<>>) /\ Distinct(<<>>) /\ NamesIn(<<>>) = {} /\ \A x : ~Holds(<<>>, x)
  <2>1. <<>> \in Seq({})
    OBVIOUS
  <2>2. IsList(<<>>)
    BY <2>1, AList
  <2> QED BY <2>2 DEF Distinct, NamesIn, Holds
<1>6. Discover(c) = AddAllNew(<<>>, flat)
  BY DEF Discover
<1>7. NamesIn(flat) = UNION {NamesIn(DiscoverFromWorkload(all[k])) : k \in DOMAIN all}
  <2> HIDE DEF flat, all
  <2>1. \A s : NamesIn(s) = {s[i].name : i \in DOMAIN s}
    BY DEF NamesIn
  <2>2. \A s, n : n \in NamesIn(s) <=> \E x : Holds(s, x) /\ x.name = n
    BY <2>1 DEF Holds
  <2> HIDE DEF Holds
  <2> QED BY <1>4, <2>2
<1> HIDE DEF flat, at, all
<1>8. /\ IsList(Discover(c)) /\ Distinct(Discover(c))
      /\ \A x : Holds(Discover(c), x) => Holds(flat, x)
      /\ NamesIn(Discover(c)) = NamesIn(flat)
  <2>1. /\ IsList(AddAllNew(<<>>, flat))
        /\ \A x : Holds(AddAllNew(<<>>, flat), x) => Holds(<<>>, x) \/ Holds(flat, x)
        /\ NamesIn(AddAllNew(<<>>, flat)) = NamesIn(<<>>) \cup NamesIn(flat)
        /\ Distinct(<<>>) => Distinct(AddAllNew(<<>>, flat))
    BY <1>4, <1>5, AddingLists, Zenon
  <2> QED BY <1>5, <1>6, <2>1
<1> QED BY <1>1, <1>3, <1>4, <1>7, <1>8 DEF all

-----------------------------------------------------------------------------
(* What the commands keep.                                                  *)

States == {"off", "work", "discover", "read", "stat", "truncate", "write"}

Command(cmd, pc, found, seen, out) ==
  [cmd |-> cmd, pc |-> pc, found |-> found, seen |-> seen, out |-> out]

\* seen may carry the token of the environment.
IsCommand(r) ==
  /\ r = Command(r.cmd, r.pc, r.found, r.seen, r.out) /\ r.cmd \in Commands /\ r.pc \in States
  /\ IsList(r.found) /\ IsFile(r.out)
  /\ r.pc = "stat" => r.cmd \in {"init", "force"}

IsMap(g, D) == g = [x \in D |-> g[x]]

FilesOK ==
  /\ cluster \in Clusters
  /\ IsMap(files, Files) /\ \A f \in Files : IsFile(files[f])
  /\ IsMap(since, Files) /\ IsMap(added, Files) /\ IsMap(damage, Files)
  /\ IsMap(proc, Processes) /\ \A p \in Processes : IsCommand(proc[p])

\* What c must have to take the place of file f.
Keeps(f, c) ==
  /\ NamesIn(since[f].services) \cup added[f] \subseteq NamesIn(c.services)
  /\ f = "config" => c.token = since[f].token

Writing(p, f) == Target(p) = f /\ proc[p].pc = "write"

\* What a command is about to write keeps what it has read ...
KeepsRead(r) ==
  r.pc = "truncate" /\ r.cmd # "force" =>
    /\ NamesIn(r.seen.services) \subseteq NamesIn(r.out.services)
    /\ r.cmd # "install" => r.out.token = r.seen.token

\* ... and, while it writes by itself, what the file held.
Sound(f) ==
  damage[f] = {} =>
    /\ \A p, q \in Processes : Writing(p, f) /\ Writing(q, f) => p = q
    /\ (\A p \in Processes : ~Writing(p, f)) => Keeps(f, files[f])
    /\ \A p \in Processes : Writing(p, f) =>
         files[f] = Empty /\ (proc[p].cmd # "force" => Keeps(f, proc[p].out))

KeepInv == /\ FilesOK
           /\ \A p \in Processes : KeepsRead(proc[p])
           /\ \A f \in Files : Sound(f)

LEMMA Fields ==
  ASSUME NEW cmd, NEW pc, NEW found, NEW seen, NEW out
  PROVE  LET r == Command(cmd, pc, found, seen, out) IN
         /\ r.cmd = cmd /\ r.pc = pc /\ r.found = found /\ r.seen = seen /\ r.out = out
         /\ \A v : [r EXCEPT !.pc = v] = Command(cmd, v, found, seen, out)
         /\ \A v : [r EXCEPT !.found = v] = Command(cmd, pc, v, seen, out)
         /\ \A v : [r EXCEPT !.seen = v] = Command(cmd, pc, found, v, out)
         /\ \A v : [r EXCEPT !.out = v] = Command(cmd, pc, found, seen, v)
         /\ \A v : [r EXCEPT !.cmd = v] = Command(v, pc, found, seen, out)
BY DEF Command

\* The files that commands know of.
LEMMA FileFacts ==
  /\ IsFile(Absent) /\ IsFile(Empty) /\ IsFile(Broken)
  /\ \A services, token, rest : IsList(services) /\ rest \in {"ok", "bad", "more"} =>
       /\ IsFile(Written(services, token, rest))
       /\ Written(services, token, rest).services = services
       /\ Written(services, token, rest).token = token
  /\ Empty.text = "empty" /\ Absent.text = "absent" /\ Empty # Broken
  /\ IsList(<<>>) /\ NamesIn(<<>>) = {}
<1>1. IsList(<<>>) /\ NamesIn(<<>>) = {}
  <2>1. <<>> \in Seq({})
    OBVIOUS
  <2>2. IsList(<<>>)
    BY <2>1, AList
  <2> QED BY <2>2 DEF NamesIn
<1>2. /\ Absent = [text |-> "absent", services |-> <<>>, token |-> None, rest |-> "ok"]
      /\ Empty = [text |-> "empty", services |-> <<>>, token |-> None, rest |-> "ok"]
      /\ Broken = [text |-> "broken", services |-> <<>>, token |-> None, rest |-> "ok"]
  BY DEF Absent, Empty, Broken
<1>3. IsFile(Absent) /\ IsFile(Empty) /\ IsFile(Broken)
  BY <1>1, <1>2 DEF IsFile
<1>4. ASSUME NEW services, NEW token, NEW rest \in {"ok", "bad", "more"}, IsList(services)
      PROVE  IsFile(Written(services, token, rest))
  BY <1>4 DEF IsFile, Written
<1>5. \A services, token, rest : /\ Written(services, token, rest).services = services
                                 /\ Written(services, token, rest).token = token
  BY DEF Written
<1> QED BY <1>1, <1>2, <1>3, <1>4, <1>5

LEMMA IdleIs == Idle = Command("use", "off", <<>>, Absent, Absent) /\ IsCommand(Idle)
<1>1. Idle = Command("use", "off", <<>>, Absent, Absent)
  BY DEF Idle, Command
<1>2. IsCommand(Command("use", "off", <<>>, Absent, Absent))
  BY FileFacts, Fields DEF IsCommand, Commands, States
<1> QED BY <1>1, <1>2

\* A step of p that is no part of a write.
LEMMA QuietStep ==
  ASSUME KeepInv, NEW p \in Processes, NEW r, IsCommand(r), KeepsRead(r),
         proc[p].pc # "write", r.pc # "write", proc' = [proc EXCEPT ![p] = r],
         UNCHANGED <<cluster, files, since, added, damage>>
  PROVE  KeepInv'
<1>1. /\ IsMap(proc', Processes) /\ proc'[p] = r
      /\ \A q \in Processes : q # p => proc'[q] = proc[q]
  BY DEF KeepInv, FilesOK, IsMap
<1>2. \A q \in Processes : IsCommand(proc'[q]) /\ KeepsRead(proc'[q])
  BY <1>1 DEF KeepInv, FilesOK
<1>3. FilesOK'
  BY <1>1, <1>2 DEF KeepInv, FilesOK
<1>4. \A q \in Processes, f \in Files : Writing(q, f)' <=> Writing(q, f)
  BY <1>1 DEF Writing, Target
<1>5. \A q \in Processes, f \in Files : Writing(q, f) => proc'[q] = proc[q]
  BY <1>1 DEF Writing
<1>6. UNCHANGED <<files, since, added, damage>>
  OBVIOUS
<1>7. ASSUME NEW f \in Files PROVE Sound(f)'
  <2>1. Sound(f)
    BY DEF KeepInv
  <2>2. \A c : Keeps(f, c)' <=> Keeps(f, c)
    BY <1>6 DEF Keeps
  <2> QED BY <1>4, <1>5, <1>6, <2>1, <2>2 DEF Sound
<1> QED BY <1>2, <1>3, <1>7 DEF KeepInv

LEMMA CommandIs ==
  ASSUME NEW cmd \in Commands, NEW pc \in States, NEW found, NEW seen, NEW out,
         IsList(found), IsFile(out), pc # "stat" \/ cmd \in {"init", "force"},
         NEW n, n = Command(cmd, pc, found, seen, out)
  PROVE  /\ IsCommand(n) /\ n.pc = pc /\ n.found = found /\ n.out = out
         /\ KeepsRead(n) <=> (pc = "truncate" /\ cmd # "force" =>
               /\ NamesIn(seen.services) \subseteq NamesIn(out.services)
               /\ cmd # "install" => out.token = seen.token)
<1>1. n.cmd = cmd /\ n.pc = pc /\ n.found = found /\ n.seen = seen /\ n.out = out
  BY DEF Command
<1>2. n = Command(n.cmd, n.pc, n.found, n.seen, n.out)
  BY <1>1
<1> QED BY <1>1, <1>2 DEF IsCommand, KeepsRead

LEMMA ToTruncate ==
  ASSUME NEW r, IsCommand(r), NEW c, NEW out, IsFile(out), NEW n,
         n = [r EXCEPT !.pc = "truncate", !.seen = c, !.out = out]
  PROVE  n = Command(r.cmd, "truncate", r.found, c, out)
<1> DEFINE one == [r EXCEPT !.pc = "truncate"]
           two == [one EXCEPT !.seen = c]
<1>1. one = Command(r.cmd, "truncate", r.found, r.seen, r.out)
  BY DEF Command, IsCommand
<1> HIDE DEF one
<1>2. two = Command(r.cmd, "truncate", r.found, c, r.out)
  BY <1>1 DEF Command
<1> HIDE DEF two
<1>3. [two EXCEPT !.out = out] = Command(r.cmd, "truncate", r.found, c, out)
  BY <1>2 DEF Command
<1> QED BY <1>3 DEF one, two

\* What p has read as c is taken down with what it will write.
LEMMA Preparing ==
  ASSUME KeepInv, NEW p \in Processes, NEW r, r = proc[p], r.pc # "write",
         NEW c, NEW out, IsFile(out),
         r.cmd # "force" => /\ NamesIn(c.services) \subseteq NamesIn(out.services)
                            /\ r.cmd # "install" => out.token = c.token,
         NEW n, n = [r EXCEPT !.pc = "truncate", !.seen = c, !.out = out],
         proc' = [proc EXCEPT ![p] = n], UNCHANGED <<cluster, files, since, added, damage>>
  PROVE  KeepInv'
<1>1. IsCommand(r) /\ r.cmd \in Commands /\ IsList(r.found)
  BY DEF KeepInv, FilesOK, IsCommand
<1>2. n = Command(r.cmd, "truncate", r.found, c, out)
  BY <1>1, ToTruncate
<1>3. "truncate" \in States
  BY DEF States
<1>4. IsCommand(n) /\ KeepsRead(n) /\ n.pc = "truncate"
  BY <1>1, <1>2, <1>3, CommandIs
<1> QED BY <1>4, QuietStep

LEMMA FileNames == Files = {"config", "mcp"} /\ \A p : Target(p) \in Files
BY DEF Files, Target

\* What a command that has not begun to write goes on to.
LEMMA QuietSteps ==
  ASSUME KeepInv, NEW p \in Processes,
         \/ Work(p) \/ DiscoverServices(p) \/ Merge(p) \/ StatFile(p) \/ WriteMCPConfig(p)
         \/ NoDirectory(p) \/ (Kill(p) /\ proc[p].pc # "write")
         \/ \E cmd \in Commands : Start(p, cmd)
  PROVE  KeepInv'
<1> PICK r : r = proc[p]
  OBVIOUS
<1>0. /\ r = proc[p] /\ r = Command(r.cmd, r.pc, r.found, r.seen, r.out) /\ r.cmd \in Commands
      /\ r.pc \in States /\ IsList(r.found) /\ IsFile(r.out) /\ KeepsRead(r)
      /\ r.pc = "stat" => r.cmd \in {"init", "force"}
      /\ cluster \in Clusters /\ \A f \in Files : IsFile(files[f])
      /\ Files = {"config", "mcp"}
  BY FileNames DEF KeepInv, FilesOK, IsCommand
<1>1. ASSUME r.pc # "write", proc' = [proc EXCEPT ![p] = Idle],
             UNCHANGED <<cluster, files, since, added, damage>>
      PROVE  KeepInv'
  <2>1. IsCommand(Idle) /\ Idle.pc = "off"
    BY IdleIs, Fields
  <2>2. KeepsRead(Idle)
    BY <2>1 DEF KeepsRead
  <2> QED BY <1>1, <2>1, <2>2, QuietStep
<1>2. CASE Kill(p) /\ r.pc # "write"
  BY <1>1, <1>2 DEF Kill, Harm
<1>3. CASE Work(p) \/ NoDirectory(p)
  BY <1>1, <1>3 DEF Work, NoDirectory, Ends, Goes
<1>5. CASE DiscoverServices(p)
  <2>1. CASE Ends(p)
    BY <1>1, <1>5, <2>1 DEF DiscoverServices, Ends, Goes
  <2>2. CASE ~Ends(p)
    <3>1. /\ r.pc = "discover" /\ UNCHANGED <<cluster, files, since, added, damage>>
          /\ proc' = [proc EXCEPT ![p] = [r EXCEPT !.pc = "read", !.found = Discover(cluster)]]
      BY <1>5, <2>2 DEF DiscoverServices, Reads, Goes
    <3>2. PICK n : n = [r EXCEPT !.pc = "read", !.found = Discover(cluster)]
      OBVIOUS
    <3>3. n = Command(r.cmd, "read", Discover(cluster), r.seen, r.out)
      <4> DEFINE one == [r EXCEPT !.pc = "read"]
      <4>1. one = Command(r.cmd, "read", r.found, r.seen, r.out)
        BY <1>0 DEF Command
      <4> HIDE DEF one
      <4>2. [one EXCEPT !.found = Discover(cluster)] = Command(r.cmd, "read", Discover(cluster), r.seen, r.out)
        BY <4>1 DEF Command
      <4> QED BY <3>2, <4>2 DEF one
    <3>4. IsList(Discover(cluster)) /\ "read" \in States
      BY <1>0, Discovering DEF States
    <3>5. IsCommand(n) /\ KeepsRead(n) /\ n.pc = "read"
      BY <1>0, <3>3, <3>4, CommandIs
    <3> QED BY <1>0, <3>1, <3>2, <3>5, QuietStep
  <2> QED BY <2>1, <2>2
<1>6. CASE Merge(p)
  <2> DEFINE c   == files["config"]
             out == Merging(c, r.found)
  <2>0. IsFile(c) /\ IsList(c.services) /\ c.rest \in {"ok", "bad", "more"}
    BY <1>0 DEF IsFile
  <2>1. CASE Ends(p)
    BY <1>1, <1>6, <2>1 DEF Merge, MergeFrom, Ends, Goes
  <2>2. CASE ~Ends(p)
    <3>1. /\ r.pc = "read" /\ r.cmd = "merge" /\ UNCHANGED <<cluster, files, since, added, damage>>
          /\ proc' = [proc EXCEPT ![p] = [r EXCEPT !.pc = "truncate", !.seen = c, !.out = out]]
      BY <1>6, <2>2 DEF Merge, MergeFrom, Reads, Goes
    <3>2. /\ IsFile(out) /\ NamesIn(c.services) \subseteq NamesIn(out.services) /\ out.token = c.token
      <4>1. /\ IsList(AddAllNew(c.services, r.found))
            /\ NamesIn(AddAllNew(c.services, r.found)) = NamesIn(c.services) \cup NamesIn(r.found)
        BY <1>0, <2>0, AddingLists
      <4> QED BY <2>0, <4>1, FileFacts DEF Merging
    <3> HIDE DEF out, c
    <3>3. PICK n : n = [r EXCEPT !.pc = "truncate", !.seen = c, !.out = out]
      OBVIOUS
    <3> QED BY <1>0, <3>1, <3>2, <3>3, Preparing
  <2> QED BY <2>1, <2>2
<1>7. CASE StatFile(p)
  <2> DEFINE c == files["config"]
  <2>1. CASE Ends(p)
    BY <1>1, <1>7, <2>1 DEF StatFile, Ends, Goes
  <2>2. CASE ~Ends(p)
    <3>1. /\ r.pc = "stat" /\ UNCHANGED <<cluster, files, since, added, damage>>
          /\ c.text = "absent" \/ r.cmd # "init"
          /\ proc' = [proc EXCEPT ![p] = [r EXCEPT !.pc = "truncate", !.seen = c, !.out = Example]]
      BY <1>7, <2>2 DEF StatFile, Reads, Goes
    <3>2. IsFile(Example) /\ Example.services = <<>> /\ Example.token = None
      BY FileFacts DEF Example
    <3>3. r.cmd \in {"init", "force"}
      BY <1>0, <3>1
    <3>4. r.cmd # "force" => NamesIn(c.services) \subseteq NamesIn(Example.services) /\ c.token = Example.token
      BY <1>0, <3>1, <3>2, <3>3 DEF IsFile
    <3>5. PICK n : n = [r EXCEPT !.pc = "truncate", !.seen = c, !.out = Example]
      OBVIOUS
    <3> HIDE DEF c
    <3> QED BY <1>0, <3>1, <3>2, <3>4, <3>5, Preparing
  <2> QED BY <2>1, <2>2
<1>8. CASE WriteMCPConfig(p)
  <2> DEFINE c   == files["mcp"]
             out == Written(AddNew(Servers(c), Server("releasewave")), None, "ok")
  <2>1. /\ r.pc = "read" /\ r.cmd = "install" /\ UNCHANGED <<cluster, files, since, added, damage>>
        /\ proc' = [proc EXCEPT ![p] = [r EXCEPT !.pc = "truncate", !.seen = c, !.out = out]]
    BY <1>8 DEF WriteMCPConfig, Reads, Goes
  <2>2. Servers(c) = c.services /\ IsList(c.services)
    BY <1>0 DEF Servers, IsFile
  <2>3. IsFile(out) /\ NamesIn(c.services) \subseteq NamesIn(out.services)
    <3> DEFINE list == c.services
               one  == Server("releasewave")
               S    == Seqs!ToSet(list) \cup {one}
    <3>1. list \in Seq(S) /\ one \in S
      <4>1. \A x : Holds(list, x) => x \in S
        BY DEF Holds, Seqs!ToSet
      <4> HIDE DEF S, list
      <4>2. IsList(list)
        BY <2>2 DEF list
      <4>3. list \in Seq(S)
        BY <4>1, <4>2, AList
      <4> QED BY <4>3 DEF S
    <3> HIDE DEF S, list, one
    <3>2. AddNew(list, one) \in Seq(S) /\ NamesIn(AddNew(list, one)) = NamesIn(list) \cup {one.name}
      BY <3>1, AddingOne
    <3>3. IsList(AddNew(list, one))
      BY <3>2, AList
    <3> QED BY <2>2, <3>2, <3>3, FileFacts DEF list, one
  <2> HIDE DEF out, c
  <2>4. PICK n : n = [r EXCEPT !.pc = "truncate", !.seen = c, !.out = out]
    OBVIOUS
  <2> QED BY <1>0, <2>1, <2>3, <2>4, Preparing
<1>9. ASSUME NEW cmd \in Commands, Start(p, cmd)
      PROVE  KeepInv'
  <2>0. r.pc = "off" /\ UNCHANGED <<cluster, files, since, added, damage>>
    BY <1>9 DEF Start
  <2>1. CASE ~Loads(files.config)
    <3>1. proc' = [proc EXCEPT ![p] = r]
      BY <1>9, <2>1 DEF Start, KeepInv, FilesOK, IsMap
    <3> QED BY <1>0, <2>0, <3>1, QuietStep DEF IsCommand
  <2>2. CASE Loads(files.config)
    <3> DEFINE seen == Load(files.config)
               pc   == AfterLoad(cmd)
    <3>1. proc' = [proc EXCEPT ![p] = [Idle EXCEPT !.cmd = cmd, !.pc = pc, !.seen = seen]]
      BY <1>9, <2>2 DEF Start
    <3>2. pc \in {"discover", "stat", "read", "work"} /\ (pc = "stat" => cmd \in {"init", "force"})
      BY DEF AfterLoad, Commands
    <3> HIDE DEF seen, pc
    <3>3. PICK n : n = [Idle EXCEPT !.cmd = cmd, !.pc = pc, !.seen = seen]
      OBVIOUS
    <3>4. n = Command(cmd, pc, <<>>, seen, Absent)
      <4> DEFINE one == [Idle EXCEPT !.cmd = cmd]
                 two == [one EXCEPT !.pc = pc]
      <4>1. one = Command(cmd, "off", <<>>, Absent, Absent)
        BY IdleIs DEF Command
      <4> HIDE DEF one
      <4>2. two = Command(cmd, pc, <<>>, Absent, Absent)
        BY <4>1 DEF Command
      <4> HIDE DEF two
      <4>3. [two EXCEPT !.seen = seen] = Command(cmd, pc, <<>>, seen, Absent)
        BY <4>2 DEF Command
      <4> QED BY <3>3, <4>3 DEF one, two
    <3>5. pc \in States /\ pc # "write" /\ pc # "truncate" /\ IsList(<<>>) /\ IsFile(Absent)
      BY <3>2, FileFacts DEF States
    <3>6. IsCommand(n) /\ KeepsRead(n) /\ n.pc = pc
      BY <3>2, <3>4, <3>5, CommandIs
    <3> QED BY <1>0, <2>0, <3>1, <3>3, <3>5, <3>6, QuietStep
  <2> QED BY <2>1, <2>2
<1> QED BY <1>2, <1>3, <1>5, <1>6, <1>7, <1>8, <1>9

\* A file that p has nothing to do with is as it was.
LEMMA OtherFile ==
  ASSUME KeepInv, NEW p \in Processes, NEW r, proc' = [proc EXCEPT ![p] = r],
         NEW f \in Files, f # Target(p), Target(p)' = Target(p) \/ r.pc # "write",
         files'[f] = files[f], since'[f] = since[f], added'[f] = added[f], damage'[f] = damage[f]
  PROVE  Sound(f)'
<1>1. proc'[p] = r /\ \A q \in Processes : q # p => proc'[q] = proc[q]
  BY DEF KeepInv, FilesOK, IsMap
<1>2. ~Writing(p, f) /\ ~Writing(p, f)'
  BY <1>1 DEF Writing
<1>3. \A q \in Processes : q # p => Target(q)' = Target(q)
  BY <1>1 DEF Target
<1>4. \A q \in Processes : /\ Writing(q, f)' <=> Writing(q, f)
                           /\ Writing(q, f) => proc'[q] = proc[q]
  BY <1>1, <1>2, <1>3 DEF Writing
<1>5. Sound(f)
  BY DEF KeepInv
<1>6. \A c : Keeps(f, c)' <=> Keeps(f, c)
  BY DEF Keeps
<1>7. files'[f] = files[f] /\ damage'[f] = damage[f]
  OBVIOUS
<1> QED BY <1>4, <1>5, <1>6, <1>7 DEF Sound

LEMMA TruncateStep ==
  ASSUME KeepInv, NEW p \in Processes, Truncate(p)
  PROVE  KeepInv'
<1> PICK r, f : r = proc[p] /\ f = Target(p)
  OBVIOUS
<1> PICK n : n = [r EXCEPT !.pc = "write"]
  OBVIOUS
<1> PICK harmed : harmed = (files[f] # r.seen \/ \E q \in Processes : Writing(q, f))
  OBVIOUS
<1>1. /\ r.pc = "truncate" /\ proc' = [proc EXCEPT ![p] = n]
      /\ files' = [files EXCEPT ![f] = Empty]
      /\ IF harmed THEN damage' = [damage EXCEPT ![f] = @ \cup {"raced"}] ELSE damage' = damage
      /\ UNCHANGED <<cluster, since, added>>
  BY DEF Truncate, Goes, Harm, Writing
<1>2. /\ f \in Files /\ IsCommand(r) /\ KeepsRead(r) /\ IsMap(files, Files)
      /\ IsMap(damage, Files) /\ \A g \in Files : IsFile(files[g])
  BY FileNames DEF KeepInv, FilesOK
<1>3. /\ n = Command(r.cmd, "write", r.found, r.seen, r.out)
      /\ n.cmd = r.cmd /\ n.out = r.out /\ n.pc = "write"
  BY <1>2 DEF IsCommand, Command
<1>4. IsCommand(n) /\ KeepsRead(n)
  <2>1. "write" \in States
    BY DEF States
  <2>2. r.cmd \in Commands /\ IsList(r.found) /\ IsFile(r.out)
    BY <1>2 DEF IsCommand
  <2> QED BY <1>3, <2>1, <2>2, CommandIs
<1>5. proc'[p] = n /\ IsMap(proc', Processes) /\ \A q \in Processes : q # p => proc'[q] = proc[q]
  BY <1>1 DEF KeepInv, FilesOK, IsMap
<1>6. files'[f] = Empty /\ IsMap(files', Files) /\ \A g \in Files : g # f => files'[g] = files[g]
  BY <1>1, <1>2 DEF IsMap
<1>7. /\ IsMap(damage', Files) /\ \A g \in Files : g # f => damage'[g] = damage[g]
      /\ IF harmed THEN damage'[f] # {} ELSE damage'[f] = damage[f]
  BY <1>1, <1>2 DEF IsMap
<1>8. FilesOK'
  <2>1. \A q \in Processes : IsCommand(proc'[q])
    BY <1>4, <1>5 DEF KeepInv, FilesOK
  <2>2. \A g \in Files : IsFile(files'[g])
    BY <1>2, <1>6, FileFacts
  <2> QED BY <1>1, <1>5, <1>6, <1>7, <2>1, <2>2 DEF KeepInv, FilesOK
<1>9. \A q \in Processes : KeepsRead(proc'[q])
  BY <1>4, <1>5 DEF KeepInv
<1>10. Target(p)' = f
  BY <1>3, <1>5 DEF Target
<1>11. ASSUME NEW g \in Files, g # f PROVE Sound(g)'
  BY <1>1, <1>6, <1>7, <1>10, <1>11, OtherFile
<1>12. ASSUME damage'[f] = {}
       PROVE  /\ \A q, s \in Processes : Writing(q, f)' /\ Writing(s, f)' => q = s
              /\ Writing(p, f)'
              /\ \A q \in Processes : Writing(q, f)' =>
                   files'[f] = Empty /\ (proc'[q].cmd # "force" => Keeps(f, proc[q].out)')
  <2>1. damage[f] = {} /\ files[f] = r.seen /\ \A q \in Processes : ~Writing(q, f)
    BY <1>7, <1>12
  <2>2. \A q \in Processes : q # p => ~Writing(q, f)'
    BY <1>5, <2>1 DEF Writing, Target
  <2>3. Keeps(f, files[f])
    BY <1>2, <2>1 DEF KeepInv, Sound
  <2>4. r.cmd # "force" => Keeps(f, r.out)
    BY <1>1, <1>2, <2>1, <2>3 DEF KeepsRead, Keeps, Target
  <2>5. r.cmd # "force" => Keeps(f, n.out)'
    BY <1>1, <1>3, <2>4 DEF Keeps
  <2>6. Writing(p, f)'
    BY <1>3, <1>5, <1>10 DEF Writing
  <2>7. Keeps(f, proc[p].out)' <=> Keeps(f, n.out)'
    BY <1>5 DEF Keeps
  <2> QED BY <1>3, <1>5, <1>6, <2>2, <2>5, <2>6, <2>7
<1>13. Sound(f)'
  BY <1>12 DEF Sound
<1> QED BY <1>8, <1>9, <1>11, <1>13 DEF KeepInv

LEMMA WriteStep ==
  ASSUME KeepInv, NEW p \in Processes, WriteFile(p)
  PROVE  KeepInv'
<1> PICK r, f : r = proc[p] /\ f = Target(p)
  OBVIOUS
<1>1. /\ r.pc = "write" /\ proc' = [proc EXCEPT ![p] = Idle] /\ UNCHANGED <<cluster, damage>>
      /\ \E c \in {r.out} \cup (IF files[f] = Empty THEN {} ELSE {Broken}) : files' = [files EXCEPT ![f] = c]
      /\ since' = IF r.cmd = "force" THEN [since EXCEPT ![f] = r.out] ELSE since
      /\ added' = [added EXCEPT ![f] = IF r.cmd = "force" THEN {}
                                       ELSE added[f] \cup NamesIn(r.out.services)]
  BY DEF WriteFile, NamesIn
<1>2. /\ f \in Files /\ IsCommand(r) /\ IsMap(files, Files) /\ IsMap(since, Files) /\ IsMap(added, Files)
      /\ IsMap(damage, Files) /\ \A g \in Files : IsFile(files[g])
  BY FileNames DEF KeepInv, FilesOK
<1>3. IsCommand(Idle) /\ Idle.pc = "off" /\ KeepsRead(Idle) /\ IsFile(r.out)
  <2>1. Idle.pc = "off"
    BY IdleIs, Fields
  <2>2. KeepsRead(Idle)
    BY <2>1 DEF KeepsRead
  <2>3. IsFile(r.out)
    BY <1>2 DEF IsCommand
  <2> QED BY <2>1, <2>2, <2>3, IdleIs
<1>4. PICK c : /\ c = r.out \/ (c = Broken /\ files[f] # Empty)
               /\ files' = [files EXCEPT ![f] = c]
  BY <1>1
<1>5. proc'[p] = Idle /\ IsMap(proc', Processes) /\ \A q \in Processes : q # p => proc'[q] = proc[q]
  BY <1>1 DEF KeepInv, FilesOK, IsMap
<1>6. files'[f] = c /\ IsMap(files', Files) /\ \A g \in Files : g # f => files'[g] = files[g]
  BY <1>2, <1>4 DEF IsMap
<1>7. /\ IsMap(since', Files) /\ \A g \in Files : g # f => since'[g] = since[g]
      /\ since'[f] = IF r.cmd = "force" THEN r.out ELSE since[f]
  BY <1>1, <1>2 DEF IsMap
<1>8. /\ IsMap(added', Files) /\ \A g \in Files : g # f => added'[g] = added[g]
      /\ added'[f] = IF r.cmd = "force" THEN {} ELSE added[f] \cup NamesIn(r.out.services)
  <2> HIDE DEF NamesIn
  <2> QED BY <1>1, <1>2 DEF IsMap
<1>9. FilesOK'
  <2>1. \A q \in Processes : IsCommand(proc'[q])
    BY <1>3, <1>5 DEF KeepInv, FilesOK
  <2>2. \A g \in Files : IsFile(files'[g])
    BY <1>2, <1>3, <1>4, <1>6, FileFacts
  <2> QED BY <1>1, <1>5, <1>6, <1>7, <1>8, <2>1, <2>2 DEF KeepInv, FilesOK
<1>10. \A q \in Processes : KeepsRead(proc'[q])
  BY <1>3, <1>5 DEF KeepInv
<1>11. ASSUME NEW g \in Files, g # f PROVE Sound(g)'
  BY <1>1, <1>3, <1>6, <1>7, <1>8, <1>11, OtherFile
<1>12. ASSUME damage'[f] = {}
       PROVE  (\A q \in Processes : ~Writing(q, f)') /\ Keeps(f, files[f])'
  <2>1. damage[f] = {} /\ Writing(p, f)
    BY <1>1, <1>12 DEF Writing
  <2>2. /\ files[f] = Empty /\ (r.cmd # "force" => Keeps(f, r.out))
        /\ \A q \in Processes : Writing(q, f) => q = p
    BY <1>2, <2>1 DEF KeepInv, Sound
  <2>3. \A q \in Processes : ~Writing(q, f)'
    BY <1>3, <1>5, <2>2 DEF Writing, Target
  <2>4. files'[f] = r.out
    BY <1>4, <1>6, <2>2
  <2>5. CASE r.cmd = "force"
    BY <1>7, <1>8, <2>3, <2>4, <2>5 DEF Keeps
  <2>6. CASE r.cmd # "force"
    BY <1>7, <1>8, <2>2, <2>3, <2>4, <2>6 DEF Keeps
  <2> QED BY <2>5, <2>6
<1>13. Sound(f)'
  BY <1>12 DEF Sound
<1> QED BY <1>9, <1>10, <1>11, <1>13 DEF KeepInv

LEMMA KillStep ==
  ASSUME KeepInv, NEW p \in Processes, Kill(p), proc[p].pc = "write"
  PROVE  KeepInv'
<1> PICK f : f = Target(p)
  OBVIOUS
<1>1. /\ proc' = [proc EXCEPT ![p] = Idle] /\ UNCHANGED <<cluster, files, since, added>>
      /\ damage' = [damage EXCEPT ![f] = @ \cup {"killed"}]
  BY DEF Kill, Harm
<1>2. f \in Files /\ IsMap(damage, Files)
  BY FileNames DEF KeepInv, FilesOK
<1>3. IsCommand(Idle) /\ Idle.pc = "off" /\ KeepsRead(Idle)
  BY IdleIs, Fields DEF KeepsRead
<1>4. proc'[p] = Idle /\ IsMap(proc', Processes) /\ \A q \in Processes : q # p => proc'[q] = proc[q]
  BY <1>1 DEF KeepInv, FilesOK, IsMap
<1>5. /\ IsMap(damage', Files) /\ damage'[f] # {} /\ \A g \in Files : g # f => damage'[g] = damage[g]
  BY <1>1, <1>2 DEF IsMap
<1>6. FilesOK' /\ \A q \in Processes : KeepsRead(proc'[q])
  <2>1. \A q \in Processes : IsCommand(proc'[q]) /\ KeepsRead(proc'[q])
    BY <1>3, <1>4 DEF KeepInv, FilesOK
  <2> QED BY <1>1, <1>4, <1>5, <2>1 DEF KeepInv, FilesOK
<1>7. ASSUME NEW g \in Files PROVE Sound(g)'
  <2>1. CASE g = f
    BY <1>5, <2>1 DEF Sound
  <2>2. CASE g # f
    BY <1>1, <1>3, <1>5, <2>2, OtherFile
  <2> QED BY <2>1, <2>2
<1> QED BY <1>6, <1>7 DEF KeepInv

\* Two commands that write one file are noticed, and one that writes it by itself has
\* read all that it holds.
THEOREM FilesInvariance == Spec => []KeepInv
<1>1. Init => KeepInv
  <2> SUFFICES ASSUME Init PROVE KeepInv
    OBVIOUS
  <2>1. /\ cluster \in Clusters /\ IsMap(files, Files) /\ since = files
        /\ \A f \in Files : IsFile(files[f])
    <3>1. PICK c \in Configs, m \in MCPConfigs : files = [config |-> c, mcp |-> m]
      BY DEF Init
    <3>2. IsMap(files, Files) /\ \A f \in Files : files[f] \in {c, m}
      BY <3>1 DEF Files, IsMap
    <3> QED BY <3>2, ConfigAssumption DEF Init, IdleInit
  <2>2. /\ proc = [p \in Processes |-> Idle] /\ added = [f \in Files |-> {}]
        /\ damage = [f \in Files |-> {}] /\ IsCommand(Idle) /\ Idle.pc = "off"
    BY IdleIs, Fields DEF Init, IdleInit
  <2>3. \A p \in Processes : proc[p] = Idle /\ KeepsRead(proc[p]) /\ proc[p].pc = "off"
    BY <2>2 DEF KeepsRead
  <2>4. FilesOK
    BY <2>1, <2>2, <2>3 DEF FilesOK, IsMap
  <2>5. \A f \in Files : Sound(f)
    BY <2>1, <2>2, <2>3 DEF Sound, Writing, Keeps
  <2> QED BY <2>3, <2>4, <2>5 DEF KeepInv
<1>2. KeepInv /\ [Next]_vars => KeepInv'
  <2> SUFFICES ASSUME KeepInv, [Next]_vars PROVE KeepInv'
    OBVIOUS
  <2>1. CASE UNCHANGED vars
    BY <2>1 DEF vars, KeepInv, FilesOK, Sound, Writing, Target, Keeps
  <2>2. ASSUME NEW p \in Processes,
               (\E cmd \in Commands : Start(p, cmd)) \/ Step(p) \/ Kill(p)
        PROVE  KeepInv'
    <3>1. CASE Truncate(p) \/ WriteFile(p) \/ (Kill(p) /\ proc[p].pc = "write")
      BY <3>1, TruncateStep, WriteStep, KillStep
    <3>2. CASE \E cmd \in Commands : Start(p, cmd)
      BY <3>2, QuietSteps
    <3>3. CASE \/ Work(p) \/ DiscoverServices(p) \/ Merge(p) \/ StatFile(p) \/ WriteMCPConfig(p)
               \/ NoDirectory(p) \/ (Kill(p) /\ proc[p].pc # "write")
      BY <3>3, QuietSteps
    <3> QED BY <2>2, <3>1, <3>2, <3>3, Zenon DEF Step
  <2> QED BY <2>1, <2>2 DEF Next
<1> QED BY <1>1, <1>2, PTL DEF Spec

\* The names that a file held, those that a command has reported as added to it, and the
\* configuration's own token stay in it, as long as nobody is killed while writing it and
\* no two commands write it over one another.
THEOREM FilesKeepNames == Spec => []NamesAndTokenKept
<1>1. KeepInv => NamesAndTokenKept
  <2> SUFFICES ASSUME KeepInv, NEW f \in Files, Undamaged(f)
               PROVE  Keeps(f, files[f])
    BY DEF NamesAndTokenKept, Keeps
  <2>1. damage[f] = {} /\ \A p \in Processes : ~Writing(p, f)
    BY DEF Undamaged, Writing
  <2> QED BY <2>1 DEF KeepInv, Sound
<1> QED BY <1>1, FilesInvariance, PTL

-----------------------------------------------------------------------------
(* What is merged into a file that loads.                                   *)

TooShort(w) == w.repo # <<>> /\ Len(w.repo) < 3

\* It loads, or holds an annotation that Validate refuses.
Usable(c) ==
  /\ c.text # "broken"
  /\ Validate(c) \/ \E w \in Workloads : TooShort(w) /\ HasName(c.services, NameFor(w))

\* What is found at a workload has a name, and a repo of three parts unless it is annotated.
LEMMA FoundPasses ==
  ASSUME NEW w, IsWorkload(w), NEW x, Holds(DiscoverFromWorkload(w), x)
  PROVE  x.name = NameFor(w) /\ x.name # None /\ (Len(x.repo) >= 3 \/ TooShort(w))
<1>1. NameFor(w) # None /\ IsList(w.repo) /\ IsList(w.images)
  BY DEF NameFor, IsWorkload
<1>2. Len(w.repo) \in Nat /\ Len(w.images) \in Nat /\ DOMAIN w.images = 1..Len(w.images)
  BY <1>1, AList
<1>3. \A name, repo, registry : Service(name, repo, registry).name = name /\ Service(name, repo, registry).repo = repo
  BY DEF Service
<1>4. CASE w.repo # <<>>
  <2>1. x = Service(NameFor(w), w.repo, <<>>)
    BY <1>4 DEF DiscoverFromWorkload, Holds
  <2> QED BY <1>1, <1>2, <1>3, <1>4, <2>1 DEF TooShort
<1>5. CASE w.repo = <<>>
  <2> DEFINE told == [k \in DOMAIN w.images |-> Inferred(w, w.images[k])]
  <2>1. \A k \in 1..Len(w.images) : IsList(told[k])
    <3>1. \A y : <<y>> \in Seq({y}) /\ <<>> \in Seq({y})
      OBVIOUS
    <3>2. \A y : IsList(<<y>>) /\ IsList(<<>>)
      BY <3>1, AList
    <3> QED BY <1>2, <3>2 DEF Inferred
  <2>2. told = [k \in 1..Len(w.images) |-> told[k]] /\ \A k \in 1..Len(w.images) : told[k] = Inferred(w, w.images[k])
    BY <1>2
  <2>3. Holds(Seqs!FlattenSeq(told), x)
    BY <1>5 DEF DiscoverFromWorkload
  <2> HIDE DEF told
  <2>4. PICK k \in 1..Len(w.images) : Holds(told[k], x)
    BY <1>2, <2>1, <2>2, <2>3, FlattenedLists
  <2> PICK repo : repo = InferRepoFromImage(Text(w.images[k]))
    OBVIOUS
  <2>5. repo # <<>> /\ x = Service(NameFor(w), repo, ImageWithoutTag(Text(w.images[k])))
    <3> PICK y : y = Service(NameFor(w), repo, ImageWithoutTag(Text(w.images[k])))
      OBVIOUS
    <3>1. told[k] = IF repo = <<>> THEN <<>> ELSE <<y>>
      BY <2>2 DEF Inferred
    <3>2. ~Holds(<<>>, x) /\ (Holds(<<y>>, x) => x = y)
      BY DEF Holds
    <3> QED BY <2>4, <3>1, <3>2
  <2>6. Len(repo) = 3
    <3> DEFINE parts == Split(ImageWithoutTag(Text(w.images[k])))
    <3>1. /\ repo = IF Len(parts) < 3 THEN <<>> ELSE
                 CASE parts[1][1] \in GitHubRegistries -> <<"github.com", parts[2][1], parts[3][1]>>
                   [] parts[1][1] \in GitLabRegistries -> <<"gitlab.com", parts[2][1], parts[3][1]>>
                   [] OTHER -> <<>>
      BY DEF InferRepoFromImage
    <3> HIDE DEF parts
    <3>2. \E a, b, c : repo = <<a, b, c>>
      BY <2>5, <3>1
    <3> QED BY <3>2
  <2>7. x.name = NameFor(w) /\ x.repo = repo
    BY <1>3, <2>5
  <2>8. Len(x.repo) >= 3
    <3>1. Len(x.repo) = 3
      BY <2>6, <2>7, Zenon
    <3>2. \A n : n = 3 => n >= 3
      OBVIOUS
    <3> QED BY <3>1, <3>2, Zenon
  <2> HIDE DEF TooShort, NameFor
  <2> QED BY <1>1, <2>7, <2>8
<1> QED BY <1>4, <1>5

\* So a file that loads still does with the services of a cluster in it.
LEMMA MergeLoads ==
  ASSUME NEW c, IsFile(c), c.text # "broken", Usable(c), cluster \in Clusters
  PROVE  Usable(Merging(c, Discover(cluster)))
<1> PICK list, found, new : list = c.services /\ found = Discover(cluster) /\ new = AddAllNew(list, found)
  OBVIOUS
<1>1. IsList(list) /\ IsList(found)
  BY Discovering DEF IsFile
<1>2. /\ IsList(new) /\ \A x : Holds(new, x) => Holds(list, x) \/ Holds(found, x)
      /\ NamesIn(new) = NamesIn(list) \cup NamesIn(found) /\ (Distinct(list) => Distinct(new))
  BY <1>1, AddingLists
<1> PICK out : out = Merging(c, found)
  OBVIOUS
<1>3. out.text = "good" /\ out.services = new /\ out.rest = c.rest
  BY DEF Merging, Written
<1>4. \A n, s : HasName(s, n) <=> n \in NamesIn(s)
  BY DEF HasName, NamesIn
<1>5. CASE \E w \in Workloads : TooShort(w) /\ HasName(list, NameFor(w))
  BY <1>2, <1>3, <1>4, <1>5 DEF Usable
<1>6. CASE Validate(c)
  <2>1. /\ c.rest = "ok" /\ Distinct(list)
        /\ \A x : Holds(list, x) => x.name # None /\ Len(x.repo) >= 3
    BY <1>6 DEF Validate, Distinct, Holds
  <2>2. ASSUME NEW x, Holds(found, x)
        PROVE  /\ x.name # None
               /\ Len(x.repo) >= 3 \/ \E w \in Workloads : TooShort(w) /\ x.name = NameFor(w)
    <3>1. PICK k \in DOMAIN AllOf(cluster) : Holds(DiscoverFromWorkload(AllOf(cluster)[k]), x)
      BY <2>2, Discovering
    <3>2. IsWorkload(AllOf(cluster)[k]) /\ AllOf(cluster)[k] \in Workloads
      BY ConfigAssumption DEF Workloads
    <3> QED BY <3>1, <3>2, FoundPasses
  <2>3. CASE \E w \in Workloads : TooShort(w) /\ HasName(new, NameFor(w))
    BY <1>3, <2>3 DEF Usable
  <2>4. CASE ~\E w \in Workloads : TooShort(w) /\ HasName(new, NameFor(w))
    <3>1. ASSUME NEW x, Holds(new, x)
          PROVE  x.name # None /\ Len(x.repo) >= 3
      <4>1. HasName(new, x.name)
        BY <3>1 DEF HasName, Holds
      <4> QED BY <1>2, <2>1, <2>2, <2>4, <3>1, <4>1
    <3>2. Validate(out)
      BY <1>2, <1>3, <2>1, <3>1 DEF Validate, Distinct, Holds
    <3> QED BY <1>3, <3>2 DEF Usable
  <2> QED BY <2>3, <2>4
<1> QED BY <1>5, <1>6 DEF Usable

\* What is found is what the cluster has; what is about to be written is usable where what
\* was read was ...
Ready(r) ==
  /\ r.pc = "read" /\ r.cmd = "merge" => r.found = Discover(cluster)
  /\ r.pc = "truncate" /\ r.cmd # "install" => (r.cmd = "force" \/ Usable(r.seen) => Usable(r.out))
  /\ r.pc = "write" /\ r.cmd = "force" => Usable(r.out)

\* Who writes the configuration, and has not raced for it, does so alone, and has emptied
\* it; somebody may have been killed there before.
OneWriter ==
  "raced" \notin damage["config"] =>
    \A p \in Processes : Writing(p, "config") =>
      files["config"] = Empty /\ \A q \in Processes : Writing(q, "config") => q = p

\* ... and so is the file, and what takes its place.
StaysUsable ==
  "raced" \notin damage["config"] /\ Loads(since["config"]) =>
    /\ Usable(files["config"])
    /\ \A p \in Processes : Writing(p, "config") => Usable(proc[p].out)

LoadInv == OneWriter /\ StaysUsable /\ \A p \in Processes : Ready(proc[p])

LEMMA SameCluster ==
  ASSUME UNCHANGED cluster
  PROVE  \A r : (Usable(r)' <=> Usable(r)) /\ (Ready(r)' <=> Ready(r))
<1>1. \A c : Usable(c)' <=> Usable(c)
  BY DEF Usable, Workloads
<1> QED BY <1>1 DEF Ready

LEMMA ProcAt ==
  ASSUME KeepInv, NEW p \in Processes, NEW n, proc' = [proc EXCEPT ![p] = n]
  PROVE  proc'[p] = n /\ \A q \in Processes : q # p => proc'[q] = proc[q]
BY DEF KeepInv, FilesOK, IsMap

\* A step of p that is no part of a write.
LEMMA QuietLoads ==
  ASSUME KeepInv, LoadInv, NEW p \in Processes, NEW n, Ready(n),
         proc[p].pc # "write", n.pc # "write", proc' = [proc EXCEPT ![p] = n],
         UNCHANGED <<cluster, files, since, damage>>
  PROVE  LoadInv'
<1>1. proc'[p] = n /\ \A q \in Processes : q # p => proc'[q] = proc[q]
  BY ProcAt
<1>2. ASSUME NEW q \in Processes PROVE Ready(proc[q])'
  <2> PICK m : m = proc'[q]
    OBVIOUS
  <2>1. Ready(m)
    BY <1>1 DEF LoadInv
  <2>2. Ready(m)'
    BY <2>1, SameCluster
  <2> QED BY <2>2 DEF Ready
<1>3. \A q \in Processes : /\ Writing(q, "config")' <=> Writing(q, "config")
                           /\ Writing(q, "config") => proc'[q] = proc[q]
  BY <1>1 DEF Writing, Target
<1>4. StaysUsable'
  BY <1>3, SameCluster DEF StaysUsable, LoadInv
<1>5. OneWriter'
  BY <1>3 DEF OneWriter, LoadInv
<1> QED BY <1>2, <1>4, <1>5 DEF LoadInv

\* A command that is none of these three.
LEMMA OthersReady ==
  \A r : r.pc \notin {"read", "truncate", "write"} => Ready(r)
BY DEF Ready

LEMMA QuietStepsLoad ==
  ASSUME KeepInv, LoadInv, NEW p \in Processes,
         \/ Work(p) \/ DiscoverServices(p) \/ Merge(p) \/ StatFile(p) \/ WriteMCPConfig(p)
         \/ NoDirectory(p) \/ (Kill(p) /\ proc[p].pc # "write")
         \/ \E cmd \in Commands : Start(p, cmd)
  PROVE  LoadInv'
<1> PICK r : r = proc[p]
  OBVIOUS
<1>0. /\ r = proc[p] /\ r = Command(r.cmd, r.pc, r.found, r.seen, r.out) /\ IsCommand(r) /\ Ready(r)
      /\ r.pc = "stat" => r.cmd \in {"init", "force"}
      /\ cluster \in Clusters /\ \A f \in Files : IsFile(files[f])
      /\ Files = {"config", "mcp"}
  BY FileNames DEF KeepInv, FilesOK, IsCommand, LoadInv
<1>1. ASSUME r.pc # "write", proc' = [proc EXCEPT ![p] = Idle],
             UNCHANGED <<cluster, files, since, damage>>
      PROVE  LoadInv'
  <2>1. Idle.pc = "off" /\ Ready(Idle)
    BY IdleIs, Fields, OthersReady
  <2> QED BY <1>0, <1>1, <2>1, QuietLoads
<1>2. CASE Kill(p) /\ r.pc # "write"
  BY <1>1, <1>2 DEF Kill, Harm
<1>3. CASE Work(p) \/ NoDirectory(p)
  BY <1>1, <1>3 DEF Work, NoDirectory, Ends, Goes
<1>4. ASSUME NEW c, NEW out, IsFile(out), r.pc # "write",
             r.cmd # "install" => (r.cmd = "force" \/ Usable(c) => Usable(out)),
             proc' = [proc EXCEPT ![p] = [r EXCEPT !.pc = "truncate", !.seen = c, !.out = out]],
             UNCHANGED <<cluster, files, since, damage>>
      PROVE  LoadInv'
  <2>1. PICK n : n = [r EXCEPT !.pc = "truncate", !.seen = c, !.out = out]
    OBVIOUS
  <2>2. n = Command(r.cmd, "truncate", r.found, c, out)
    <3>1. IsCommand(r) /\ IsFile(out)
      BY <1>0, <1>4
    <3> QED BY <2>1, <3>1, ToTruncate
  <2>3. n.pc = "truncate" /\ n.cmd = r.cmd /\ n.seen = c /\ n.out = out
    BY <2>2 DEF Command
  <2>4. Ready(n)
    BY <1>4, <2>3 DEF Ready
  <2> QED BY <1>0, <1>4, <2>1, <2>3, <2>4, QuietLoads
<1>5. CASE DiscoverServices(p)
  <2>1. CASE Ends(p)
    BY <1>0, <1>1, <1>5, <2>1 DEF DiscoverServices, Ends, Goes
  <2>2. CASE ~Ends(p)
    <3> PICK found : found = Discover(cluster)
      OBVIOUS
    <3>1. /\ r.pc = "discover" /\ UNCHANGED <<cluster, files, since, damage>>
          /\ proc' = [proc EXCEPT ![p] = [r EXCEPT !.pc = "read", !.found = found]]
      BY <1>0, <1>5, <2>2 DEF DiscoverServices, Reads, Goes
    <3>2. PICK n : n = [r EXCEPT !.pc = "read", !.found = found]
      OBVIOUS
    <3>3. n.pc = "read" /\ n.found = found
      <4> DEFINE one == [r EXCEPT !.pc = "read"]
      <4>1. one = Command(r.cmd, "read", r.found, r.seen, r.out)
        BY <1>0 DEF Command
      <4> HIDE DEF one
      <4>2. [one EXCEPT !.found = found] = Command(r.cmd, "read", found, r.seen, r.out)
        BY <4>1 DEF Command
      <4>3. n = Command(r.cmd, "read", found, r.seen, r.out)
        BY <3>2, <4>2 DEF one
      <4> QED BY <4>3 DEF Command
    <3>4. Ready(n)
      BY <3>3 DEF Ready
    <3> QED BY <1>0, <3>1, <3>2, <3>3, <3>4, QuietLoads
  <2> QED BY <2>1, <2>2
<1>6. CASE Merge(p)
  <2> PICK c, found, out : c = files["config"] /\ found = r.found /\ out = Merging(c, found)
    OBVIOUS
  <2>1. CASE Ends(p)
    BY <1>0, <1>1, <1>6, <2>1 DEF Merge, MergeFrom, Ends, Goes
  <2>2. CASE ~Ends(p)
    <3>1. /\ r.pc = "read" /\ r.cmd = "merge" /\ UNCHANGED <<cluster, files, since, damage>>
          /\ c.text # "broken"
          /\ proc' = [proc EXCEPT ![p] = [r EXCEPT !.pc = "truncate", !.seen = c, !.out = out]]
      BY <1>0, <1>6, <2>2 DEF Merge, MergeFrom, Reads, Goes
    <3>2. found = Discover(cluster) /\ IsFile(c)
      BY <1>0, <3>1 DEF Ready
    <3>3. IsFile(out)
      <4>1. /\ c.rest \in {"ok", "bad", "more"} /\ IsList(c.services) /\ IsList(found)
        BY <1>0, <3>2, Discovering DEF IsFile
      <4>2. IsList(AddAllNew(c.services, found))
        BY <4>1, AddingLists
      <4> QED BY <4>1, <4>2, FileFacts DEF Merging
    <3>4. Usable(c) => Usable(out)
      BY <1>0, <3>1, <3>2, MergeLoads
    <3> QED BY <1>4, <3>1, <3>3, <3>4
  <2> QED BY <2>1, <2>2
<1>7. CASE StatFile(p)
  <2> PICK c : c = files["config"]
    OBVIOUS
  <2>1. CASE Ends(p)
    BY <1>0, <1>1, <1>7, <2>1 DEF StatFile, Ends, Goes
  <2>2. CASE ~Ends(p)
    <3>1. /\ r.pc = "stat" /\ UNCHANGED <<cluster, files, since, damage>>
          /\ proc' = [proc EXCEPT ![p] = [r EXCEPT !.pc = "truncate", !.seen = c, !.out = Example]]
      BY <1>0, <1>7, <2>2 DEF StatFile, Reads, Goes
    <3>2. IsFile(Example)
      BY FileFacts DEF Example
    <3>3. Usable(Example)
      <4>1. Example.text = "good" /\ Example.services = <<>> /\ Example.rest = "ok"
        BY DEF Example, Written
      <4> QED BY <4>1 DEF Usable, Validate
    <3> QED BY <1>4, <3>1, <3>2, <3>3
  <2> QED BY <2>1, <2>2
<1>8. CASE WriteMCPConfig(p)
  <2> PICK c, n : c = files["mcp"] /\ n = proc'[p]
    OBVIOUS
  <2> PICK list : list = AddNew(Servers(c), Server("releasewave"))
    OBVIOUS
  <2> PICK out : out = Written(list, None, "ok")
    OBVIOUS
  <2> PICK new : new = [r EXCEPT !.pc = "truncate", !.seen = c, !.out = out]
    OBVIOUS
  <2>1. /\ r.pc = "read" /\ r.cmd = "install" /\ UNCHANGED <<cluster, files, since, damage>>
        /\ proc' = [proc EXCEPT ![p] = new]
    BY <1>0, <1>8 DEF WriteMCPConfig, Reads, Goes
  <2>2. new.pc = "truncate" /\ new.cmd = r.cmd
    BY <1>0 DEF Command
  <2>3. Ready(new)
    BY <2>1, <2>2 DEF Ready
  <2> QED BY <1>0, <2>1, <2>2, <2>3, QuietLoads
<1>9. ASSUME NEW cmd \in Commands, Start(p, cmd)
      PROVE  LoadInv'
  <2>0. r.pc = "off" /\ UNCHANGED <<cluster, files, since, damage>>
    BY <1>0, <1>9 DEF Start
  <2>1. CASE ~Loads(files.config)
    <3>1. proc' = [proc EXCEPT ![p] = r]
      BY <1>0, <1>9, <2>1 DEF Start, KeepInv, FilesOK, IsMap
    <3> QED BY <1>0, <2>0, <3>1, QuietLoads
  <2>2. CASE Loads(files.config)
    <3> PICK seen, pc : seen = Load(files.config) /\ pc = AfterLoad(cmd)
      OBVIOUS
    <3> PICK n : n = [Idle EXCEPT !.cmd = cmd, !.pc = pc, !.seen = seen]
      OBVIOUS
    <3>1. proc' = [proc EXCEPT ![p] = n]
      BY <1>9, <2>2 DEF Start
    <3>2. pc \in {"discover", "stat", "read", "work"} /\ (pc = "read" => cmd = "install")
      BY DEF AfterLoad, Commands
    <3>3. n.pc = pc /\ n.cmd = cmd
      BY DEF Idle
    <3>4. Ready(n)
      BY <3>2, <3>3 DEF Ready
    <3> QED BY <1>0, <2>0, <3>1, <3>2, <3>3, <3>4, QuietLoads
  <2> QED BY <2>1, <2>2
<1> QED BY <1>0, <1>2, <1>3, <1>5, <1>6, <1>7, <1>8, <1>9

\* A step of p that leaves the configuration alone, or takes no write of it up or down.
LEMMA ElsewhereLoads ==
  ASSUME KeepInv, LoadInv, NEW p \in Processes, NEW n, Ready(n),
         Target(p) = "mcp", n.pc = "write" => n.cmd = "install", proc' = [proc EXCEPT ![p] = n],
         UNCHANGED cluster, files'["config"] = files["config"],
         since'["config"] = since["config"], damage'["config"] = damage["config"]
  PROVE  LoadInv'
<1>1. proc'[p] = n /\ \A q \in Processes : q # p => proc'[q] = proc[q]
  BY ProcAt
<1>2. ASSUME NEW q \in Processes PROVE Ready(proc[q])'
  <2> PICK m : m = proc'[q]
    OBVIOUS
  <2>1. Ready(m)
    BY <1>1 DEF LoadInv
  <2>2. Ready(m)'
    BY <2>1, SameCluster
  <2> QED BY <2>2 DEF Ready
<1>3. \A q \in Processes : /\ Writing(q, "config")' <=> Writing(q, "config")
                           /\ Writing(q, "config") => proc'[q] = proc[q]
  BY <1>1 DEF Writing, Target
<1>4. StaysUsable'
  BY <1>3, SameCluster DEF StaysUsable, LoadInv
<1>5. OneWriter'
  BY <1>3 DEF OneWriter, LoadInv
<1> QED BY <1>2, <1>4, <1>5 DEF LoadInv

\* A command that finds the file empty, or that is left with it, has a configuration.
LEMMA EmptyIsUsable == Usable(Empty) /\ Usable(Empty)'
<1>1. Empty.text = "empty" /\ Empty.services = <<>> /\ Empty.rest = "ok"
  BY DEF Empty, Absent
<1>2. DOMAIN Empty.services = {}
  BY <1>1
<1>3. Validate(Empty) /\ Empty.text # "broken"
  BY <1>1, <1>2 DEF Validate
<1>4. Validate(Empty)'
  BY <1>1, <1>2 DEF Validate
<1> QED BY <1>3, <1>4 DEF Usable

LEMMA TruncateLoads ==
  ASSUME KeepInv, LoadInv, NEW p \in Processes, Truncate(p)
  PROVE  LoadInv'
<1> PICK r, f : r = proc[p] /\ f = Target(p)
  OBVIOUS
<1> PICK n : n = [r EXCEPT !.pc = "write"]
  OBVIOUS
<1> PICK harmed : harmed = (files[f] # r.seen \/ \E q \in Processes : Writing(q, f))
  OBVIOUS
<1>1. /\ r.pc = "truncate" /\ proc' = [proc EXCEPT ![p] = n]
      /\ files' = [files EXCEPT ![f] = Empty]
      /\ IF harmed THEN damage' = [damage EXCEPT ![f] = @ \cup {"raced"}] ELSE damage' = damage
      /\ UNCHANGED <<cluster, since>>
  BY DEF Truncate, Goes, Harm, Writing
<1>2. /\ f \in Files /\ IsCommand(r) /\ IsMap(files, Files) /\ IsMap(damage, Files) /\ Ready(r)
      /\ "config" \in Files
  BY FileNames DEF KeepInv, FilesOK, LoadInv
<1>3. n.cmd = r.cmd /\ n.out = r.out /\ n.pc = "write"
  BY <1>2 DEF IsCommand, Command
<1>4. Ready(n)
  BY <1>1, <1>2, <1>3 DEF Ready
<1>5. proc'[p] = n /\ \A q \in Processes : q # p => proc'[q] = proc[q]
  BY <1>1, ProcAt
<1>6. CASE f = "mcp"
  <2>1. files'["config"] = files["config"] /\ damage'["config"] = damage["config"]
    BY <1>1, <1>2, <1>6 DEF IsMap
  <2>2. n.cmd = "install"
    BY <1>3, <1>6 DEF Target
  <2> QED BY <1>1, <1>4, <1>6, <2>1, <2>2, ElsewhereLoads
<1>7. CASE f = "config"
  <2>0. files'["config"] = Empty
    BY <1>1, <1>2, <1>7 DEF IsMap
  <2>1. r.cmd # "install" /\ Writing(p, "config")'
    BY <1>3, <1>5, <1>7 DEF Target, Writing
  <2>2. ASSUME "raced" \notin damage'["config"]
        PROVE  /\ \A q \in Processes : Writing(q, "config")' => q = p
               /\ Loads(since["config"]) => Usable(n.out)
    <3>1. /\ "raced" \notin damage["config"] /\ files["config"] = r.seen
          /\ \A q \in Processes : ~Writing(q, "config")
      BY <1>1, <1>2, <1>7, <2>2 DEF IsMap
    <3>2. Loads(since["config"]) => Usable(r.seen)
      BY <3>1 DEF LoadInv, StaysUsable
    <3>3. Loads(since["config"]) => Usable(n.out)
      BY <1>1, <1>2, <1>3, <2>1, <3>2 DEF Ready
    <3>4. \A q \in Processes : q # p => ~Writing(q, "config")'
      BY <1>5, <3>1 DEF Writing, Target
    <3> QED BY <3>3, <3>4
  <2>3. OneWriter'
    BY <2>0, <2>2 DEF OneWriter
  <2>4. StaysUsable'
    <3> PICK out : out = n.out
      OBVIOUS
    <3>1. Usable(n.out) => Usable(out)'
      BY <1>1, SameCluster
    <3>2. \A q \in Processes : q = p => (proc[q].out)' = out
      BY <1>5
    <3>5. Usable(files["config"])'
      BY <2>0, EmptyIsUsable DEF Usable
    <3> SUFFICES ASSUME "raced" \notin damage'["config"], Loads(since["config"])',
                        NEW q \in Processes, Writing(q, "config")'
                 PROVE  Usable(proc[q].out)'
      BY <3>5 DEF StaysUsable
    <3>3. Loads(since["config"])
      BY <1>1 DEF Loads, Validate
    <3>4. q = p /\ Usable(out)'
      BY <2>2, <3>1, <3>3
    <3> QED BY <3>2, <3>4 DEF Usable
  <2>5. ASSUME NEW q \in Processes PROVE Ready(proc[q])'
    <3> PICK m : m = proc'[q]
      OBVIOUS
    <3>1. Ready(m)
      BY <1>4, <1>5 DEF LoadInv
    <3>2. Ready(m)'
      BY <1>1, <3>1, SameCluster
    <3> QED BY <3>2 DEF Ready
  <2> QED BY <2>4, <2>5, <2>3 DEF LoadInv
<1> QED BY <1>2, <1>6, <1>7, FileNames

LEMMA WriteLoads ==
  ASSUME KeepInv, LoadInv, NEW p \in Processes, WriteFile(p)
  PROVE  LoadInv'
<1> PICK r, f : r = proc[p] /\ f = Target(p)
  OBVIOUS
<1>1. /\ r.pc = "write" /\ proc' = [proc EXCEPT ![p] = Idle] /\ UNCHANGED <<cluster, damage>>
      /\ \E c \in {r.out} \cup (IF files[f] = Empty THEN {} ELSE {Broken}) : files' = [files EXCEPT ![f] = c]
      /\ since' = IF r.cmd = "force" THEN [since EXCEPT ![f] = r.out] ELSE since
  BY DEF WriteFile
<1>2. /\ f \in Files /\ IsMap(files, Files) /\ IsMap(since, Files) /\ Ready(r) /\ "config" \in Files
  BY FileNames DEF KeepInv, FilesOK, LoadInv
<1>3. Idle.pc = "off" /\ Ready(Idle)
  BY IdleIs, Fields, OthersReady
<1>4. PICK c : /\ c = r.out \/ (c = Broken /\ files[f] # Empty)
               /\ files' = [files EXCEPT ![f] = c]
  BY <1>1
<1>5. proc'[p] = Idle /\ \A q \in Processes : q # p => proc'[q] = proc[q]
  BY <1>1, ProcAt
<1>6. CASE f = "mcp"
  <2>1. files'["config"] = files["config"] /\ since'["config"] = since["config"]
    BY <1>1, <1>2, <1>4, <1>6 DEF IsMap
  <2> QED BY <1>1, <1>3, <1>6, <2>1, ElsewhereLoads
<1>7. CASE f = "config"
  <2>1. files'["config"] = c /\ since'["config"] = IF r.cmd = "force" THEN r.out ELSE since["config"]
    BY <1>1, <1>2, <1>4, <1>7 DEF IsMap
  <2>2. ASSUME "raced" \notin damage["config"]
        PROVE  /\ \A q \in Processes : ~Writing(q, "config")'
               /\ r.cmd = "force" \/ Loads(since["config"]) => Usable(c)
    <3>1. Writing(p, "config")
      BY <1>1, <1>7 DEF Writing
    <3>2. files["config"] = Empty /\ \A q \in Processes : Writing(q, "config") => q = p
      BY <2>2, <3>1 DEF LoadInv, OneWriter
    <3>3. c = r.out
      BY <1>4, <1>7, <3>2
    <3>4. \A q \in Processes : ~Writing(q, "config")'
      BY <1>3, <1>5, <3>2 DEF Writing, Target
    <3>5. r.cmd = "force" \/ Loads(since["config"]) => Usable(r.out)
      BY <1>1, <1>2, <2>2, <3>1 DEF Ready, LoadInv, StaysUsable
    <3> QED BY <3>3, <3>4, <3>5
  <2>3. OneWriter'
    BY <1>1, <2>2 DEF OneWriter
  <2>4. StaysUsable'
    <3>1. Usable(c) => Usable(c)'
      BY <1>1, SameCluster
    <3> SUFFICES ASSUME "raced" \notin damage'["config"], Loads(since["config"])'
                 PROVE  (\A q \in Processes : ~Writing(q, "config")') /\ Usable(files["config"])'
      BY DEF StaysUsable
    <3>2. r.cmd = "force" \/ Loads(since["config"])
      BY <2>1 DEF Loads, Validate
    <3>3. (\A q \in Processes : ~Writing(q, "config")') /\ Usable(c)'
      BY <1>1, <2>2, <3>1, <3>2
    <3> QED BY <2>1, <3>3 DEF Usable
  <2>5. ASSUME NEW q \in Processes PROVE Ready(proc[q])'
    <3> PICK m : m = proc'[q]
      OBVIOUS
    <3>1. Ready(m)
      BY <1>3, <1>5 DEF LoadInv
    <3>2. Ready(m)'
      BY <1>1, <3>1, SameCluster
    <3> QED BY <3>2 DEF Ready
  <2> QED BY <2>4, <2>5, <2>3 DEF LoadInv
<1> QED BY <1>2, <1>6, <1>7, FileNames

LEMMA KillLoads ==
  ASSUME KeepInv, LoadInv, NEW p \in Processes, Kill(p), proc[p].pc = "write"
  PROVE  LoadInv'
<1> PICK f : f = Target(p)
  OBVIOUS
<1>1. /\ proc' = [proc EXCEPT ![p] = Idle] /\ UNCHANGED <<cluster, files, since>>
      /\ damage' = [damage EXCEPT ![f] = @ \cup {"killed"}]
  BY DEF Kill, Harm
<1>2. f \in Files /\ IsMap(damage, Files) /\ "config" \in Files
  BY FileNames DEF KeepInv, FilesOK
<1>3. Idle.pc = "off" /\ Ready(Idle)
  BY IdleIs, Fields, OthersReady
<1>4. CASE f = "mcp"
  <2>1. damage'["config"] = damage["config"]
    BY <1>1, <1>2, <1>4 DEF IsMap
  <2> QED BY <1>1, <1>3, <1>4, <2>1, ElsewhereLoads
<1>5. CASE f = "config"
  <2>1. "raced" \in damage'["config"] <=> "raced" \in damage["config"]
    BY <1>1, <1>2, <1>5 DEF IsMap
  <2>2. proc'[p] = Idle /\ \A q \in Processes : q # p => proc'[q] = proc[q]
    BY <1>1, ProcAt
  <2>3. \A q \in Processes : Writing(q, "config")' => Writing(q, "config") /\ proc'[q] = proc[q]
    BY <1>3, <2>2 DEF Writing, Target
  <2>4. OneWriter'
    BY <1>1, <2>1, <2>3 DEF OneWriter, LoadInv
  <2>5. StaysUsable'
    BY <1>1, <2>1, <2>3, SameCluster DEF StaysUsable, LoadInv
  <2>6. ASSUME NEW q \in Processes PROVE Ready(proc[q])'
    <3> PICK m : m = proc'[q]
      OBVIOUS
    <3>1. Ready(m)
      BY <1>1, <1>3, ProcAt DEF LoadInv
    <3>2. Ready(m)'
      BY <1>1, <3>1, SameCluster
    <3> QED BY <3>2 DEF Ready
  <2> QED BY <2>6, <2>4, <2>5 DEF LoadInv
<1> QED BY <1>2, <1>4, <1>5, FileNames

\* Of a configuration that loads, what is merged into it and written by one command at a
\* time makes one that loads, or that holds an annotation Validate refuses, also in the
\* middle of a write and after a kill.
THEOREM FilesStayUsable == Spec => []LoadInv
<1>1. Init => LoadInv
  <2> SUFFICES ASSUME Init PROVE LoadInv
    OBVIOUS
  <2>1. \A p \in Processes : proc[p] = Idle /\ Ready(proc[p]) /\ proc[p].pc = "off"
    BY IdleIs, Fields, OthersReady DEF Init, IdleInit
  <2>2. since = files
    BY DEF Init, IdleInit
  <2>3. StaysUsable /\ OneWriter
    BY <2>1, <2>2 DEF StaysUsable, OneWriter, Writing, Loads, Usable
  <2> QED BY <2>1, <2>3 DEF LoadInv
<1>2. KeepInv /\ LoadInv /\ [Next]_vars => LoadInv'
  <2> SUFFICES ASSUME KeepInv, LoadInv, [Next]_vars PROVE LoadInv'
    OBVIOUS
  <2>1. CASE UNCHANGED vars
    BY <2>1 DEF vars, LoadInv, OneWriter, StaysUsable, Writing, Target, Ready, Usable, Workloads
  <2>2. ASSUME NEW p \in Processes,
               (\E cmd \in Commands : Start(p, cmd)) \/ Step(p) \/ Kill(p)
        PROVE  LoadInv'
    <3>1. CASE Truncate(p) \/ WriteFile(p) \/ (Kill(p) /\ proc[p].pc = "write")
      BY <3>1, TruncateLoads, WriteLoads, KillLoads
    <3>2. CASE \E cmd \in Commands : Start(p, cmd)
      BY <3>2, QuietStepsLoad
    <3>3. CASE \/ Work(p) \/ DiscoverServices(p) \/ Merge(p) \/ StatFile(p) \/ WriteMCPConfig(p)
               \/ NoDirectory(p) \/ (Kill(p) /\ proc[p].pc # "write")
      BY <3>3, QuietStepsLoad
    <3> QED BY <2>2, <3>1, <3>2, <3>3, Zenon DEF Step
  <2> QED BY <2>1, <2>2 DEF Next
<1> QED BY <1>1, <1>2, FilesInvariance, PTL DEF Spec

\* A configuration that loads goes on loading at every moment, in the middle of a write and
\* after a kill too, unless two commands write it over one another or a workload carries a
\* repo annotation of fewer than three parts (mergeIntoConfig does not call Validate).
THEOREM MergedFilesLoad == Spec => []StillLoads
<1>1. LoadInv => StillLoads
  <2> SUFFICES ASSUME LoadInv, "raced" \notin damage["config"], Loads(since["config"])
               PROVE  Usable(files["config"])
    BY DEF StillLoads, Usable, Loads, TooShort
  <2> QED BY DEF LoadInv, StaysUsable
<1> QED BY <1>1, FilesStayUsable, PTL

-----------------------------------------------------------------------------
(* The text of an image.                                                    *)

LEMMA LastAt ==
  ASSUME NEW s, NEW n \in Nat, DOMAIN s = 1..n, NEW x
  PROVE  /\ \A j \in 1..n : s[j] = x /\ (\A k \in 1..n : k > j => s[k] # x) => LastIndex(s, x) = j
         /\ (\A k \in 1..n : s[k] # x) => LastIndex(s, x) = 0
<1> DEFINE at == Places(s, x)
<1>1. at = {k \in 1..n : s[k] = x} /\ LastIndex(s, x) = IF at = {} THEN 0 ELSE Seqs!Max(at)
  BY DEF Places, LastIndex
<1> HIDE DEF at
<1>2. ASSUME NEW j \in 1..n, s[j] = x, \A k \in 1..n : k > j => s[k] # x
      PROVE  LastIndex(s, x) = j
  <2>1. j \in at /\ \A y \in at : y \in 1..n /\ j >= y
    BY <1>1, <1>2
  <2>2. \A y \in at : (\A z \in at : y >= z) => y = j
    BY <2>1
  <2>3. Seqs!Max(at) = j
    <3>1. Seqs!Max(at) = CHOOSE y \in at : \A z \in at : y >= z
      BY DEF Seqs!Max
    <3> QED BY <2>1, <2>2, <3>1
  <2> QED BY <1>1, <2>1, <2>3
<1>3. (\A k \in 1..n : s[k] # x) => LastIndex(s, x) = 0
  BY <1>1
<1> QED BY <1>2, <1>3

LEMMA FirstAt ==
  ASSUME NEW s, NEW n \in Nat, DOMAIN s = 1..n, NEW x
  PROVE  /\ \A j \in 1..n : s[j] = x /\ (\A k \in 1..n : k < j => s[k] # x) => Index(s, x) = j
         /\ (\A k \in 1..n : s[k] # x) => Index(s, x) = 0
         /\ (\E k \in 1..n : s[k] = x) => Index(s, x) # 0
<1> DEFINE at == Places(s, x)
<1>1. at = {k \in 1..n : s[k] = x} /\ Index(s, x) = IF at = {} THEN 0 ELSE Seqs!Min(at)
  BY DEF Places, Index
<1> HIDE DEF at
<1>2. ASSUME NEW j \in 1..n, s[j] = x, \A k \in 1..n : k < j => s[k] # x
      PROVE  Index(s, x) = j
  <2>1. j \in at /\ \A y \in at : y \in 1..n /\ j <= y
    BY <1>1, <1>2
  <2>2. \A y \in at : (\A z \in at : y <= z) => y = j
    BY <2>1
  <2>3. Seqs!Min(at) = j
    <3>1. Seqs!Min(at) = CHOOSE y \in at : \A z \in at : y <= z
      BY DEF Seqs!Min
    <3> QED BY <2>1, <2>2, <3>1
  <2> QED BY <1>1, <2>1, <2>3
<1>3. (\A k \in 1..n : s[k] # x) => Index(s, x) = 0
  BY <1>1
<1>4. ASSUME NEW k \in 1..n, s[k] = x PROVE Index(s, x) # 0
  <2>1. at \in SUBSET Nat /\ at # {}
    BY <1>1, <1>4
  <2>2. PICK m \in at : \A y \in at : m <= y
    BY <2>1, Least
  <2>3. Index(s, x) = m
    BY <1>1, <1>2, <2>2
  <2> QED BY <1>1, <2>2, <2>3
<1> QED BY <1>2, <1>3, <1>4

LEMMA JoinedAt ==
  ASSUME NEW S, NEW s \in Seq(S), NEW t \in Seq(S)
  PROVE  /\ s \o t \in Seq(S) /\ Len(s \o t) = Len(s) + Len(t)
         /\ DOMAIN (s \o t) = 1..(Len(s) + Len(t))
         /\ \A j \in 1..Len(s) : (s \o t)[j] = s[j]
         /\ \A j \in 1..Len(t) : (s \o t)[Len(s) + j] = t[j]
<1> DEFINE m == Len(s)
           n == Len(t)
<1>1. \A j \in 1..(m + n) : (s \o t)[j] = IF j <= m THEN s[j] ELSE t[j - m]
  OBVIOUS
<1>2. ASSUME NEW j \in 1..n PROVE (s \o t)[m + j] = t[j]
  <2>1. m + j \in 1..(m + n) /\ ~(m + j <= m) /\ (m + j) - m = j
    OBVIOUS
  <2> QED BY <1>1, <2>1
<1> QED BY <1>1, <1>2

LEMMA TwoMore ==
  ASSUME NEW S, NEW l \in Seq(S), NEW t \in Seq(S), NEW m \in Nat
  PROVE  Len(l) = 2 * m /\ Len(t) = 2 =>
           /\ l \o t \in Seq(S) /\ Len(l \o t) = 2 * (m + 1)
           /\ \A j \in 1..(2 * m) : (l \o t)[j] = l[j]
           /\ \A j \in 1..2 : (l \o t)[2 * m + j] = t[j]
<1>1. /\ l \o t \in Seq(S) /\ Len(l \o t) = Len(l) + Len(t)
      /\ \A j \in 1..Len(l) : (l \o t)[j] = l[j]
      /\ \A j \in 1..Len(t) : (l \o t)[Len(l) + j] = t[j]
  BY JoinedAt
<1> SUFFICES ASSUME Len(l) = 2 * m, Len(t) = 2
             PROVE  /\ l \o t \in Seq(S) /\ Len(l \o t) = 2 * (m + 1)
                    /\ \A j \in 1..(2 * m) : (l \o t)[j] = l[j]
                    /\ \A j \in 1..2 : (l \o t)[2 * m + j] = t[j]
  OBVIOUS
<1>2. PICK a : a = 2 * m /\ a = Len(l) /\ a \in Nat /\ 2 * (m + 1) = a + 2
  OBVIOUS
<1>3. Len(l \o t) = a + 2
  BY <1>1, <1>2, Zenon
<1>4. \A j \in 1..a : (l \o t)[j] = l[j]
  BY <1>1, <1>2, Zenon
<1>5. \A j \in 1..2 : (l \o t)[a + j] = t[j]
  BY <1>1, <1>2, Zenon
<1> QED BY <1>1, <1>2, <1>3, <1>4, <1>5, Zenon

\* A list of a separator before each name.
Slashed(path) == Seqs!FlattenSeq([k \in DOMAIN path |-> <<"/", path[k]>>])

LEMMA SlashedIs ==
  ASSUME NEW path, IsList(path)
  PROVE  LET n == Len(path)
             s == Slashed(path)
         IN /\ n \in Nat /\ IsList(s) /\ Len(s) = 2 * n /\ DOMAIN s = 1..(2 * n)
            /\ \A k \in 1..n : s[2 * k - 1] = "/" /\ s[2 * k] = path[k]
<1> PICK n, seqs : n = Len(path) /\ seqs = [k \in DOMAIN path |-> <<"/", path[k]>>]
  OBVIOUS
<1>1. n \in Nat /\ DOMAIN path = 1..n /\ seqs = [k \in 1..n |-> <<"/", path[k]>>]
  BY AList
<1>2. seqs = [k \in 1..n |-> seqs[k]] /\ Len(seqs) = n
  BY <1>1
<1>3. Slashed(path) = Seqs!FlattenSeq(seqs)
  BY DEF Slashed
<1> DEFINE S == {"/"} \cup {path[k] : k \in 1..n}
<1>4. ASSUME NEW k \in 1..n
      PROVE  /\ seqs[k] \in Seq(S) /\ Len(seqs[k]) = 2
             /\ seqs[k][1] = "/" /\ seqs[k][2] = path[k]
  <2>1. seqs[k] = <<"/", path[k]>> /\ "/" \in S /\ path[k] \in S
    BY <1>1
  <2> HIDE DEF S
  <2> QED BY <2>1
<1> HIDE DEF S
<1>5. CASE n = 0
  <2>1. seqs = <<>>
    BY <1>1, <1>5
  <2>2. Seqs!FlattenSeq(seqs) = <<>>
    BY <2>1 DEF Seqs!FlattenSeq
  <2>3. IsList(<<>>)
    BY FileFacts
  <2> QED BY <1>1, <1>3, <1>5, <2>2, <2>3
<1>6. CASE n # 0
  <2>1. PICK f : /\ f[1] = seqs[1] /\ \A m \in 2..n : f[m] = f[m - 1] \o seqs[m]
                 /\ Seqs!FlattenSeq(seqs) = f[n]
    BY <1>1, <1>2, <1>6, FlatteningGoes
  <2> DEFINE Right(m) == /\ f[m] \in Seq(S) /\ Len(f[m]) = 2 * m
                         /\ \A k \in 1..m : f[m][2 * k - 1] = "/" /\ f[m][2 * k] = path[k]
             E == {m \in Nat : 1 <= m /\ m <= n => Right(m)}
  <2>2. 0 \in E
    OBVIOUS
  <2>3. ASSUME NEW m \in Nat, m \in E
        PROVE  m + 1 \in E
    <3> SUFFICES ASSUME m + 1 <= n PROVE Right(m + 1)
      OBVIOUS
    <3>1. m + 1 \in 1..n /\ (m + 1) - 1 = m
      BY <1>1
    <3>2. CASE m = 0
      <4>1. f[1] = seqs[1] /\ 1 \in 1..n
        BY <2>1, <3>1, <3>2
      <4>2. \A k \in 1..1 : 2 * k - 1 = 1 /\ 2 * k = 2 /\ k = 1
        OBVIOUS
      <4>3. f[1] \in Seq(S) /\ Len(f[1]) = 2 /\ f[1][1] = "/" /\ f[1][2] = path[1]
        BY <1>4, <4>1
      <4>4. Right(1)
        BY <4>2, <4>3
      <4> QED BY <3>2, <4>4
    <3>3. CASE m # 0
      <4>0. PICK l, t : l = f[m] /\ t = seqs[m + 1]
        OBVIOUS
      <4>1. f[m + 1] = l \o t
        <5>1. m + 1 \in 2..n
          BY <1>1, <3>1, <3>3
        <5>2. f[m + 1] = f[(m + 1) - 1] \o seqs[m + 1]
          BY <2>1, <5>1
        <5> QED BY <3>1, <4>0, <5>2
      <4>2. /\ l \in Seq(S) /\ Len(l) = 2 * m
            /\ \A k \in 1..m : l[2 * k - 1] = "/" /\ l[2 * k] = path[k]
        BY <2>3, <3>1, <3>3, <4>0
      <4>3. t \in Seq(S) /\ Len(t) = 2 /\ t[1] = "/" /\ t[2] = path[m + 1]
        BY <1>4, <3>1, <4>0
      <4>4. /\ l \o t \in Seq(S) /\ Len(l \o t) = 2 * (m + 1)
            /\ \A j \in 1..(2 * m) : (l \o t)[j] = l[j]
            /\ \A j \in 1..2 : (l \o t)[2 * m + j] = t[j]
        <5>1. m \in Nat /\ l \in Seq(S) /\ t \in Seq(S) /\ Len(l) = 2 * m /\ Len(t) = 2
          BY <4>2, <4>3
        <5> HIDE DEF Right, E
        <5> QED BY <5>1, TwoMore
      <4>5. ASSUME NEW k \in 1..(m + 1)
            PROVE  (l \o t)[2 * k - 1] = "/" /\ (l \o t)[2 * k] = path[k]
        <5>1. CASE k \in 1..m
          <6>1. 2 * k - 1 \in 1..(2 * m) /\ 2 * k \in 1..(2 * m)
            BY <5>1
          <6> QED BY <4>2, <4>4, <5>1, <6>1
        <5>2. CASE k = m + 1
          <6>1. 2 * k - 1 = 2 * m + 1 /\ 2 * k = 2 * m + 2 /\ 1 \in 1..2 /\ 2 \in 1..2
            BY <5>2
          <6>2. (l \o t)[2 * m + 1] = "/" /\ (l \o t)[2 * m + 2] = path[m + 1]
            BY <4>3, <4>4, <6>1
          <6> QED BY <5>2, <6>1, <6>2
        <5>3. k \in 1..m \/ k = m + 1
          OBVIOUS
        <5> QED BY <5>1, <5>2, <5>3
      <4> QED BY <4>1, <4>4, <4>5
    <3> QED BY <3>2, <3>3
  <2>4. n \in E
    <3> HIDE DEF E
    <3> QED BY <1>1, <2>2, <2>3, AllNumbers
  <2>5. Right(n)
    BY <1>1, <1>6, <2>4
  <2>6. IsList(f[n])
    BY <2>5, AList
  <2>7. DOMAIN f[n] = 1..(2 * n)
    BY <2>5
  <2> QED BY <1>1, <1>3, <2>1, <2>5, <2>6, <2>7
<1> QED BY <1>5, <1>6

\* The host, with its port, takes one place or three.
Width(i) == IF i.port = None THEN 1 ELSE 3

LEMMA RepositoryIs ==
  ASSUME NEW i, IsImage(i)
  PROVE  LET R == Repository(i)
             h == Width(i)
             n == Len(i.path)
         IN /\ n \in Nat /\ IsList(R) /\ DOMAIN R = 1..(h + 2 * n) /\ Len(R) = h + 2 * n
            /\ R[1] = i.host /\ (h = 3 => R[2] = ":" /\ R[3] = i.port)
            /\ \A k \in 1..n : R[h + 2 * k - 1] = "/" /\ R[h + 2 * k] = i.path[k]
<1> DEFINE n    == Len(i.path)
           h    == Width(i)
           front == <<i.host>> \o Opt(i.port, <<":", i.port>>)
           s    == Slashed(i.path)
           S    == {i.host, ":", i.port} \cup Seqs!ToSet(s)
<1>1. Repository(i) = front \o s
  BY DEF Repository, Slashed
<1>2. /\ n \in Nat /\ IsList(s) /\ Len(s) = 2 * n /\ DOMAIN s = 1..(2 * n)
      /\ \A k \in 1..n : s[2 * k - 1] = "/" /\ s[2 * k] = i.path[k]
  BY SlashedIs DEF IsImage
<1>3. /\ front \in Seq(S) /\ Len(front) = h /\ front[1] = i.host
      /\ h = 3 => front[2] = ":" /\ front[3] = i.port
  <2>1. i.host \in S /\ ":" \in S /\ i.port \in S
    OBVIOUS
  <2>2. PICK a, b : a = <<i.host>> /\ b = Opt(i.port, <<":", i.port>>)
    OBVIOUS
  <2> HIDE DEF S
  <2>3. a \in Seq(S) /\ Len(a) = 1 /\ a[1] = i.host
    BY <2>1, <2>2
  <2>4. /\ b \in Seq(S) /\ Len(b) = IF i.port = None THEN 0 ELSE 2
        /\ i.port # None => b[1] = ":" /\ b[2] = i.port
    BY <2>1, <2>2 DEF Opt
  <2>5. /\ a \o b \in Seq(S) /\ Len(a \o b) = Len(a) + Len(b)
        /\ \A j \in 1..Len(a) : (a \o b)[j] = a[j]
        /\ \A j \in 1..Len(b) : (a \o b)[Len(a) + j] = b[j]
    <3>1. a \in Seq(S) /\ b \in Seq(S)
      BY <2>3, <2>4
    <3> QED BY <3>1, JoinedAt
  <2>6. front = a \o b
    BY <2>2
  <2> HIDE DEF front
  <2>7. CASE i.port = None
    BY <2>3, <2>4, <2>5, <2>6, <2>7 DEF Width
  <2>8. CASE i.port # None
    <3>1. 1 + 1 = 2 /\ 1 + 2 = 3
      OBVIOUS
    <3> QED BY <2>3, <2>4, <2>5, <2>6, <2>8, <3>1 DEF Width
  <2> QED BY <2>7, <2>8
<1>4. s \in Seq(S)
  <2>1. \A x : Holds(s, x) => x \in S
    BY DEF Holds, Seqs!ToSet
  <2> HIDE DEF S, s
  <2> QED BY <1>2, <2>1, AList
<1>5. h \in {1, 3}
  BY DEF Width
<1> HIDE DEF n, h, front, s, S
<1>0. PICK R : R = front \o s
  OBVIOUS
<1>6. /\ R \in Seq(S) /\ Len(R) = h + 2 * n
      /\ \A j \in 1..h : R[j] = front[j]
      /\ \A j \in 1..(2 * n) : R[h + j] = s[j]
  <2>1. /\ R \in Seq(S) /\ Len(R) = Len(front) + Len(s)
        /\ \A j \in 1..Len(front) : R[j] = front[j]
        /\ \A j \in 1..Len(s) : R[Len(front) + j] = s[j]
    <3>1. front \in Seq(S) /\ s \in Seq(S)
      BY <1>3, <1>4
    <3>2. /\ front \o s \in Seq(S) /\ Len(front \o s) = Len(front) + Len(s)
          /\ \A j \in 1..Len(front) : (front \o s)[j] = front[j]
          /\ \A j \in 1..Len(s) : (front \o s)[Len(front) + j] = s[j]
      BY <3>1, JoinedAt
    <3> QED BY <1>0, <3>2, Zenon
  <2>2. Len(front) = h /\ Len(s) = 2 * n
    BY <1>2, <1>3
  <2> QED BY <2>1, <2>2, Zenon
<1>7. IsList(R) /\ DOMAIN R = 1..(h + 2 * n)
  BY <1>6, AList
<1>8. R[1] = i.host /\ (h = 3 => R[2] = ":" /\ R[3] = i.port)
  BY <1>3, <1>5, <1>6
<1>9. ASSUME NEW k \in 1..n PROVE R[h + 2 * k - 1] = "/" /\ R[h + 2 * k] = i.path[k]
  <2>1. 2 * k - 1 \in 1..(2 * n) /\ 2 * k \in 1..(2 * n) /\ h + (2 * k - 1) = h + 2 * k - 1
    BY <1>2, <1>5
  <2> QED BY <1>2, <1>6, <2>1
<1> QED BY <1>0, <1>1, <1>2, <1>6, <1>7, <1>8, <1>9 DEF n, h

\* Every place of it is one of these.
LEMMA PlacesOfRepository ==
  ASSUME NEW h \in {1, 3}, NEW n \in Nat, NEW j \in 1..(h + 2 * n)
  PROVE  \/ j = 1 \/ (h = 3 /\ j \in {2, 3})
         \/ \E k \in 1..n : j = h + 2 * k - 1 \/ j = h + 2 * k
<1>1. CASE j <= h
  BY <1>1
<1>2. CASE j > h
  <2>1. PICK k \in 1..n : j - h = 2 * k - 1 \/ j - h = 2 * k
    <3>1. j - h \in 1..(2 * n)
      BY <1>2
    <3> PICK d : d = j - h
      OBVIOUS
    <3>2. (d + 1) \div 2 \in 1..n /\ (d = 2 * ((d + 1) \div 2) - 1 \/ d = 2 * ((d + 1) \div 2))
      BY <3>1
    <3> QED BY <3>2
  <2> QED BY <2>1
<1> QED BY <1>1, <1>2

\* A separator is in a repository where it should be, and only there.
LEMMA Separators ==
  ASSUME NEW i, IsImage(i)
  PROVE  LET R == Repository(i)
             h == Width(i)
             n == Len(i.path)
         IN \A j \in 1..(h + 2 * n) :
              /\ R[j] # "@"
              /\ R[j] = ":" <=> h = 3 /\ j = 2
              /\ R[j] = "/" <=> \E k \in 1..n : j = h + 2 * k - 1
<1> DEFINE R == Repository(i)
           n == Len(i.path)
           h == Width(i)
<1>1. /\ n \in Nat /\ R[1] = i.host /\ (h = 3 => R[2] = ":" /\ R[3] = i.port)
      /\ \A k \in 1..n : R[h + 2 * k - 1] = "/" /\ R[h + 2 * k] = i.path[k]
  BY RepositoryIs
<1>2. h \in {1, 3}
  BY DEF Width
<1>3. {i.host, i.port} \cap {"/", ":", "@"} = {} /\ \A k \in 1..n : i.path[k] \notin {"/", ":", "@"}
  <2>1. DOMAIN i.path = 1..n
    BY AList DEF IsImage
  <2> QED BY <2>1 DEF IsImage, Seqs!ToSet
<1> HIDE DEF R, n, h
<1> SUFFICES ASSUME NEW j \in 1..(h + 2 * n)
             PROVE  /\ R[j] # "@"
                    /\ R[j] = ":" <=> h = 3 /\ j = 2
                    /\ R[j] = "/" <=> \E k \in 1..n : j = h + 2 * k - 1
  BY DEF R, n, h
<1>4. CASE j = 1
  <2>1. \A k \in 1..n : j # h + 2 * k - 1
    BY <1>1, <1>2, <1>4
  <2> QED BY <1>1, <1>3, <1>4, <2>1
<1>5. CASE h = 3 /\ j \in {2, 3}
  <2>1. \A k \in 1..n : j # h + 2 * k - 1
    BY <1>1, <1>5
  <2> QED BY <1>1, <1>3, <1>5, <2>1
<1>6. ASSUME NEW k \in 1..n, j = h + 2 * k - 1
      PROVE  /\ R[j] # "@"
             /\ R[j] = ":" <=> h = 3 /\ j = 2
             /\ R[j] = "/" <=> \E l \in 1..n : j = h + 2 * l - 1
  <2>1. R[j] = "/" /\ ~(h = 3 /\ j = 2)
    BY <1>1, <1>2, <1>6
  <2> QED BY <1>6, <2>1
<1>7. ASSUME NEW k \in 1..n, j = h + 2 * k
      PROVE  /\ R[j] # "@"
             /\ R[j] = ":" <=> h = 3 /\ j = 2
             /\ R[j] = "/" <=> \E l \in 1..n : j = h + 2 * l - 1
  <2>1. R[j] = i.path[k] /\ ~(h = 3 /\ j = 2)
    BY <1>1, <1>2, <1>7
  <2>2. \A l \in 1..n : j # h + 2 * l - 1
    BY <1>1, <1>2, <1>7
  <2> QED BY <1>3, <2>1, <2>2
<1> QED BY <1>1, <1>2, <1>4, <1>5, <1>6, <1>7, PlacesOfRepository

\* The repository and the tag.
Tagged(i) == Repository(i) \o Opt(i.tag, <<":", i.tag>>)

LEMMA TaggedIs ==
  ASSUME NEW i, IsImage(i)
  PROVE  LET R == Repository(i)
             m == Width(i) + 2 * Len(i.path)
             s == Tagged(i)
         IN /\ m \in Nat /\ IsList(s) /\ i.tag \notin {"/", ":", "@"}
            /\ i.tag = None => s = R
            /\ i.tag # None => /\ Len(s) = m + 2 /\ DOMAIN s = 1..(m + 2)
                               /\ \A j \in 1..m : s[j] = R[j]
                               /\ s[m + 1] = ":" /\ s[m + 2] = i.tag
<1> DEFINE m == Width(i) + 2 * Len(i.path)
<1>0. PICK R : R = Repository(i)
  OBVIOUS
<1>1. m \in Nat /\ IsList(R) /\ DOMAIN R = 1..m /\ Len(R) = m
  <2> PICK h, n : h = Width(i) /\ n = Len(i.path)
    OBVIOUS
  <2>1. h \in {1, 3}
    BY DEF Width
  <2>2. n \in Nat /\ IsList(R) /\ DOMAIN R = 1..(h + 2 * n) /\ Len(R) = h + 2 * n
    BY <1>0, RepositoryIs
  <2>3. h + 2 * n \in Nat
    BY <2>1, <2>2
  <2> QED BY <2>2, <2>3
<1>2. i.tag \notin {"/", ":", "@"}
  BY DEF IsImage
<1>3. R \in Seq(Seqs!ToSet(R))
  BY <1>1 DEF IsList
<1> HIDE DEF m
<1>4. CASE i.tag = None
  <2>1. Tagged(i) = R \o <<>>
    BY <1>0, <1>4 DEF Tagged, Opt
  <2>2. R \o <<>> = R
    BY <1>3, ConcatEmptySeq
  <2> QED BY <1>0, <1>1, <1>2, <1>4, <2>1, <2>2 DEF m
<1>5. CASE i.tag # None
  <2>0. PICK b : b = <<":", i.tag>>
    OBVIOUS
  <2>1. Tagged(i) = R \o b
    BY <1>0, <1>5, <2>0 DEF Tagged, Opt
  <2> DEFINE S == Seqs!ToSet(R) \cup {":", i.tag}
  <2>2. R \in Seq(S)
    BY <1>3
  <2>3. b \in Seq(S) /\ Len(b) = 2 /\ b[1] = ":" /\ b[2] = i.tag
    <3>1. ":" \in S /\ i.tag \in S
      OBVIOUS
    <3> HIDE DEF S
    <3> QED BY <2>0, <3>1
  <2> HIDE DEF S
  <2>4. /\ R \o b \in Seq(S) /\ Len(R \o b) = Len(R) + Len(b)
        /\ DOMAIN (R \o b) = 1..(Len(R) + Len(b))
        /\ \A j \in 1..Len(R) : (R \o b)[j] = R[j]
        /\ \A j \in 1..Len(b) : (R \o b)[Len(R) + j] = b[j]
    <3>1. R \in Seq(S) /\ b \in Seq(S)
      BY <2>2, <2>3
    <3> QED BY <3>1, JoinedAt
  <2>5. IsList(R \o b)
    BY <2>4, AList
  <2>6. 1 \in 1..Len(b) /\ 2 \in 1..Len(b)
    BY <2>3
  <2>7. /\ Len(R \o b) = m + 2 /\ DOMAIN (R \o b) = 1..(m + 2)
        /\ \A j \in 1..m : (R \o b)[j] = R[j]
        /\ (R \o b)[m + 1] = ":" /\ (R \o b)[m + 2] = i.tag
    BY <1>1, <2>3, <2>4, <2>6, Zenon
  <2> QED BY <1>0, <1>1, <1>2, <1>5, <2>1, <2>5, <2>7, Zenon DEF m
<1> QED BY <1>4, <1>5

LEMMA OnePlace ==
  ASSUME NEW S, NEW s \in Seq(S), NEW j \in 1..Len(s)
  PROVE  SubSeq(s, j, j) = <<s[j]>>
<1>1. j \in Int /\ \A i \in j..j : s[i] \in S
  OBVIOUS
<1>2. /\ SubSeq(s, j, j) \in Seq(S) /\ Len(SubSeq(s, j, j)) = IF j <= j THEN j - j + 1 ELSE 0
      /\ \A i \in 1..(j - j + 1) : SubSeq(s, j, j)[i] = s[j + i - 1]
  BY <1>1, SubSeqProperties
<1>3. Len(SubSeq(s, j, j)) = 1 /\ SubSeq(s, j, j)[1] = s[j]
  BY <1>2
<1>4. <<s[j]>> \in Seq(S) /\ Len(<<s[j]>>) = 1 /\ <<s[j]>>[1] = s[j]
  OBVIOUS
<1>5. \A i \in 1..1 : i = 1
  OBVIOUS
<1> QED BY <1>2, <1>3, <1>4, <1>5, SeqEqual

\* What extractVersion takes for the tag of an image is its tag.
LEMMA PlainTag ==
  ASSUME NEW i, IsImage(i), i.digest = None, i.port = None \/ i.tag # None
  PROVE  AfterColon(Text(i)) = IF i.tag = None THEN <<>> ELSE <<i.tag>>
<1> DEFINE m == Width(i) + 2 * Len(i.path)
<1>0. PICK s : s = Tagged(i)
  OBVIOUS
<1>1. Text(i) = s
  <2>1. Text(i) = s \o <<>>
    BY <1>0 DEF Text, Tagged, Opt
  <2>2. s \in Seq(Seqs!ToSet(s))
    BY <1>0, TaggedIs DEF IsList
  <2> QED BY <2>1, <2>2, ConcatEmptySeq
<1>2. /\ m \in Nat /\ IsList(s) /\ i.tag \notin {"/", ":", "@"}
      /\ i.tag = None => s = Repository(i)
      /\ i.tag # None => /\ Len(s) = m + 2 /\ DOMAIN s = 1..(m + 2)
                         /\ s[m + 1] = ":" /\ s[m + 2] = i.tag
  BY <1>0, TaggedIs
<1>3. DOMAIN Repository(i) = 1..m
  BY RepositoryIs
<1> HIDE DEF m
<1>4. CASE i.tag = None
  <2>1. Width(i) # 3
    BY <1>4 DEF Width
  <2>2. \A k \in 1..m : s[k] # ":"
    BY <1>2, <1>4, <2>1, Separators DEF m
  <2>3. LastIndex(s, ":") = 0
    BY <1>2, <1>3, <1>4, <2>2, LastAt
  <2> QED BY <1>1, <1>4, <2>3 DEF AfterColon, Colon
<1>5. CASE i.tag # None
  <2>1. m + 1 \in 1..(m + 2) /\ m + 2 \in Nat
    BY <1>2
  <2>2. \A k \in 1..(m + 2) : k > m + 1 => s[k] # ":"
    <3>1. \A k \in 1..(m + 2) : k > m + 1 => k = m + 2
      BY <1>2
    <3> QED BY <1>2, <1>5, <3>1
  <2>3. LastIndex(s, ":") = m + 1
    BY <1>2, <1>5, <2>1, <2>2, LastAt
  <2>4. AfterColon(s) = SubSeq(s, m + 2, m + 2)
    <3>1. m + 1 # 0 /\ (m + 1) + 1 = m + 2
      BY <1>2
    <3> QED BY <1>2, <1>5, <2>3, <3>1 DEF AfterColon, Colon
  <2>5. SubSeq(s, m + 2, m + 2) = <<s[m + 2]>>
    <3>1. s \in Seq(Seqs!ToSet(s)) /\ m + 2 \in 1..Len(s)
      BY <1>2, <1>5 DEF IsList
    <3> QED BY <3>1, OnePlace
  <2> QED BY <1>1, <1>2, <1>5, <2>4, <2>5
<1> QED BY <1>4, <1>5

\* So a version is the tag of an image, where there is one to be had.
LEMMA PlainVersion ==
  ASSUME NEW w, IsWorkload(w), Plain(w)
  PROVE  IF TagsOf(w) = {} THEN ExtractVersion(w) = <<>> ELSE ExtractVersion(w) \in TagsOf(w)
<1> DEFINE at(k) == AfterColon(Text(w.images[k]))
           tagged == {k \in DOMAIN w.images : at(k) \notin {<<>>, <<"latest">>}}
<1>1. Len(w.images) \in Nat /\ DOMAIN w.images = 1..Len(w.images)
  BY AList DEF IsWorkload
<1>2. \A k \in DOMAIN w.images : at(k) = IF w.images[k].tag = None THEN <<>> ELSE <<w.images[k].tag>>
  BY PlainTag DEF IsWorkload, Plain
<1>3. ExtractVersion(w) = IF tagged = {} THEN <<>> ELSE at(Seqs!Min(tagged))
  BY DEF ExtractVersion, Plain
<1> HIDE DEF at
<1>4. \A x : <<x>> # <<>> /\ \A y : <<x>> = <<y>> <=> x = y
  OBVIOUS
<1>5. \A k \in DOMAIN w.images : k \in tagged <=> <<w.images[k].tag>> \in TagsOf(w)
  BY <1>2, <1>4 DEF TagsOf
<1>6. \A t \in TagsOf(w) : \E k \in DOMAIN w.images : t = <<w.images[k].tag>>
  BY DEF TagsOf
<1>7. \A k \in tagged : k \in DOMAIN w.images /\ at(k) = <<w.images[k].tag>>
  BY <1>2
<1>8. tagged \in SUBSET Nat
  BY <1>1
<1> HIDE DEF tagged
<1>9. CASE tagged = {}
  BY <1>3, <1>5, <1>6, <1>9
<1>10. CASE tagged # {}
  <2>1. Seqs!Min(tagged) \in tagged
    <3>1. \E m \in tagged : \A k \in tagged : m <= k
      BY <1>8, <1>10, Least
    <3> QED BY <3>1 DEF Seqs!Min
  <2> QED BY <1>3, <1>5, <1>7, <1>10, <2>1
<1> QED BY <1>9, <1>10

\* The version that the tools compare with is the tag of an image that runs, and is found
\* if there is one, where no label, digest or port stands in for it (extractVersion,
\* ListAll).
THEOREM DeployedVersionRuns == Spec => []DeployedIsRunning
<1>1. cluster \in Clusters => DeployedIsRunning
  <2> SUFFICES ASSUME cluster \in Clusters, NEW w \in Workloads, Plain(w)
               PROVE  \E k \in DOMAIN DeployedOf(cluster, w.name) :
                        IF TagsOf(w) = {} THEN DeployedOf(cluster, w.name)[k] = <<>>
                        ELSE DeployedOf(cluster, w.name)[k] \in TagsOf(w)
    BY DEF DeployedIsRunning
  <2> DEFINE all   == AllOf(cluster)
             at    == [k \in DOMAIN all |->
                         IF all[k].name = w.name THEN <<ExtractVersion(all[k])>> ELSE <<>>]
             found == DeployedOf(cluster, w.name)
  <2>1. PICK k \in DOMAIN all : w = all[k]
    BY DEF Workloads
  <2>2. IsList(all) /\ IsWorkload(w)
    BY <2>1, ConfigAssumption
  <2>3. Len(all) \in Nat /\ DOMAIN all = 1..Len(all)
    BY <2>2, AList
  <2>4. found = Seqs!FlattenSeq(at)
    BY DEF DeployedOf
  <2>5. /\ at = [j \in 1..Len(all) |-> at[j]] /\ \A j \in 1..Len(all) : IsList(at[j])
        /\ at[k] = <<ExtractVersion(w)>>
    <3>1. \A y : <<y>> \in Seq({y}) /\ <<>> \in Seq({y})
      OBVIOUS
    <3>2. \A y : IsList(<<y>>) /\ IsList(<<>>)
      BY <3>1, AList
    <3> HIDE DEF all
    <3> QED BY <2>1, <2>3, <3>2
  <2> HIDE DEF at, found
  <2>6. Holds(at[k], ExtractVersion(w))
    <3>1. \A y : Holds(<<y>>, y)
      BY DEF Holds
    <3> QED BY <2>5, <3>1, Zenon
  <2>7. Holds(found, ExtractVersion(w))
    <3>1. \A x : Holds(found, x) <=> \E j \in 1..Len(all) : Holds(at[j], x)
      BY <2>3, <2>4, <2>5, FlattenedLists
    <3> QED BY <2>1, <2>3, <2>6, <3>1
  <2>8. IF TagsOf(w) = {} THEN ExtractVersion(w) = <<>> ELSE ExtractVersion(w) \in TagsOf(w)
    BY <2>2, PlainVersion
  <2> QED BY <2>7, <2>8 DEF Holds, found
<1>2. KeepInv => cluster \in Clusters
  BY DEF KeepInv, FilesOK
<1> QED BY <1>1, <1>2, FilesInvariance, PTL

-----------------------------------------------------------------------------
(* What an image tells.                                                     *)

LEMMA Prefix ==
  ASSUME NEW S, NEW s \in Seq(S), NEW T, NEW r \in Seq(T),
         Len(r) <= Len(s), \A j \in 1..Len(r) : s[j] = r[j]
  PROVE  SubSeq(s, 1, Len(r)) = r
<1> PICK m : m = Len(r) /\ m \in Nat
  OBVIOUS
<1>1. \A j \in 1..m : s[j] \in S \cup T
  OBVIOUS
<1>2. /\ SubSeq(s, 1, m) \in Seq(S \cup T)
      /\ Len(SubSeq(s, 1, m)) = IF 1 <= m THEN m - 1 + 1 ELSE 0
      /\ \A j \in 1..(m - 1 + 1) : SubSeq(s, 1, m)[j] = s[1 + j - 1]
  <2>1. 1 \in Int /\ m \in Int
    OBVIOUS
  <2> QED BY <1>1, <2>1, SubSeqProperties
<1>3. Len(SubSeq(s, 1, m)) = m /\ \A j \in 1..m : SubSeq(s, 1, m)[j] = s[j]
  BY <1>2
<1>4. r \in Seq(S \cup T)
  OBVIOUS
<1> QED BY <1>2, <1>3, <1>4, SeqEqual

LEMMA ASlice ==
  ASSUME NEW S, NEW s \in Seq(S), NEW a \in 1..Len(s), NEW b \in a..Len(s)
  PROVE  /\ Len(SubSeq(s, a, b)) = b - a + 1 /\ DOMAIN SubSeq(s, a, b) = 1..(b - a + 1)
         /\ \A j \in 1..(b - a + 1) : SubSeq(s, a, b)[j] = s[a + j - 1]
<1>1. a \in Int /\ b \in Int /\ \A i \in a..b : s[i] \in S
  OBVIOUS
<1>2. /\ SubSeq(s, a, b) \in Seq(S) /\ Len(SubSeq(s, a, b)) = IF a <= b THEN b - a + 1 ELSE 0
      /\ \A i \in 1..(b - a + 1) : SubSeq(s, a, b)[i] = s[a + i - 1]
  BY <1>1, SubSeqProperties
<1>3. DOMAIN SubSeq(s, a, b) = 1..Len(SubSeq(s, a, b))
  BY <1>2
<1> QED BY <1>2, <1>3

\* What comes before the digest.
LEMMA WithoutDigestIs ==
  ASSUME NEW i, IsImage(i)
  PROVE  WithoutDigest(Text(i)) = Tagged(i)
<1> DEFINE m == Width(i) + 2 * Len(i.path)
<1>0. PICK s, t : s = Tagged(i) /\ t = Text(i)
  OBVIOUS
<1>1. /\ m \in Nat /\ IsList(s) /\ i.tag \notin {"/", ":", "@"}
      /\ i.tag = None => s = Repository(i)
      /\ i.tag # None => /\ Len(s) = m + 2 /\ DOMAIN s = 1..(m + 2)
                         /\ \A j \in 1..m : s[j] = Repository(i)[j]
                         /\ s[m + 1] = ":" /\ s[m + 2] = i.tag
  BY <1>0, TaggedIs
<1>2. DOMAIN Repository(i) = 1..m /\ \A j \in 1..m : Repository(i)[j] # "@"
  BY RepositoryIs, Separators
<1> HIDE DEF m
<1>3. Len(s) \in Nat /\ DOMAIN s = 1..Len(s) /\ s \in Seq(Seqs!ToSet(s))
  BY <1>1, AList DEF IsList
<1>4. \A j \in 1..Len(s) : s[j] # "@"
  <2>1. CASE i.tag = None
    BY <1>1, <1>2, <1>3, <2>1
  <2>2. CASE i.tag # None
    <3>1. \A j \in 1..Len(s) : j \in 1..m \/ j = m + 1 \/ j = m + 2
      BY <1>1, <2>2
    <3> QED BY <1>1, <1>2, <2>2, <3>1
  <2> QED BY <2>1, <2>2
<1>5. CASE i.digest = None
  <2>1. t = s \o <<>>
    BY <1>0, <1>5 DEF Text, Tagged, Opt
  <2>2. t = s
    BY <1>3, <2>1, ConcatEmptySeq
  <2>3. Index(s, "@") = 0
    BY <1>3, <1>4, FirstAt
  <2> QED BY <1>0, <2>2, <2>3 DEF WithoutDigest
<1>6. CASE i.digest # None
  <2>0. PICK b : b = <<"@", "sha256", ":", i.digest>>
    OBVIOUS
  <2>1. t = s \o b
    BY <1>0, <1>6, <2>0 DEF Text, Tagged, Opt
  <2> DEFINE S == Seqs!ToSet(s) \cup {"@", "sha256", ":", i.digest}
  <2>2. s \in Seq(S)
    BY <1>3
  <2>3. b \in Seq(S) /\ Len(b) = 4 /\ b[1] = "@"
    <3>1. "@" \in S /\ "sha256" \in S /\ ":" \in S /\ i.digest \in S
      OBVIOUS
    <3> HIDE DEF S
    <3> QED BY <2>0, <3>1
  <2> HIDE DEF S
  <2>4. /\ s \o b \in Seq(S) /\ Len(s \o b) = Len(s) + Len(b)
        /\ DOMAIN (s \o b) = 1..(Len(s) + Len(b))
        /\ \A j \in 1..Len(s) : (s \o b)[j] = s[j]
        /\ \A j \in 1..Len(b) : (s \o b)[Len(s) + j] = b[j]
    <3>1. s \in Seq(S) /\ b \in Seq(S)
      BY <2>2, <2>3
    <3> QED BY <3>1, JoinedAt
  <2>5. PICK n : n = Len(s) /\ n \in Nat
    BY <1>3
  <2>6. /\ t \in Seq(S) /\ DOMAIN t = 1..(n + 4) /\ Len(t) = n + 4
        /\ \A j \in 1..n : t[j] = s[j]
        /\ t[n + 1] = "@"
    <3>1. 1 \in 1..Len(b)
      BY <2>3
    <3> QED BY <2>1, <2>3, <2>4, <2>5, <3>1, Zenon
  <2>7. Index(t, "@") = n + 1
    <3>1. n + 1 \in 1..(n + 4) /\ n + 4 \in Nat /\ \A k \in 1..(n + 4) : k < n + 1 => k \in 1..n
      BY <2>5
    <3>2. \A k \in 1..(n + 4) : k < n + 1 => t[k] # "@"
      BY <1>4, <2>5, <2>6, <3>1
    <3> QED BY <2>6, <3>1, <3>2, FirstAt
  <2>8. SubSeq(t, 1, n) = s
    <3>1. /\ t \in Seq(S) /\ s \in Seq(S) /\ Len(s) <= Len(t)
          /\ \A j \in 1..Len(s) : t[j] = s[j]
      BY <2>2, <2>5, <2>6
    <3> QED BY <2>5, <3>1, Prefix
  <2>9. n + 1 # 0 /\ (n + 1) - 1 = n
    BY <2>5
  <2> QED BY <1>0, <2>7, <2>8, <2>9 DEF WithoutDigest
<1> QED BY <1>5, <1>6

\* The registry of a service is the image without tag and digest, its port kept.
LEMMA WithoutTagIs ==
  ASSUME NEW i, IsImage(i)
  PROVE  ImageWithoutTag(Text(i)) = Repository(i)
<1> DEFINE n == Len(i.path)
           h == Width(i)
           m == h + 2 * n
<1>0. PICK s, R : s = Tagged(i) /\ R = Repository(i)
  OBVIOUS
<1>1. /\ IsList(s) /\ i.tag \notin {"/", ":", "@"}
      /\ i.tag = None => s = R
      /\ i.tag # None => /\ Len(s) = m + 2 /\ DOMAIN s = 1..(m + 2)
                         /\ \A j \in 1..m : s[j] = R[j]
                         /\ s[m + 1] = ":" /\ s[m + 2] = i.tag
  BY <1>0, TaggedIs
<1>2. /\ n \in Nat /\ IsList(R) /\ DOMAIN R = 1..m /\ Len(R) = m
      /\ \A j \in 1..m : R[j] = ":" <=> h = 3 /\ j = 2
      /\ \A k \in 1..n : R[h + 2 * k - 1] = "/"
  BY <1>0, RepositoryIs, Separators
<1>3. h = IF i.port = None THEN 1 ELSE 3
  BY DEF Width
<1> HIDE DEF h, n
<1>4. m \in Nat
  BY <1>2, <1>3
<1>5. ImageWithoutTag(Text(i)) =
        LET colon == LastIndex(s, ":")
        IN IF colon = 0 \/ Index(SubSeq(s, colon + 1, Len(s)), "/") # 0
           THEN s ELSE SubSeq(s, 1, colon - 1)
  BY <1>0, WithoutDigestIs DEF ImageWithoutTag
<1> HIDE DEF m
<1>6. CASE i.tag # None
  <2>1. m + 1 \in 1..(m + 2) /\ m + 2 \in Nat /\ \A k \in 1..(m + 2) : k > m + 1 => k = m + 2
    BY <1>4
  <2>2. LastIndex(s, ":") = m + 1
    <3>1. \A k \in 1..(m + 2) : k > m + 1 => s[k] # ":"
      BY <1>1, <1>6, <2>1
    <3> QED BY <1>1, <1>6, <2>1, <3>1, LastAt
  <2>3. SubSeq(s, m + 2, m + 2) = <<i.tag>>
    <3>1. s \in Seq(Seqs!ToSet(s)) /\ m + 2 \in 1..Len(s)
      BY <1>1, <1>4, <1>6 DEF IsList
    <3> QED BY <1>1, <1>6, <3>1, OnePlace
  <2>4. Index(<<i.tag>>, "/") = 0
    <3>1. PICK one : one = <<i.tag>>
      OBVIOUS
    <3>2. DOMAIN one = 1..1 /\ 1 \in Nat /\ \A k \in 1..1 : one[k] # "/"
      BY <1>1, <3>1
    <3>3. Index(one, "/") = 0
      BY <3>2, FirstAt
    <3> QED BY <3>1, <3>3
  <2>5. SubSeq(s, 1, m) = R
    <3>1. /\ s \in Seq(Seqs!ToSet(s)) /\ R \in Seq(Seqs!ToSet(R)) /\ Len(R) <= Len(s)
          /\ \A j \in 1..Len(R) : s[j] = R[j]
      BY <1>1, <1>2, <1>4, <1>6 DEF IsList
    <3>2. SubSeq(s, 1, Len(R)) = R
      BY <3>1, Prefix
    <3> QED BY <1>2, <3>2
  <2>6. m + 1 # 0 /\ (m + 1) + 1 = m + 2 /\ (m + 1) - 1 = m /\ Len(s) = m + 2
    BY <1>1, <1>4, <1>6
  <2> QED BY <1>0, <1>5, <2>2, <2>3, <2>4, <2>5, <2>6
<1>7. CASE i.tag = None /\ i.port = None
  <2>1. \A k \in 1..m : s[k] # ":"
    BY <1>1, <1>2, <1>3, <1>7
  <2>2. LastIndex(s, ":") = 0
    BY <1>1, <1>2, <1>4, <1>7, <2>1, LastAt
  <2> QED BY <1>0, <1>1, <1>5, <1>7, <2>2
<1>8. CASE i.tag = None /\ i.port # None
  <2>1. h = 3 /\ n >= 1
    <3>1. n # 0
      <4>1. i.path # <<>> /\ IsList(i.path)
        BY <1>8 DEF IsImage
      <4>2. i.path \in Seq(Seqs!ToSet(i.path))
        BY <4>1 DEF IsList
      <4> QED BY <4>1, <4>2, EmptySeq DEF n
    <3> QED BY <1>2, <1>3, <1>8, <3>1
  <2>2. m = 3 + 2 * n /\ m >= 5
    BY <1>2, <2>1 DEF m
  <2>3. LastIndex(s, ":") = 2
    <3>1. 2 \in 1..m /\ s[2] = ":" /\ \A k \in 1..m : k > 2 => s[k] # ":"
      BY <1>1, <1>2, <1>8, <2>1, <2>2
    <3> QED BY <1>1, <1>2, <1>4, <1>8, <3>1, LastAt
  <2>4. Index(SubSeq(s, 3, m), "/") # 0
    <3>1. s \in Seq(Seqs!ToSet(s)) /\ 3 \in 1..Len(s) /\ m \in 3..Len(s)
      BY <1>1, <1>2, <1>4, <1>8, <2>2 DEF IsList
    <3>2. PICK t : t = SubSeq(s, 3, m)
      OBVIOUS
    <3>3. DOMAIN t = 1..(m - 3 + 1) /\ \A j \in 1..(m - 3 + 1) : t[j] = s[3 + j - 1]
      BY <3>1, <3>2, ASlice
    <3>4. s[4] = "/"
      <4>1. 1 \in 1..n /\ h + 2 * 1 - 1 = 4
        BY <1>2, <2>1
      <4> QED BY <1>1, <1>2, <1>8, <4>1
    <3>5. 2 \in 1..(m - 3 + 1) /\ 3 + 2 - 1 = 4 /\ m - 3 + 1 \in Nat
      BY <1>4, <2>2
    <3>6. t[2] = "/"
      BY <3>3, <3>4, <3>5
    <3>7. PICK l : l = m - 3 + 1
      OBVIOUS
    <3>8. l \in Nat /\ DOMAIN t = 1..l /\ \E k \in 1..l : t[k] = "/"
      BY <3>3, <3>5, <3>6, <3>7
    <3>9. Index(t, "/") # 0
      BY <3>8, FirstAt
    <3> QED BY <3>2, <3>9
  <2>5. 2 + 1 = 3 /\ Len(s) = m
    BY <1>1, <1>2, <1>8
  <2> QED BY <1>0, <1>1, <1>5, <1>8, <2>3, <2>4, <2>5
<1> QED BY <1>6, <1>7, <1>8

LEMMA EveryOther ==
  ASSUME NEW h \in {1, 3}, NEW n \in Nat
  PROVE  Cardinality({h + 2 * k - 1 : k \in 1..n}) = n
<1> DEFINE T == {h + 2 * k - 1 : k \in 1..n}
           f == [k \in 1..n |-> h + 2 * k - 1]
<1>1. f \in [1..n -> T] /\ \A k \in 1..n : f[k] = h + 2 * k - 1
  OBVIOUS
<1>2. \A k, l \in 1..n : f[k] = f[l] => k = l
  OBVIOUS
<1>3. \A t \in T : \E k \in 1..n : f[k] = t
  OBVIOUS
<1> HIDE DEF f, T
<1>4. f \in Bijection(1..n, T)
  BY <1>1, <1>2, <1>3 DEF Bijection, Injection, Surjection, IsInjective
<1>5. ExistsBijection(1..n, T)
  BY <1>4 DEF ExistsBijection
<1>6. Cardinality(T) = n
  BY <1>5, FS_CountingElements
<1> QED BY <1>6 DEF T

\* The host, with its port, and each name of the path: the parts of a repository.
LEMMA SplitIs ==
  ASSUME NEW i, IsImage(i)
  PROVE  LET parts == Split(Repository(i))
             n == Len(i.path)
         IN /\ n \in Nat /\ Len(parts) = n + 1
            /\ n >= 2 => parts[1][1] = i.host /\ parts[2][1] = i.path[1] /\ parts[3][1] = i.path[2]
<1> DEFINE n == Len(i.path)
           h == Width(i)
           m == h + 2 * n
<1>0. PICK R, slashes : R = Repository(i) /\ slashes = Places(R, "/")
  OBVIOUS
<1>1. /\ n \in Nat /\ IsList(R) /\ DOMAIN R = 1..m /\ Len(R) = m /\ R[1] = i.host
      /\ \A j \in 1..m : R[j] = "/" <=> \E k \in 1..n : j = h + 2 * k - 1
      /\ \A k \in 1..n : R[h + 2 * k] = i.path[k]
  BY <1>0, RepositoryIs, Separators
<1>2. h \in {1, 3}
  BY DEF Width
<1> HIDE DEF h, n
<1>3. slashes = {h + 2 * k - 1 : k \in 1..n}
  <2>1. \A k \in 1..n : h + 2 * k - 1 \in 1..m
    BY <1>1, <1>2
  <2> HIDE DEF m
  <2> QED BY <1>0, <1>1, <2>1 DEF Places
<1> DEFINE cut(k) == IF k = 0 THEN 0
                     ELSE CHOOSE p \in slashes \cup {Len(R) + 1} :
                            Cardinality({q \in slashes : q < p}) = k - 1
<1>4. ASSUME NEW k \in 1..(n + 1)
      PROVE  cut(k) = h + 2 * k - 1
  <2>1. slashes \cup {Len(R) + 1} = {h + 2 * l - 1 : l \in 1..(n + 1)}
    <3>1. 1..(n + 1) = 1..n \cup {n + 1} /\ Len(R) + 1 = h + 2 * (n + 1) - 1
      BY <1>1, <1>2
    <3> HIDE DEF m
    <3> QED BY <1>3, <3>1
  <2>2. ASSUME NEW l \in 1..(n + 1)
        PROVE  Cardinality({q \in slashes : q < h + 2 * l - 1}) = l - 1
    <3>1. {q \in slashes : q < h + 2 * l - 1} = {h + 2 * j - 1 : j \in 1..(l - 1)}
      <4>1. \A j \in 1..n : h + 2 * j - 1 < h + 2 * l - 1 <=> j \in 1..(l - 1)
        BY <1>1, <1>2
      <4>2. 1..(l - 1) \subseteq 1..n
        BY <1>1
      <4> QED BY <1>3, <4>1, <4>2
    <3>2. l - 1 \in Nat
      BY <1>1
    <3> QED BY <1>2, <3>1, <3>2, EveryOther
  <2> DEFINE P(p) == Cardinality({q \in slashes : q < p}) = k - 1
  <2>3. ASSUME NEW p \in slashes \cup {Len(R) + 1}
        PROVE  P(p) <=> p = h + 2 * k - 1
    <3>1. PICK l \in 1..(n + 1) : p = h + 2 * l - 1
      BY <2>1
    <3>2. P(p) <=> l - 1 = k - 1
      BY <2>2, <3>1
    <3>3. l - 1 = k - 1 <=> p = h + 2 * k - 1
      BY <1>1, <1>2, <3>1
    <3> QED BY <3>2, <3>3
  <2>4. h + 2 * k - 1 \in slashes \cup {Len(R) + 1}
    BY <2>1
  <2>5. k # 0
    BY <1>1
  <2>6. cut(k) = CHOOSE p \in slashes \cup {Len(R) + 1} : P(p)
    BY <2>5
  <2> HIDE DEF P, cut
  <2> QED BY <2>3, <2>4, <2>6
<1>5. Split(R) = [k \in 1..(Cardinality(slashes) + 1) |-> SubSeq(R, cut(k - 1) + 1, cut(k) - 1)]
  BY <1>0 DEF Split
<1>6. Cardinality(slashes) = n
  BY <1>1, <1>2, <1>3, EveryOther
<1>7. cut(0) = 0
  OBVIOUS
<1> HIDE DEF cut
<1>8p. PICK parts : parts = Split(R)
  OBVIOUS
<1>8a. parts = [k \in 1..(n + 1) |-> SubSeq(R, cut(k - 1) + 1, cut(k) - 1)]
  BY <1>5, <1>6, <1>8p, Zenon
<1>8. /\ Len(parts) = n + 1
      /\ \A k \in 1..(n + 1) : parts[k] = SubSeq(R, cut(k - 1) + 1, cut(k) - 1)
  <2>1. \A S, N : N \in Nat => \A f \in [1..N -> S] : Len(f) = N
    OBVIOUS
  <2>2. n + 1 \in Nat
    BY <1>1
  <2> DEFINE S == {SubSeq(R, cut(k - 1) + 1, cut(k) - 1) : k \in 1..(n + 1)}
  <2>3. parts \in [1..(n + 1) -> S]
    BY <1>8a, Zenon
  <2>4. Len(parts) = n + 1
    <3> HIDE DEF S
    <3> QED BY <2>1, <2>2, <2>3, Zenon
  <2>5. \A k \in 1..(n + 1) : parts[k] = SubSeq(R, cut(k - 1) + 1, cut(k) - 1)
    BY <1>8a, Zenon
  <2> QED BY <2>4, <2>5
<1>9. ASSUME n >= 2
      PROVE  parts[1][1] = i.host /\ parts[2][1] = i.path[1] /\ parts[3][1] = i.path[2]
  <2>1. /\ 1 \in 1..(n + 1) /\ 2 \in 1..(n + 1) /\ 3 \in 1..(n + 1)
        /\ 1 - 1 = 0 /\ 2 - 1 = 1 /\ 3 - 1 = 2 /\ 0 + 1 = 1
    BY <1>1, <1>9
  <2>2. cut(1) - 1 = h /\ cut(1) + 1 = h + 2 /\ cut(2) - 1 = h + 2 /\ cut(2) + 1 = h + 4 /\ cut(3) - 1 = h + 4
    BY <1>2, <1>4, <2>1
  <2>3. parts[1] = SubSeq(R, 1, h) /\ parts[2] = SubSeq(R, h + 2, h + 2) /\ parts[3] = SubSeq(R, h + 4, h + 4)
    BY <1>7, <1>8, <2>1, <2>2
  <2>4. /\ R \in Seq(Seqs!ToSet(R)) /\ 1 \in 1..Len(R) /\ h \in 1..Len(R)
        /\ h + 2 \in 1..Len(R) /\ h + 4 \in 1..Len(R)
    BY <1>1, <1>2, <1>9 DEF IsList
  <2>5. SubSeq(R, 1, h)[1] = R[1]
    <3>1. h \in 1..Len(R) /\ h - 1 + 1 = h /\ 1 \in 1..h /\ 1 + 1 - 1 = 1
      BY <1>2, <2>4
    <3>2. \A j \in 1..(h - 1 + 1) : SubSeq(R, 1, h)[j] = R[1 + j - 1]
      BY <2>4, <3>1, ASlice
    <3> QED BY <3>1, <3>2
  <2>6. SubSeq(R, h + 2, h + 2) = <<R[h + 2]>> /\ SubSeq(R, h + 4, h + 4) = <<R[h + 4]>>
    BY <2>4, OnePlace
  <2>7. R[h + 2] = i.path[1] /\ R[h + 4] = i.path[2]
    <3>1. 1 \in 1..n /\ 2 \in 1..n /\ h + 2 * 1 = h + 2 /\ h + 2 * 2 = h + 4
      BY <1>1, <1>2, <1>9
    <3> QED BY <1>1, <3>1
  <2>8. \A x : <<x>>[1] = x
    OBVIOUS
  <2>9. parts[1][1] = i.host
    BY <1>1, <2>3, <2>5, Zenon
  <2>10. parts[2][1] = i.path[1]
    BY <2>3, <2>6, <2>7, <2>8, Zenon
  <2>11. parts[3][1] = i.path[2]
    BY <2>3, <2>6, <2>7, <2>8, Zenon
  <2> QED BY <2>9, <2>10, <2>11
<1>10. parts = Split(Repository(i))
  BY <1>0, <1>8p
<1>11. n \in Nat
  BY <1>1
<1> QED BY <1>8, <1>9, <1>10, <1>11 DEF n

\* The repo an image tells, if its registry is known and its path long enough.
LEMMA InferredIs ==
  ASSUME NEW i, IsImage(i)
  PROVE  InferRepoFromImage(Text(i)) =
           IF Len(i.path) < 2 THEN <<>> ELSE
           CASE i.host \in GitHubRegistries -> <<"github.com", i.path[1], i.path[2]>>
             [] i.host \in GitLabRegistries -> <<"gitlab.com", i.path[1], i.path[2]>>
             [] OTHER -> <<>>
<1>1. InferRepoFromImage(Text(i)) =
        LET parts == Split(Repository(i)) IN
        IF Len(parts) < 3 THEN <<>> ELSE
        CASE parts[1][1] \in GitHubRegistries -> <<"github.com", parts[2][1], parts[3][1]>>
          [] parts[1][1] \in GitLabRegistries -> <<"gitlab.com", parts[2][1], parts[3][1]>>
          [] OTHER -> <<>>
  BY WithoutTagIs DEF InferRepoFromImage
<1>2. PICK parts, n : parts = Split(Repository(i)) /\ n = Len(i.path)
  OBVIOUS
<1>3. /\ n \in Nat /\ Len(parts) = n + 1
      /\ n >= 2 => parts[1][1] = i.host /\ parts[2][1] = i.path[1] /\ parts[3][1] = i.path[2]
  BY <1>2, SplitIs
<1>4. CASE n < 2
  BY <1>1, <1>2, <1>3, <1>4
<1>5. CASE ~(n < 2)
  <2>1. n >= 2 /\ ~(Len(parts) < 3)
    BY <1>3, <1>5
  <2> QED BY <1>1, <1>2, <1>3, <1>5, <2>1, Zenon
<1> QED BY <1>4, <1>5

\* An image tells its repo exactly if the registry is known and the path names one, and
\* ParseRepo reads it as it was meant.
Known(i) == i.host \in GitHubRegistries \cup GitLabRegistries /\ Len(i.path) >= 2

LEMMA KnownImage ==
  ASSUME NEW i, IsImage(i)
  PROVE  LET repo == InferRepoFromImage(Text(i)) IN
         /\ repo # <<>> <=> Known(i)
         /\ Known(i) => /\ [ParseRepo(repo) EXCEPT !.platform = None] =
                             [err |-> FALSE, platform |-> None, owner |-> i.path[1], name |-> i.path[2]]
                        /\ ParseRepo(repo).platform \in {"github", "gitlab"}
<1>1. PICK repo, host, path, n :
        repo = InferRepoFromImage(Text(i)) /\ host = i.host /\ path = i.path /\ n = Len(i.path)
  OBVIOUS
<1>2. repo = IF n < 2 THEN <<>> ELSE
             CASE host \in GitHubRegistries -> <<"github.com", path[1], path[2]>>
               [] host \in GitLabRegistries -> <<"gitlab.com", path[1], path[2]>>
               [] OTHER -> <<>>
  BY <1>1, InferredIs
<1>3. n \in Nat /\ (n < 2 <=> ~(n >= 2))
  BY <1>1, AList DEF IsImage
<1>4. \A a, b, c : <<a, b, c>> # <<>>
  OBVIOUS
<1>5. host \in GitHubRegistries => host \notin GitLabRegistries
  BY DEF GitHubRegistries, GitLabRegistries
<1>6. Known(i) <=> host \in GitHubRegistries \cup GitLabRegistries /\ n >= 2
  BY <1>1 DEF Known
<1>7. repo # <<>> <=> Known(i)
  <2> HIDE DEF GitHubRegistries
  <2> QED BY <1>2, <1>3, <1>4, <1>6
<1>8. ASSUME NEW p \in {"github", "gitlab"},
             repo = <<IF p = "github" THEN "github.com" ELSE "gitlab.com", path[1], path[2]>>
      PROVE  ParseRepo(repo) = [err |-> FALSE, platform |-> p, owner |-> path[1], name |-> path[2]]
  <2>1. /\ Len(repo) = 3 /\ ~(3 < 3) /\ repo[2] = path[1] /\ repo[3] = path[2]
        /\ repo[1] = IF p = "github" THEN "github.com" ELSE "gitlab.com"
    BY <1>8
  <2>2. ~(Len(repo) < 3)
    BY <2>1, Zenon
  <2>3. ParseRepo(repo) = [err |-> FALSE, owner |-> repo[2], name |-> repo[3],
                           platform |-> CASE repo[1] = "github.com" -> "github"
                                          [] repo[1] = "gitlab.com" -> "gitlab"
                                          [] OTHER -> repo[1]]
    BY <2>2 DEF ParseRepo
  <2>4. (CASE repo[1] = "github.com" -> "github"
           [] repo[1] = "gitlab.com" -> "gitlab"
           [] OTHER -> repo[1]) = p
    BY <2>1
  <2> QED BY <2>1, <2>3, <2>4
<1>9. ASSUME Known(i)
      PROVE  \E p \in {"github", "gitlab"} :
               repo = <<IF p = "github" THEN "github.com" ELSE "gitlab.com", path[1], path[2]>>
  <2>1. ~(n < 2)
    BY <1>3, <1>6, <1>9
  <2>2. CASE host \in GitHubRegistries
    <3>1. repo = <<"github.com", path[1], path[2]>>
      BY <1>2, <1>5, <2>1, <2>2
    <3> QED BY <3>1
  <2>3. CASE host \in GitLabRegistries
    <3>1. repo = <<"gitlab.com", path[1], path[2]>>
      BY <1>2, <1>5, <2>1, <2>3
    <3> QED BY <3>1
  <2> QED BY <1>6, <1>9, <2>2, <2>3
<1>10. ASSUME Known(i)
       PROVE  /\ [ParseRepo(repo) EXCEPT !.platform = None] =
                   [err |-> FALSE, platform |-> None, owner |-> path[1], name |-> path[2]]
              /\ ParseRepo(repo).platform \in {"github", "gitlab"}
  <2>1. PICK p \in {"github", "gitlab"} :
          repo = <<IF p = "github" THEN "github.com" ELSE "gitlab.com", path[1], path[2]>>
    BY <1>9, <1>10
  <2>2. PICK r : r = ParseRepo(repo)
    OBVIOUS
  <2>3. r = [err |-> FALSE, platform |-> p, owner |-> path[1], name |-> path[2]]
    BY <1>8, <2>1, <2>2
  <2>4. /\ [r EXCEPT !.platform = None] =
             [err |-> FALSE, platform |-> None, owner |-> path[1], name |-> path[2]]
        /\ r.platform = p
    <3> DEFINE t == [err |-> FALSE, platform |-> None, owner |-> path[1], name |-> path[2]]
    <3>1. [r EXCEPT !.platform = None] = [x \in DOMAIN r |-> IF x = "platform" THEN None ELSE r[x]]
      OBVIOUS
    <3>2. /\ DOMAIN r = {"err", "platform", "owner", "name"} /\ DOMAIN t = DOMAIN r
          /\ r.platform = p /\ t.platform = None
          /\ t.err = r.err /\ t.owner = r.owner /\ t.name = r.name
      BY <2>3
    <3>3. t = [x \in DOMAIN t |-> t[x]]
      OBVIOUS
    <3> HIDE DEF t
    <3>4. \A x \in DOMAIN r : t[x] = IF x = "platform" THEN None ELSE r[x]
      BY <3>2
    <3>5. [r EXCEPT !.platform = None] = t
      BY <3>1, <3>2, <3>3, <3>4
    <3> QED BY <3>2, <3>5 DEF t
  <2> QED BY <2>1, <2>2, <2>4
<1> QED BY <1>1, <1>7, <1>10, Zenon

\* What an unannotated workload yields: a service for each known image.
LEMMA FoundByImage ==
  ASSUME NEW w, IsWorkload(w), w.repo = <<>>, NEW x
  PROVE  Holds(DiscoverFromWorkload(w), x) <=>
           \E k \in DOMAIN w.images :
             /\ Known(w.images[k])
             /\ x = Service(NameFor(w), InferRepoFromImage(Text(w.images[k])), Repository(w.images[k]))
<1> DEFINE told == [k \in DOMAIN w.images |-> Inferred(w, w.images[k])]
           here(k) == Service(NameFor(w), InferRepoFromImage(Text(w.images[k])), Repository(w.images[k]))
<1>1. Len(w.images) \in Nat /\ DOMAIN w.images = 1..Len(w.images)
  BY AList DEF IsWorkload
<1>2. ASSUME NEW k \in 1..Len(w.images)
      PROVE  told[k] = IF Known(w.images[k]) THEN <<here(k)>> ELSE <<>>
  <2>1. IsImage(w.images[k])
    BY <1>1 DEF IsWorkload
  <2>2. ImageWithoutTag(Text(w.images[k])) = Repository(w.images[k])
    BY <2>1, WithoutTagIs
  <2>3. InferRepoFromImage(Text(w.images[k])) # <<>> <=> Known(w.images[k])
    BY <2>1, KnownImage
  <2>4. told[k] = Inferred(w, w.images[k])
    BY <1>1
  <2> HIDE DEF told
  <2> QED BY <2>2, <2>3, <2>4 DEF Inferred
<1>3. told = [k \in 1..Len(w.images) |-> told[k]]
  BY <1>1
<1>4. DiscoverFromWorkload(w) = Seqs!FlattenSeq(told)
  BY DEF DiscoverFromWorkload
<1> HIDE DEF told, here
<1>5. \A k \in 1..Len(w.images) : IsList(told[k])
  <2>1. \A y : <<y>> \in Seq({y}) /\ <<>> \in Seq({y})
    OBVIOUS
  <2>2. \A y : IsList(<<y>>) /\ IsList(<<>>)
    BY <2>1, AList
  <2> QED BY <1>2, <2>2
<1>6. \A y : Holds(Seqs!FlattenSeq(told), y) <=> \E k \in 1..Len(w.images) : Holds(told[k], y)
  BY <1>1, <1>3, <1>5, FlattenedLists
<1>7. ASSUME NEW k \in 1..Len(w.images)
      PROVE  Holds(told[k], x) <=> Known(w.images[k]) /\ x = here(k)
  <2>1. \A y : ~Holds(<<>>, x) /\ (Holds(<<y>>, x) <=> x = y)
    BY DEF Holds
  <2>2. CASE Known(w.images[k])
    <3>1. told[k] = <<here(k)>>
      BY <1>2, <2>2
    <3> QED BY <2>1, <2>2, <3>1, Zenon
  <2>3. CASE ~Known(w.images[k])
    <3>1. told[k] = <<>>
      BY <1>2, <2>3
    <3> QED BY <2>1, <2>3, <3>1, Zenon
  <2> QED BY <2>2, <2>3
<1> QED BY <1>1, <1>4, <1>6, <1>7 DEF here

\* A workload that tells its repo is found, under its name, and rightly.
LEMMA FoundRight ==
  ASSUME NEW w, IsWorkload(w)
  PROVE  /\ \A x : Holds(DiscoverFromWorkload(w), x) => Tells(w) /\ RightFor(x, w)
         /\ Tells(w) => \E x : Holds(DiscoverFromWorkload(w), x)
<1>1. \A name, repo, registry :
        /\ Service(name, repo, registry).name = name /\ Service(name, repo, registry).repo = repo
        /\ Service(name, repo, registry).registry = registry
  BY DEF Service
<1>2. CASE w.repo # <<>>
  <2>1. PICK y : y = Service(NameFor(w), w.repo, <<>>)
    OBVIOUS
  <2>2. DiscoverFromWorkload(w) = <<y>>
    BY <1>2, <2>1 DEF DiscoverFromWorkload
  <2>3. \A x : Holds(<<y>>, x) <=> x = y
    BY DEF Holds
  <2>4. \A x : Holds(DiscoverFromWorkload(w), x) <=> x = y
    BY <2>2, <2>3, Zenon
  <2>5. y.name = NameFor(w) /\ y.repo = w.repo
    BY <1>1, <2>1
  <2>6. RightFor(y, w) /\ Tells(w)
    BY <1>2, <2>5 DEF RightFor, Tells
  <2> QED BY <2>4, <2>6
<1>3. CASE w.repo = <<>>
  <2>1. ASSUME NEW x, Holds(DiscoverFromWorkload(w), x)
        PROVE  Tells(w) /\ RightFor(x, w)
    <3>1. PICK k \in DOMAIN w.images :
            /\ Known(w.images[k])
            /\ x = Service(NameFor(w), InferRepoFromImage(Text(w.images[k])), Repository(w.images[k]))
      BY <1>3, <2>1, FoundByImage
    <3>2. IsImage(w.images[k])
      BY DEF IsWorkload
    <3>3. /\ x.name = NameFor(w) /\ x.registry = Repository(w.images[k])
          /\ x.repo = InferRepoFromImage(Text(w.images[k]))
      BY <1>1, <3>1
    <3>4. /\ [ParseRepo(x.repo) EXCEPT !.platform = None] =
               [err |-> FALSE, platform |-> None, owner |-> w.images[k].path[1], name |-> w.images[k].path[2]]
          /\ ParseRepo(x.repo).platform \in {"github", "gitlab"}
      BY <3>1, <3>2, <3>3, KnownImage, Zenon
    <3>5. Tells(w)
      BY <3>1 DEF Tells, Known
    <3>6. RightFor(x, w)
      BY <1>3, <3>3, <3>4, Zenon DEF RightFor
    <3> QED BY <3>5, <3>6
  <2>2. ASSUME Tells(w)
        PROVE  \E x : Holds(DiscoverFromWorkload(w), x)
    <3>1. PICK k \in DOMAIN w.images : Known(w.images[k])
      BY <1>3, <2>2 DEF Tells, Known
    <3> QED BY <1>3, <3>1, FoundByImage
  <2> QED BY <2>1, <2>2
<1> QED BY <1>2, <1>3

\* What is discovered is what runs: a service for each workload that tells its repo, under
\* its name, with the registry and the repo of the image or of the annotation
\* (discoverFromWorkload, ParseRepo).
THEOREM DiscoveredServicesAreRight == Spec => []DiscoveredIsRight
<1>1. cluster \in Clusters => DiscoveredIsRight
  <2> SUFFICES ASSUME cluster \in Clusters
               PROVE  DiscoveredIsRight
    OBVIOUS
  <2> DEFINE all   == AllOf(cluster)
             found == Discover(cluster)
             at(k) == DiscoverFromWorkload(all[k])
  <2>1. /\ \A x : Holds(found, x) => \E k \in DOMAIN all : Holds(at(k), x)
        /\ NamesIn(found) = UNION {NamesIn(at(k)) : k \in DOMAIN all}
    BY Discovering
  <2>2. \A k \in DOMAIN all : IsWorkload(all[k])
    BY ConfigAssumption
  <2>3. \A k \in DOMAIN all :
          /\ \A x : Holds(at(k), x) => Tells(all[k]) /\ RightFor(x, all[k])
          /\ Tells(all[k]) => \E x : Holds(at(k), x)
    BY <2>2, FoundRight
  <2>4. \A k \in DOMAIN all : all[k] \in Workloads
    BY DEF Workloads
  <2>5. \A w \in Workloads : \E k \in DOMAIN all : w = all[k]
    BY DEF Workloads
  <2>6. \A s, n : n \in NamesIn(s) <=> \E x : Holds(s, x) /\ x.name = n
    BY DEF NamesIn, Holds
  <2>7. \A i \in DOMAIN found : \E w \in Workloads : RightFor(found[i], w)
    <3>1. \A i \in DOMAIN found : Holds(found, found[i])
      BY DEF Holds
    <3> HIDE DEF found, all, at
    <3> QED BY <2>1, <2>3, <2>4, <3>1
  <2>8. NamesIn(found) = {NameFor(w) : w \in {w \in Workloads : Tells(w)}}
    <3> HIDE DEF found, all, at
    <3>1. \A x, w : RightFor(x, w) => x.name = NameFor(w)
      BY DEF RightFor
    <3>2. ASSUME NEW n \in NamesIn(found)
          PROVE  \E w \in Workloads : Tells(w) /\ n = NameFor(w)
      <4>1. PICK k \in DOMAIN all : n \in NamesIn(at(k))
        BY <2>1, <3>2
      <4>2. PICK x : Holds(at(k), x) /\ x.name = n
        BY <2>6, <4>1
      <4> QED BY <2>3, <2>4, <3>1, <4>2
    <3>3. ASSUME NEW w \in Workloads, Tells(w)
          PROVE  NameFor(w) \in NamesIn(found)
      <4>1. PICK k \in DOMAIN all : w = all[k]
        BY <2>5
      <4>2. PICK x : Holds(at(k), x)
        BY <2>3, <3>3, <4>1
      <4>3. x.name = NameFor(w)
        BY <2>3, <3>1, <4>1, <4>2
      <4>4. NameFor(w) \in NamesIn(at(k))
        BY <2>6, <4>2, <4>3
      <4> QED BY <2>1, <4>4
    <3> QED BY <3>2, <3>3
  <2> QED BY <2>7, <2>8 DEF DiscoveredIsRight
<1>2. KeepInv => cluster \in Clusters
  BY DEF KeepInv, FilesOK
<1> QED BY <1>1, <1>2, FilesInvariance, PTL
=============================================================================
