-------------------------- MODULE SharedConfigProofs ------------------------
(* Where all changes go through one mutex, the list of services is sound,   *)
(* for any number of requests and names.                                    *)
EXTENDS SharedConfig, FiniteSetTheorems, WellFoundedInduction, TLAPS

-----------------------------------------------------------------------------
(* The loop of deleteService.                                               *)

\* A set of natural numbers has a least element: the initial segments below its
\* members are finite sets, and those are well-founded.
LEMMA Least ==
  ASSUME NEW T \in SUBSET Nat, T # {}
  PROVE  \E m \in T : \A k \in T : m <= k
<1> DEFINE Upto == {1..n : n \in T}
<1>1. Upto \subseteq FiniteSubsetsOf(Nat) /\ Upto # {}
  <2>1. ASSUME NEW n \in T PROVE 1..n \in FiniteSubsetsOf(Nat)
    <3>1. IsFiniteSet(1..n)
      BY FS_Interval
    <3> QED BY <3>1 DEF FiniteSubsetsOf
  <2> QED BY <2>1
<1>2. IsWellFoundedOn(StrictSubsetOrdering(Nat), FiniteSubsetsOf(Nat))
  BY FS_StrictSubsetOrderingWellFounded
<1>3. \E x \in Upto : \A y \in Upto : <<y, x>> \notin StrictSubsetOrdering(Nat)
  <2> HIDE DEF Upto
  <2> QED BY <1>1, <1>2, WFMin
<1>4. PICK m \in T : \A y \in Upto : <<y, 1..m>> \notin StrictSubsetOrdering(Nat)
  BY <1>3
<1>5. ASSUME NEW k \in T, k < m PROVE FALSE
  <2>1. 1..k \subseteq 1..m /\ m \in 1..m /\ m \notin 1..k
    BY <1>5
  <2>2. <<1..k, 1..m>> \in StrictSubsetOrdering(Nat)
    BY <2>1 DEF StrictSubsetOrdering
  <2> QED BY <1>4, <2>2
<1> QED BY <1>5

\* What the loop computes after each of its first m steps.
IsKept(f, list, n, m) ==
  f = [i \in 0..m |-> IF i = 0 THEN <<>> ELSE
         IF list[i] = n THEN f[i - 1] ELSE Append(f[i - 1], list[i])]

\* The recursion defines a function.
LEMMA KeptExists ==
  ASSUME NEW list, NEW n, NEW m \in Nat
  PROVE  \E f : IsKept(f, list, n, m)
<1> DEFINE Is(f, k) == IsKept(f, list, n, k)
           Bad == {k \in Nat : ~\E f : Is(f, k)}
<1> USE DEF IsKept
<1> SUFFICES ASSUME Bad # {} PROVE FALSE
  OBVIOUS
<1>1. PICK k \in Bad : \A j \in Bad : k <= j
  <2> HIDE DEF Bad
  <2>1. Bad \in SUBSET Nat
    BY DEF Bad
  <2> QED BY <2>1, Least
<1>2. k # 0
  <2>1. Is([i \in 0..0 |-> <<>>], 0)
    OBVIOUS
  <2> QED BY <2>1, <1>1
<1>3. PICK f : Is(f, k - 1)
  <2>1. k \in Nat /\ k - 1 \in Nat /\ ~(k <= k - 1)
    BY <1>1, <1>2
  <2>2. k - 1 \notin Bad
    <3> HIDE DEF Bad
    <3> QED BY <1>1, <2>1
  <2> HIDE DEF Is
  <2> QED BY <2>1, <2>2
<1> DEFINE g == [i \in 0..k |-> IF i < k THEN f[i] ELSE
                   IF list[k] = n THEN f[k - 1] ELSE Append(f[k - 1], list[k])]
<1>4. Is(g, k)
  <2>1. k \in Nat /\ k > 0
    BY <1>1, <1>2
  <2>2. ASSUME NEW i \in 0..k
        PROVE  g[i] = IF i = 0 THEN <<>> ELSE
                        IF list[i] = n THEN g[i - 1] ELSE Append(g[i - 1], list[i])
    <3>1. CASE i = k
      <4>1. /\ g[k] = IF list[k] = n THEN f[k - 1] ELSE Append(f[k - 1], list[k])
            /\ g[k - 1] = f[k - 1]
        BY <2>1
      <4>2. i # 0 /\ g[i] = g[k] /\ g[i - 1] = g[k - 1] /\ list[i] = list[k]
        BY <2>1, <3>1
      <4> HIDE DEF g
      <4> QED BY <4>1, <4>2
    <3>2. CASE i < k
      <4>1. i \in 0..(k - 1) /\ g[i] = f[i] /\ (i > 0 => g[i - 1] = f[i - 1])
        BY <2>1, <3>2
      <4>2. f[i] = IF i = 0 THEN <<>> ELSE
                     IF list[i] = n THEN f[i - 1] ELSE Append(f[i - 1], list[i])
        BY <1>3, <4>1
      <4>3. i = 0 \/ i > 0
        OBVIOUS
      <4> HIDE DEF g
      <4> QED BY <4>1, <4>2, <4>3
    <3> QED BY <2>1, <3>1, <3>2
  <2> HIDE DEF g
  <2>3. g = [i \in 0..k |-> g[i]]
    BY DEF g
  <2> QED BY <2>2, <2>3
<1> QED BY <1>1, <1>4

\* What is left of a list without n is a list without n, and has no name twice if the
\* list had none.
LEMMA WithoutProperties ==
  ASSUME NEW S, NEW list \in Seq(S), NEW n
  PROVE  /\ Without(list, n) \in Seq(S)
         /\ \A j \in 1..Len(Without(list, n)) : Without(list, n)[j] # n
         /\ NoDup(list) => NoDup(Without(list, n))
<1> DEFINE Is(f) == IsKept(f, list, n, Len(list))
           kept == CHOOSE f : Is(f)
<1>0. Len(list) \in Nat
  OBVIOUS
<1>1. Is(kept) /\ Without(list, n) = kept[Len(list)]
  <2>1. \E f : Is(f)
    BY <1>0, KeptExists
  <2>2. Is(kept)
    <3> HIDE DEF Is
    <3> QED BY <2>1
  <2>3. Without(list, n) = kept[Len(list)]
    BY DEF Without, IsKept
  <2> QED BY <2>2, <2>3
<1> HIDE DEF kept
<1> DEFINE Good(i) ==
      /\ kept[i] \in Seq(S)
      /\ \A j \in 1..Len(kept[i]) :
           kept[i][j] # n /\ \E k \in 1..i : list[k] = kept[i][j]
      /\ NoDup(list) => NoDup(kept[i])
    Bad == {i \in 0..Len(list) : ~Good(i)}
<1>2. Bad = {}
  <2> SUFFICES ASSUME Bad # {} PROVE FALSE
    OBVIOUS
  <2>1. PICK i \in Bad : \A j \in Bad : i <= j
    <3> HIDE DEF Bad
    <3>1. Bad \in SUBSET Nat
      BY DEF Bad
    <3> QED BY <3>1, Least
  <2>2. CASE i = 0
    <3> HIDE DEF Good, Bad
    <3>0. 0 \in 0..Len(list)
      BY <1>0
    <3>1. kept[0] = <<>>
      BY <1>1, <3>0 DEF IsKept
    <3> USE DEF Good, Bad
    <3>2. Good(0)
      <4>1. <<>> \in Seq(S) /\ Len(<<>>) = 0 /\ 1..0 = {} /\ DOMAIN <<>> = {}
        OBVIOUS
      <4>2. NoDup(<<>>)
        BY <4>1 DEF NoDup
      <4> QED BY <3>1, <4>1, <4>2
    <3> QED BY <2>1, <2>2, <3>2
  <2>3. CASE i # 0
    <3>0. i \in 1..Len(list) /\ i - 1 \in 0..Len(list) /\ list[i] \in S
      BY <1>1, <2>1, <2>3
    <3>1. Good(i - 1)
      BY <2>1, <3>0
    <3>2. kept[i] = IF list[i] = n THEN kept[i - 1] ELSE Append(kept[i - 1], list[i])
      <4>1. i \in 0..Len(list) /\ i # 0
        BY <3>0, <1>0
      <4>2. \A j \in 0..Len(list) : kept[j] =
              IF j = 0 THEN <<>> ELSE
              IF list[j] = n THEN kept[j - 1] ELSE Append(kept[j - 1], list[j])
        BY <1>1 DEF IsKept
      <4> QED BY <4>1, <4>2
    <3>3. Good(i)
      <4>1. CASE list[i] = n
        <5>1. kept[i] = kept[i - 1] /\ 1..(i - 1) \subseteq 1..i
          BY <3>0, <3>2, <4>1
        <5> QED BY <3>1, <5>1
      <4>2. CASE list[i] # n
        <5> DEFINE old == kept[i - 1]
                   new == kept[i]
        <5>1. /\ old \in Seq(S) /\ new = Append(old, list[i])
              /\ \A j \in 1..Len(old) : old[j] # n /\ \E k \in 1..(i - 1) : list[k] = old[j]
              /\ NoDup(list) => NoDup(old)
          BY <3>1, <3>2, <4>2
        <5> HIDE DEF old, new
        <5>2. /\ new \in Seq(S) /\ Len(new) = Len(old) + 1 /\ Len(old) \in Nat
              /\ new[Len(old) + 1] = list[i]
              /\ \A j \in 1..Len(old) : new[j] = old[j]
          BY <3>0, <5>1
        <5>3. \A j \in 1..Len(new) : new[j] # n /\ \E k \in 1..i : list[k] = new[j]
          <6> SUFFICES ASSUME NEW j \in 1..Len(new)
                       PROVE  new[j] # n /\ \E k \in 1..i : list[k] = new[j]
            OBVIOUS
          <6>1. i \in 1..i /\ 1..(i - 1) \subseteq 1..i
            BY <3>0
          <6>2. j \in 1..Len(old) \/ j = Len(old) + 1
            BY <5>2
          <6>3. CASE j \in 1..Len(old)
            BY <5>1, <5>2, <6>1, <6>3
          <6>4. CASE j = Len(old) + 1
            BY <4>2, <5>2, <6>1, <6>4
          <6> QED BY <6>2, <6>3, <6>4
        <5>4. NoDup(list) => NoDup(new)
          <6> SUFFICES ASSUME NoDup(list) PROVE NoDup(new)
            OBVIOUS
          <6>1. \A j \in 1..Len(old) : old[j] # list[i]
            <7> SUFFICES ASSUME NEW j \in 1..Len(old) PROVE old[j] # list[i]
              OBVIOUS
            <7>1. PICK k \in 1..(i - 1) : list[k] = old[j]
              BY <5>1
            <7>2. k \in DOMAIN list /\ i \in DOMAIN list /\ k # i
              BY <3>0, <7>1
            <7> QED BY <7>1, <7>2 DEF NoDup
          <6>2. /\ DOMAIN new = 1..(Len(old) + 1) /\ DOMAIN old = 1..Len(old)
                /\ \A j, k \in DOMAIN old : old[j] = old[k] => j = k
            BY <5>1, <5>2 DEF NoDup
          <6> QED BY <5>2, <6>1, <6>2 DEF NoDup
        <5> QED BY <5>2, <5>3, <5>4 DEF new
      <4> QED BY <4>1, <4>2
    <3> QED BY <2>1, <3>3
  <2> QED BY <2>2, <2>3
<1>3. Good(Len(list))
  <2>1. Len(list) \in 0..Len(list) /\ Len(list) \notin Bad
    BY <1>0, <1>2
  <2> HIDE DEF Good
  <2> QED BY <2>1
<1> QED BY <1>1, <1>3

-----------------------------------------------------------------------------
(* The invariant.                                                           *)

\* No world has changes through both mutexes.
OneLock == \A w \in Worlds : ~({"api", "web"} \subseteq w)

Pcs  == {"idle", "append", "store", "copy", "size", "range"}
Said == {"none", "created", "deleted"}
Reqs == [pc : Pcs, door : AllDoors, answer : Said, name : MaybeName, size : Nat, list : Seq(Names)]

Changing == {"append", "store"}

\* A request in the state x that changes the list keeps all others out, one that copies
\* it keeps the changing ones out.
Excludes(r, x) ==
  /\ x.pc \in Changing => /\ x.door \in doors \cap {"api", "web"}
                          /\ \A q \in Requests \ {r} : req[q].pc \notin Changing \cup {"copy"}
  /\ x.pc = "copy" => /\ x.door = "api" /\ "api" \in doors
                      /\ \A q \in Requests \ {r} : req[q].pc \notin Changing

\* What it found when it took the mutex is still so.
UpToDate(x) ==
  /\ x.pc = "append" => x.name \in Names /\ ~Has(services, x.name)
  /\ x.pc = "store" =>
       /\ x.answer \in {"created", "deleted"} /\ x.name \in Names
       /\ x.answer = "created" => /\ ~Has(services, x.name)
                                  /\ x.list = Append(services, x.name)
       /\ x.answer = "deleted" => /\ Has(services, x.name)
                                  /\ x.list = Without(services, x.name)
  /\ x.pc = "copy" => x.size = Len(services)

RequestsOK == \A r \in Requests : Excludes(r, req[r]) /\ UpToDate(req[r])

ListInv == TypeOK /\ UniqueNames /\ ListingsAreCurrent /\ RequestsOK

AckOK == /\ ack \in [answer : {"none", "created", "exists", "deleted", "missing", "listed"},
                     name : MaybeName, list : Seq(MaybeName)]
         /\ ListingsAreCurrent

\* The fields of a request are set one by one.
LEMMA OneField ==
  /\ \A q \in Reqs, x \in Pcs : [q EXCEPT !.pc = x] \in Reqs
  /\ \A q \in Reqs, x \in AllDoors : [q EXCEPT !.door = x] \in Reqs
  /\ \A q \in Reqs, x \in Said : [q EXCEPT !.answer = x] \in Reqs
  /\ \A q \in Reqs, x \in MaybeName : [q EXCEPT !.name = x] \in Reqs
  /\ \A q \in Reqs, x \in Nat : [q EXCEPT !.size = x] \in Reqs
  /\ \A q \in Reqs, x \in Seq(Names) : [q EXCEPT !.list = x] \in Reqs
BY DEF Reqs

LEMMA Values ==
  /\ Idle \in Reqs
  /\ Pcs = {"idle", "append", "store", "copy", "size", "range"}
  /\ Said = {"none", "created", "deleted"}
  /\ {"api", "web", "mcp"} = AllDoors
  /\ Names \subseteq MaybeName /\ Blank \in MaybeName
BY DEF Idle, Reqs, Pcs, AllDoors, Said, MaybeName

\* A step of one request that does not change the list.
LEMMA RequestStep ==
  ASSUME ListInv, NEW r \in Requests, NEW x \in Reqs, Goes(r, x),
         Excludes(r, x), UpToDate(x), AckOK', panicked' \in BOOLEAN,
         UNCHANGED <<doors, services>>
  PROVE  ListInv'
<1>0. /\ req \in [Requests -> Reqs]
      /\ req'[r] = x /\ \A q \in Requests \ {r} : req'[q] = req[q]
  BY DEF Goes, ListInv, TypeOK, Reqs, Pcs, Said
<1>1. req' \in [Requests -> Reqs]
  BY <1>0 DEF Goes
<1>2. TypeOK' /\ UniqueNames' /\ ListingsAreCurrent'
  BY <1>1 DEF ListInv, TypeOK, UniqueNames, AckOK, Reqs, Pcs, Said
<1>3. ASSUME NEW q \in Requests
      PROVE  Excludes(q, req[q])' /\ UpToDate(req[q])'
  <2>1. Excludes(q, req[q]) /\ UpToDate(req[q])
    BY DEF ListInv, RequestsOK
  <2>2. CASE q = r
    BY <1>0, <2>2 DEF Excludes, UpToDate
  <2>3. CASE q # r
    <3>1. UpToDate(req[q])'
      BY <1>0, <2>1, <2>3 DEF UpToDate
    <3>2. Excludes(q, req[q])'
      BY <1>0, <2>1, <2>3 DEF Excludes, Changing
    <3> QED BY <3>1, <3>2
  <2> QED BY <2>2, <2>3
<1> QED BY <1>2, <1>3 DEF ListInv, RequestsOK

\* What every step starts from.
LEMMA Known ==
  ASSUME ListInv, NEW r \in Requests
  PROVE  /\ req[r] \in Reqs /\ services \in Seq(Names) /\ services \in Seq(MaybeName)
         /\ doors \in SUBSET AllDoors /\ panicked \in BOOLEAN
         /\ Excludes(r, req[r]) /\ UpToDate(req[r])
<1>1. services \in Seq(Names) /\ doors \in Worlds
  BY DEF ListInv, TypeOK
<1>2. services \in Seq(MaybeName)
  BY <1>1 DEF MaybeName
<1>3. doors \in SUBSET AllDoors
  BY <1>1, SharedConfigAssumption
<1> QED BY <1>1, <1>2, <1>3 DEF ListInv, TypeOK, RequestsOK, Reqs, Pcs, Said

\* Who finds the one mutex free finds no request that changes the list.
LEMMA MutexFree ==
  ASSUME ListInv, OneLock, NEW d \in doors \cap {"api", "web"}
  PROVE  /\ CanLock(d) => \A q \in Requests : req[q].pc \notin Changing \cup {"copy"}
         /\ CanRLock(d) => \A q \in Requests : req[q].pc \notin Changing
<1>1. doors \in Worlds
  BY DEF ListInv, TypeOK
<1>2. ASSUME NEW q \in Requests, req[q].pc \in Changing \cup {"copy"}
      PROVE  req[q].door = d
  <2>1. req[q].door \in doors \cap {"api", "web"}
    BY <1>2 DEF ListInv, RequestsOK, Excludes
  <2> QED BY <1>1, <2>1 DEF OneLock
<1> QED BY <1>2 DEF CanLock, CanRLock, Writing, Reading, Changing

\* A step that answers nothing, and one that only answers.
LEMMA SilentOK ==
  ASSUME Silent PROVE AckOK'
<1>1. Blank \in MaybeName /\ <<>> \in Seq(MaybeName)
  BY DEF MaybeName
<1> QED BY <1>1 DEF Silent, NoAck, AckOK, ListingsAreCurrent

LEMMA Unmoved ==
  ASSUME ListInv, UNCHANGED <<doors, services, req, panicked>>, NEW n \in MaybeName,
         NEW a \in {"exists", "missing"}, ack' = [answer |-> a, name |-> n, list |-> services],
         services \in Seq(MaybeName)
  PROVE  ListInv'
<1>1. TypeOK'
  BY DEF ListInv, TypeOK
<1>2. ListingsAreCurrent'
  BY DEF ListingsAreCurrent
<1>3. RequestsOK'
  BY DEF ListInv, RequestsOK, Excludes, UpToDate
<1> QED BY <1>1, <1>2, <1>3 DEF ListInv, UniqueNames

\* Adding and deleting, up to the step that stores the list.
LEMMA ScanSteps ==
  ASSUME ListInv, OneLock, UNCHANGED doors, NEW r \in Requests, NEW d \in doors, NEW n \in Names,
         AddScan(r, d, n) \/ DeleteScan(r, d, n)
  PROVE  ListInv'
<1>0. /\ services \in Seq(Names) /\ services \in Seq(MaybeName) /\ n \in MaybeName
      /\ d \in doors \cap {"api", "web"} /\ d \in AllDoors /\ panicked \in BOOLEAN
      /\ UNCHANGED <<services, panicked>>
      /\ \A q \in Requests : req[q].pc \notin Changing \cup {"copy"}
  BY Known, Values, MutexFree DEF AddScan, AddScanStep, DeleteScan, DeleteScanStep
<1>1. CASE AddScan(r, d, n) /\ Has(services, n)
  <2>1. req' = req /\ ack' = [answer |-> "exists", name |-> n, list |-> services]
    BY <1>1 DEF AddScan, AddScanStep, Answers
  <2> QED BY <1>0, <2>1, Unmoved
<1>2. CASE AddScan(r, d, n) /\ ~Has(services, n)
  <2> DEFINE x == [Idle EXCEPT !.pc = "append", !.door = d, !.name = n]
  <2>1. Goes(r, x) /\ Silent
    BY <1>2 DEF AddScan, AddScanStep
  <2>2. /\ x \in Reqs
        /\ x.pc = "append" /\ x.door = d /\ x.name = n
    BY <1>0, Values, OneField DEF Idle
  <2> HIDE DEF x
  <2>3. Excludes(r, x) /\ UpToDate(x)
    BY <1>0, <1>2, <2>2 DEF Excludes, UpToDate, Changing
  <2> QED BY <1>0, <2>1, <2>2, <2>3, RequestStep, SilentOK
<1>3. CASE DeleteScan(r, d, n) /\ ~Has(services, n)
  <2>1. req' = req /\ ack' = [answer |-> "missing", name |-> n, list |-> services]
    BY <1>3 DEF DeleteScan, DeleteScanStep, Answers
  <2> QED BY <1>0, <2>1, Unmoved
<1>4. CASE DeleteScan(r, d, n) /\ Has(services, n)
  <2> DEFINE left == Without(services, n)
             x == [Idle EXCEPT !.pc = "store", !.door = d, !.name = n,
                               !.answer = "deleted", !.list = left]
  <2>1. Goes(r, x) /\ Silent
    BY <1>4 DEF DeleteScan, DeleteScanStep
  <2>2. left \in Seq(Names)
    BY <1>0, WithoutProperties
  <2>3. left = Without(services, n)
    OBVIOUS
  <2> HIDE DEF left
  <2>4. /\ x \in Reqs
        /\ x.pc = "store" /\ x.door = d /\ x.name = n /\ x.answer = "deleted" /\ x.list = left
    BY <1>0, <2>2, Values, OneField DEF Idle
  <2> HIDE DEF x
  <2>5. Excludes(r, x) /\ UpToDate(x)
    BY <1>0, <1>4, <2>3, <2>4 DEF Excludes, UpToDate, Changing
  <2> QED BY <1>0, <2>1, <2>4, <2>5, RequestStep, SilentOK
<1> QED BY <1>1, <1>2, <1>3, <1>4

LEMMA AppendStep ==
  ASSUME ListInv, UNCHANGED doors, NEW r \in Requests, AddAppend(r)
  PROVE  ListInv'
<1> DEFINE new == Append(services, req[r].name)
           x   == [req[r] EXCEPT !.pc = "store", !.answer = "created", !.list = new]
<1>1. /\ Goes(r, x) /\ Silent /\ UNCHANGED <<services, panicked>> /\ req[r].pc = "append"
  BY DEF AddAppend
<1>2. /\ req[r] \in Reqs /\ Excludes(r, req[r]) /\ panicked \in BOOLEAN
      /\ req[r].name \in Names /\ ~Has(services, req[r].name) /\ services \in Seq(Names)
  BY <1>1, Known DEF UpToDate
<1>3. new \in Seq(Names) /\ new = Append(services, req[r].name)
  BY <1>2
<1> HIDE DEF new
<1>4. /\ x \in Reqs
      /\ x.pc = "store" /\ x.answer = "created" /\ x.list = new
      /\ x.door = req[r].door /\ x.name = req[r].name
  <2>1. "store" \in Pcs /\ "created" \in Said
    BY Values
  <2>2. x \in Reqs
    BY <1>2, <1>3, <2>1, OneField
  <2> QED BY <1>2, <2>2 DEF Reqs
<1> HIDE DEF x
<1>5. Excludes(r, x) /\ UpToDate(x)
  BY <1>1, <1>2, <1>3, <1>4 DEF Excludes, UpToDate, Changing
<1> QED BY <1>1, <1>2, <1>4, <1>5, RequestStep, SilentOK

\* What is stored is the list of the moment with the change that is acknowledged.
LEMMA StoreIsExact ==
  ASSUME ListInv, NEW r \in Requests, Store(r)
  PROVE  /\ req[r].pc = "store" /\ req[r].name \in Names
         /\ \/ /\ ack'.answer = "created" /\ ~Has(services, ack'.name)
               /\ services' = Append(services, ack'.name)
            \/ /\ ack'.answer = "deleted" /\ Has(services, ack'.name)
               /\ services' = Without(services, ack'.name)
         /\ ack' = [answer |-> req[r].answer, name |-> req[r].name, list |-> services']
  BY Known DEF Store, UpToDate, Answers

LEMMA StoreStep ==
  ASSUME ListInv, UNCHANGED doors, NEW r \in Requests, Store(r)
  PROVE  ListInv'
<1>1. /\ services \in Seq(Names) /\ NoDup(services)
      /\ req[r] \in Reqs /\ Excludes(r, req[r]) /\ panicked \in BOOLEAN
      /\ panicked' = panicked /\ req[r].pc = "store"
  BY Known DEF Store, ListInv, UniqueNames
<1>2. services' \in Seq(Names) /\ NoDup(services')
  <2>1. CASE \E n \in Names : ~Has(services, n) /\ services' = Append(services, n)
    <3>1. PICK n \in Names : ~Has(services, n) /\ services' = Append(services, n)
      BY <2>1
    <3>2. /\ services' \in Seq(Names) /\ Len(services') = Len(services) + 1
          /\ Len(services) \in Nat /\ DOMAIN services = 1..Len(services)
          /\ DOMAIN services' = 1..Len(services')
          /\ services'[Len(services) + 1] = n
          /\ \A i \in 1..Len(services) : services'[i] = services[i] /\ services[i] # n
      BY <1>1, <3>1 DEF Has
    <3> QED BY <1>1, <3>2 DEF NoDup
  <2>2. CASE \E n \in Names : services' = Without(services, n)
    BY <1>1, <2>2, WithoutProperties
  <2> QED BY <2>1, <2>2, StoreIsExact
<1>3. /\ ack' \in [answer : {"created", "deleted"}, name : Names, list : {services'}]
  BY StoreIsExact
<1>4. PICK x \in Reqs : Goes(r, x) /\ x.pc \in {"idle", "size"}
  <2>1. [Idle EXCEPT !.pc = "size", !.door = "web"] \in Reqs
    BY Values, OneField
  <2> QED BY <2>1, Values DEF Store, Idle
<1>5. /\ req' \in [Requests -> Reqs]
      /\ \A q \in Requests : req'[q].pc \notin Changing \cup {"copy"}
  <2>1. req \in [Requests -> Reqs]
    BY DEF ListInv, TypeOK, Reqs, Pcs, Said
  <2>2. \A q \in Requests \ {r} : req[q].pc \notin Changing \cup {"copy"}
    BY <1>1 DEF Excludes, Changing
  <2> QED BY <1>4, <2>1, <2>2 DEF Goes, Changing
<1>6. RequestsOK'
  BY <1>5 DEF RequestsOK, Excludes, UpToDate, Changing
<1>7. AckOK'
  <2>1. services' \in Seq(MaybeName)
    BY <1>2 DEF MaybeName
  <2> QED BY <1>3, <2>1 DEF AckOK, ListingsAreCurrent, MaybeName
<1> QED BY <1>1, <1>2, <1>5, <1>6, <1>7
        DEF ListInv, TypeOK, UniqueNames, AckOK, Reqs, Pcs, Said

\* The readers: listServices under the read lock, the others under none.
LEMMA ReadSteps ==
  ASSUME ListInv, OneLock, UNCHANGED doors, NEW r \in Requests,
         \/ "api" \in doors /\ ListSize(r)
         \/ ListCopy(r) \/ ReadRange(r)
         \/ \E d \in doors : ReadSize(r, d)
  PROVE  ListInv'
<1>0. /\ services \in Seq(Names) /\ services \in Seq(MaybeName) /\ Len(services) \in Nat
      /\ req[r] \in Reqs /\ Excludes(r, req[r]) /\ UpToDate(req[r])
      /\ doors \in SUBSET AllDoors /\ panicked \in BOOLEAN
  BY Known
<1>1. CASE "api" \in doors /\ ListSize(r)
  <2> DEFINE size == Len(services)
             x == [Idle EXCEPT !.pc = "copy", !.size = size]
  <2>1. /\ Goes(r, x) /\ Silent /\ UNCHANGED <<services, panicked>>
        /\ \A q \in Requests : req[q].pc \notin Changing
    BY <1>1, MutexFree DEF ListSize
  <2>2. size \in Nat /\ size = Len(services)
    BY <1>0
  <2> HIDE DEF size
  <2>3. x \in Reqs /\ x.pc = "copy" /\ x.size = size /\ x.door = "api"
    BY <2>2, Values, OneField DEF Idle
  <2> HIDE DEF x
  <2>4. Excludes(r, x) /\ UpToDate(x)
    BY <1>1, <2>1, <2>2, <2>3 DEF Excludes, UpToDate, Changing
  <2> QED BY <1>0, <2>1, <2>3, <2>4, RequestStep, SilentOK
<1>2. CASE ListCopy(r)
  <2>1. /\ Goes(r, Idle) /\ UNCHANGED <<services, panicked>>
        /\ ack' = [answer |-> "listed", name |-> Blank, list |-> Fitted(services, Len(services))]
    BY <1>0, <1>2 DEF ListCopy, Answers, UpToDate
  <2>2. Fitted(services, Len(services)) = services
    BY <1>0 DEF Fitted
  <2>3. AckOK'
    BY <1>0, <2>1, <2>2, Values DEF AckOK, ListingsAreCurrent
  <2>4. Idle \in Reqs /\ Excludes(r, Idle) /\ UpToDate(Idle)
    BY Values DEF Idle, Excludes, UpToDate, Changing
  <2> QED BY <1>0, <2>1, <2>3, <2>4, RequestStep
<1>3. ASSUME NEW d \in doors, ReadSize(r, d)
      PROVE  ListInv'
  <2> DEFINE size == Len(services)
             x == [Idle EXCEPT !.pc = "range", !.door = d, !.size = size]
  <2>1. Goes(r, x) /\ Silent /\ UNCHANGED <<services, panicked>>
    BY <1>3 DEF ReadSize
  <2>2. size \in Nat /\ d \in AllDoors
    BY <1>0
  <2> HIDE DEF size
  <2>3. x \in Reqs /\ x.pc = "range"
    BY <2>2, Values, OneField DEF Idle
  <2> HIDE DEF x
  <2>4. Excludes(r, x) /\ UpToDate(x)
    BY <2>3 DEF Excludes, UpToDate, Changing
  <2> QED BY <1>0, <2>1, <2>3, <2>4, RequestStep, SilentOK
<1>4. CASE ReadRange(r)
  <2>1. Goes(r, Idle) /\ Silent /\ UNCHANGED services /\ panicked' \in BOOLEAN
    BY <1>4 DEF ReadRange
  <2>2. Idle \in Reqs /\ Excludes(r, Idle) /\ UpToDate(Idle)
    BY Values DEF Idle, Excludes, UpToDate, Changing
  <2> QED BY <2>1, <2>2, RequestStep, SilentOK
<1> QED BY <1>1, <1>2, <1>3, <1>4

-----------------------------------------------------------------------------
LEMMA ListInit == Init => ListInv
<1> SUFFICES ASSUME Init PROVE ListInv
  OBVIOUS
<1>1. /\ services \in Seq(Names) /\ NoDup(services) /\ doors \in Worlds
      /\ \A r \in Requests : req[r] = Idle
      /\ req \in [Requests -> Reqs]
  BY SharedConfigAssumption, Values DEF Init
<1>2. ack \in [answer : {"none"}, name : {Blank}, list : Seq(MaybeName)] /\ ack.answer # "listed"
  BY DEF Init, NoAck
<1>3. TypeOK
  BY <1>1, <1>2, Values DEF Init, TypeOK, Reqs, Pcs, Said
<1>4. RequestsOK
  <2>1. Idle.pc = "idle"
    BY DEF Idle
  <2>2. \A r \in Requests : req[r].pc = "idle"
    BY <1>1, <2>1
  <2> QED BY <2>2 DEF RequestsOK, Excludes, UpToDate, Changing
<1> QED BY <1>1, <1>2, <1>3, <1>4 DEF ListInv, UniqueNames, ListingsAreCurrent

LEMMA ListStep ==
  ASSUME OneLock, ListInv, [Next]_vars
  PROVE  ListInv'
<1>1. CASE Next
  <2>1. doors' = doors
    BY <1>1 DEF Next
  <2> QED BY <1>1, <2>1, ScanSteps, AppendStep, StoreStep, ReadSteps DEF Next
<1>2. CASE UNCHANGED vars
  BY <1>2 DEF vars, ListInv, TypeOK, UniqueNames, ListingsAreCurrent, RequestsOK, Excludes, UpToDate
<1> QED BY <1>1, <1>2

\* With one mutex, what a request found when it took the mutex is so until it lets it go
\* (addService, deleteService, listServices).
THEOREM ListInvariance ==
  ASSUME OneLock PROVE Spec => []ListInv
<1>1. ListInv /\ [Next]_vars => ListInv'
  BY ListStep
<1> QED BY <1>1, ListInit, PTL DEF Spec

\* Every state is one the type invariant describes.
THEOREM ListTypeCorrect ==
  ASSUME OneLock PROVE Spec => []TypeOK
<1>1. ListInv => TypeOK
  BY DEF ListInv
<1> QED BY <1>1, ListInvariance, PTL

\* No two services ever have one name (addService looks before it appends).
THEOREM NamesStayUnique ==
  ASSUME OneLock PROVE Spec => []UniqueNames
<1>1. ListInv => UniqueNames
  BY DEF ListInv
<1> QED BY <1>1, ListInvariance, PTL

\* What the API lists is the list of the moment (listServices: snapshot under RLock).
THEOREM ListingsStayCurrent ==
  ASSUME OneLock PROVE Spec => []ListingsAreCurrent
<1>1. ListInv => ListingsAreCurrent
  BY DEF ListInv
<1> QED BY <1>1, ListInvariance, PTL

\* Only a store acknowledges a change.
LEMMA OtherAcks ==
  ASSUME ListInv, [Next]_vars, ack'.answer \in {"created", "deleted"}
  PROVE  (\E r \in Requests : Store(r)) \/ UNCHANGED vars
<1>1. CASE UNCHANGED vars
  BY <1>1
<1>2. CASE Next
  <2> SUFFICES ASSUME NEW r \in Requests, ~Store(r),
                      \/ \E d \in doors, n \in Names : AddScan(r, d, n) \/ DeleteScan(r, d, n)
                      \/ AddAppend(r) \/ ListSize(r) \/ ListCopy(r) \/ ReadRange(r)
                      \/ \E d \in doors : ReadSize(r, d)
               PROVE  FALSE
    BY <1>2 DEF Next
  <2>1. ack'.answer \in {"none", "exists", "missing", "listed"}
    <3>1. Silent => ack'.answer = "none"
      BY DEF Silent, NoAck
    <3>2. \A a, n, list : Answers(a, n, list) => ack'.answer = a
      BY DEF Answers
    <3> QED BY <3>1, <3>2 DEF AddScan, AddScanStep, DeleteScan, DeleteScanStep, AddAppend,
                              ListSize, ListCopy, ReadRange, ReadSize
  <2> QED BY <2>1
<1> QED BY <1>1, <1>2

\* No change that was acknowledged is lost to, or undone by, a concurrent one: it took
\* effect on the list of that moment and on nothing else.
THEOREM ChangesTakeEffect ==
  ASSUME OneLock PROVE Spec => AcknowledgedInFull
<1>1. ASSUME ListInv, [Next]_vars
      PROVE  [/\ ack'.answer = "created" => services' = Append(services, ack'.name)
              /\ ack'.answer = "deleted" => /\ Has(services, ack'.name)
                                            /\ services' = Without(services, ack'.name)]_vars
  BY <1>1, OtherAcks, StoreIsExact
<1> QED BY <1>1, ListInvariance, PTL DEF Spec, AcknowledgedInFull
=============================================================================
