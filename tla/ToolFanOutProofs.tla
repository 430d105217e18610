-------------------------- MODULE ToolFanOutProofs --------------------------
(* What the tools reply, for any number of services and whichever requests  *)
(* fail: every service is answered for, nothing is lost or doubled, and the *)
(* reply is in the order the tool promises; what the tools that compare two *)
(* versions say of them.                                                    *)
EXTENDS ReleaseDiff, FiniteSetTheorems, TLAPS

-----------------------------------------------------------------------------
(* Sequences.                                                               *)

IsSequence(s) == s \in Seq({s[k] : k \in DOMAIN s})

LEMMA SeqIsSequence ==
  ASSUME NEW S, NEW s \in Seq(S)
  PROVE  IsSequence(s) /\ Len(s) \in Nat /\ DOMAIN s = 1..Len(s)
BY DEF IsSequence

\* A slice with more appended: what was there is where it was, the rest follows.
LEMMA Joined ==
  ASSUME NEW s, NEW t, IsSequence(s), IsSequence(t)
  PROVE  /\ IsSequence(s \o t)
         /\ Len(s) \in Nat /\ Len(t) \in Nat /\ DOMAIN s = 1..Len(s) /\ DOMAIN t = 1..Len(t)
         /\ Len(s \o t) = Len(s) + Len(t) /\ DOMAIN (s \o t) = 1..(Len(s) + Len(t))
         /\ \A k \in 1..Len(s) : (s \o t)[k] = s[k]
         /\ \A k \in 1..Len(t) : (s \o t)[Len(s) + k] = t[k]
         /\ \A k \in DOMAIN (s \o t) :
              k \in 1..Len(s) \/ \E l \in 1..Len(t) : k = Len(s) + l
<1> DEFINE S == {s[k] : k \in DOMAIN s} \cup {t[k] : k \in DOMAIN t}
<1>1. s \in Seq(S) /\ t \in Seq(S)
  BY DEF IsSequence
<1> HIDE DEF S
<1>2. s \o t \in Seq(S)
  BY <1>1
<1>3. IsSequence(s \o t)
  BY <1>2, SeqIsSequence
<1>4. /\ Len(s) \in Nat /\ Len(t) \in Nat /\ DOMAIN s = 1..Len(s) /\ DOMAIN t = 1..Len(t)
      /\ Len(s \o t) = Len(s) + Len(t) /\ DOMAIN (s \o t) = 1..(Len(s) + Len(t))
      /\ \A k \in 1..Len(s) : (s \o t)[k] = s[k]
      /\ \A k \in 1..Len(t) : (s \o t)[Len(s) + k] = t[k]
  BY <1>1, <1>2
<1>5. ASSUME NEW k \in 1..(Len(s) + Len(t)), k \notin 1..Len(s)
      PROVE  \E l \in 1..Len(t) : k = Len(s) + l
  <2>1. k - Len(s) \in 1..Len(t) /\ k = Len(s) + (k - Len(s))
    BY <1>4, <1>5
  <2> QED BY <2>1
<1> QED BY <1>3, <1>4, <1>5

LEMMA JoinedPlaces ==
  ASSUME NEW s, NEW t, IsSequence(s), IsSequence(t), NEW k \in DOMAIN (s \o t)
  PROVE  k \in 1..Len(s) \/ \E l \in 1..Len(t) : k = Len(s) + l
BY Joined

LEMMA JoinedOne ==
  ASSUME NEW s, NEW x, IsSequence(s)
  PROVE  /\ IsSequence(s \o <<x>>)
         /\ Len(s) \in Nat /\ DOMAIN s = 1..Len(s)
         /\ Len(s \o <<x>>) = Len(s) + 1 /\ DOMAIN (s \o <<x>>) = 1..(Len(s) + 1)
         /\ \A k \in 1..Len(s) : (s \o <<x>>)[k] = s[k]
         /\ (s \o <<x>>)[Len(s) + 1] = x
<1>1. <<x>> \in Seq({x}) /\ Len(<<x>>) = 1 /\ <<x>>[1] = x
  OBVIOUS
<1>2. IsSequence(<<x>>)
  BY <1>1, SeqIsSequence
<1> HIDE DEF IsSequence
<1> QED BY <1>1, <1>2, Joined

LEMMA JoinedNone ==
  ASSUME NEW s, IsSequence(s)
  PROVE  s \o <<>> = s
BY DEF IsSequence

\* What sort.Slice leaves is the slice, each entry once, in another order.
LEMMA Permuted ==
  ASSUME NEW s, IsSequence(s), NEW p \in Bijection(DOMAIN s, DOMAIN s)
  PROVE  /\ p \in [DOMAIN s -> DOMAIN s]
         /\ \A l \in DOMAIN s : \E k \in DOMAIN s : p[k] = l
         /\ \A k, l \in DOMAIN s : p[k] = p[l] => k = l
BY DEF Bijection, Injection, Surjection, IsInjective

-----------------------------------------------------------------------------
(* The inductive invariant: what a goroutine that has come so far has left  *)
(* behind, for each of the ways in which the tools collect.                 *)

OnServices(f) == f = [i \in Services |-> f[i]]

Framed ==
  /\ \E c \in Cases : tool = c.tool /\ svc = c.svc
  /\ cluster \in BOOLEAN
  /\ phase \in {"begin", "fan", "pairs", "replied"}
  /\ pc \in [Services -> {"ask", "answer", "done"}]
  /\ file \in [Services -> Nat]
  /\ OnServices(got)

NoFile == "no dependency file found"
Rows(i) == IF tool \in ListTools THEN svc[i].list ELSE svc[i].rows
Learnt(i) == got[i].err = ""

\* What was answered without an error is what the provider has.
Answered ==
  \A i \in Services :
    /\ pc[i] = "ask" => ~Learnt(i)
    /\ Learnt(i) /\ tool \in SlotTools \ {"service_graph"} => got[i].val = svc[i].latest
    /\ Learnt(i) /\ tool \in ListTools => got[i].val = svc[i].list

SlotRight(i, entry) ==
  /\ entry.name = Names[i] /\ entry.err = got[i].err
  /\ tool # "service_graph" => entry.latest = IF Learnt(i) THEN svc[i].latest.tag ELSE None
  /\ tool = "upgrade_plan" => /\ entry.priority \in {"", "critical", "high", "medium", "low"}
                              /\ entry.date \in Nat

SlotsRight ==
  tool \in SlotTools => /\ OnServices(results)
                        /\ \A i \in Services : pc[i] = "done" => SlotRight(i, results[i])

InMatrix(i) == pc[i] = "done" /\ got[i].err # NoFile

\* One line for each service that has a file, or that could not be asked.
MatrixRight ==
  tool = "dependency_matrix" =>
    /\ IsSequence(results)
    /\ \A k \in DOMAIN results : \E i \in Services : InMatrix(i) /\ results[k].name = Names[i]
    /\ \A i \in Services : InMatrix(i) => \E k \in DOMAIN results : results[k].name = Names[i]
    /\ \A k, l \in DOMAIN results : results[k].name = results[l].name => k = l

\* The nth release, or row, of a service, as it is appended.
Line(i, n) == [name |-> Names[i], nth |-> n, date |-> Rows(i)[n]]

\* What a service has appended: its releases up to the one it is past.
RecentLines ==
  /\ IsSequence(results)
  /\ \A k \in DOMAIN results : \E i \in Services : \E n \in 1..file[i] : results[k] = Line(i, n)
  /\ \A i \in Services : \A n \in 1..file[i] : \E k \in DOMAIN results : results[k] = Line(i, n)
  /\ \A k, l \in DOMAIN results : results[k] = results[l] => k = l

\* They are recent, and a service is done when the next one is not.
PastRecent(i) ==
  /\ file[i] # 0 => Learnt(i)
  /\ file[i] <= Len(svc[i].list)
  /\ \A n \in 1..file[i] : svc[i].list[n] >= Cutoff
  /\ pc[i] = "done" /\ Learnt(i) =>
       file[i] = Len(svc[i].list) \/ svc[i].list[file[i] + 1] < Cutoff

RecentRight ==
  tool \in ListTools => RecentLines /\ \A i \in Services : PastRecent(i)

\* Service after service, each from the row recorded last down.
HistoryRight ==
  tool = "api_timeline" =>
    /\ IsSequence(results)
    /\ \A i \in Services : pc[i] # "answer"
    /\ \A i, j \in Services : pc[i] = "done" /\ j < i => pc[j] = "done"
    /\ \A k \in DOMAIN results : \E i \in Services : \E n \in Due(i) :
         Learnt(i) /\ results[k] = Line(i, n)
    /\ \A i \in Services : Learnt(i) =>
         \A n \in Due(i) : \E k \in DOMAIN results : results[k] = Line(i, n)
    /\ \A k, l \in DOMAIN results : \A i, j \in Services : \A m \in Due(i), n \in Due(j) :
         k < l /\ results[k] = Line(i, m) /\ results[l] = Line(j, n) => (i < j \/ (i = j /\ m > n))

PlainTools == {"check_services", "find_outdated", "list_services", "check",
               "compare_release_vs_deployed", "api_timeline"}

SortTools == {"upgrade_plan", "dependency_matrix"} \cup ListTools

\* One slice is the other in a different order.
Reordered(t, s) == \E p \in Bijection(DOMAIN s, DOMAIN s) : t = [k \in DOMAIN s |-> s[p[k]]]

\* The comparison of the tool.
Before(e, f) == \/ tool = "upgrade_plan" /\ MoreUrgent(e, f)
                \/ tool = "dependency_matrix" /\ NameBefore(e, f)
                \/ tool = "release_timeline" /\ NewerPrinted(e, f)
                \/ tool = "timeline" /\ Newer(e, f)

\* The entries that the page shows with an error.
Bad == {i \in DOMAIN results : results[i].err # ""}

\* Nothing comes after the reply, which is what was collected, sorted or counted.
ReplyRight ==
  /\ phase = "pairs" => tool = "service_graph" /\ \A i \in Services : pc[i] = "done"
  /\ phase = "replied" /\ ~Refused =>
       /\ \A i \in Services : pc[i] = "done"
       /\ tool \in PlainTools => out = results
       /\ tool = "dashboard" =>
            /\ out.list = results
            /\ out.healthy = N - Cardinality(Bad) /\ out.errors = Cardinality(Bad)
       /\ tool \in SortTools =>
            /\ Reordered(out, results)
            /\ \A k, l \in DOMAIN out : k < l => ~Before(out[l], out[k])

FanInv == /\ Framed /\ Answered /\ SlotsRight /\ MatrixRight /\ RecentRight
          /\ HistoryRight /\ ReplyRight

-----------------------------------------------------------------------------
LEMMA ServiceFacts ==
  /\ Services = 1..N /\ N \in Nat /\ IsFiniteSet(Services) /\ Cardinality(Services) = N
  /\ \A i \in Services : Names[i] \in Nat
  /\ \A i, j \in Services : Names[i] = Names[j] => i = j
<1>1. Services = 1..N /\ N \in Nat
  BY ToolFanOutAssumption DEF Services, N
<1>2. IsFiniteSet(Services) /\ Cardinality(Services) = N
  BY <1>1, FS_Interval
<1>3. \A i \in Services : Names[i] \in Nat
  BY ToolFanOutAssumption DEF Services
<1> QED BY <1>1, <1>2, <1>3, ToolFanOutAssumption

LEMMA WorldFacts ==
  ASSUME Framed, NEW i \in Services
  PROVE  /\ svc[i].latest.date \in Nat
         /\ svc[i].list \in Seq(Nat) /\ Len(svc[i].list) \in Nat
         /\ svc[i].rows \in Seq(Nat) /\ Len(svc[i].rows) \in Nat
<1>1. /\ svc[i].latest.date \in Nat
      /\ svc[i].list \in Seq(Nat) /\ svc[i].rows \in Seq(Nat)
  BY ToolFanOutAssumption DEF Framed
<1> QED BY <1>1

LEMMA NewestFirst ==
  ASSUME Framed, NEW i \in Services
  PROVE  \A k, l \in DOMAIN svc[i].list : k < l => svc[i].list[k] >= svc[i].list[l]
BY ToolFanOutAssumption DEF Framed

LEMMA ToolKinds ==
  /\ tool \in SlotTools => tool \notin ListTools \cup {"dependency_matrix", "api_timeline"}
  /\ tool \in ListTools => tool \notin SlotTools \cup FileTools \cup {"api_timeline"}
  /\ tool \in FileTools => tool \notin ListTools \cup {"api_timeline"} \cup (SlotTools \ {"service_graph"})
  /\ tool = "dependency_matrix" => tool \notin SlotTools \cup ListTools
  /\ tool = "api_timeline" => tool \notin SlotTools \cup ListTools \cup FileTools
BY DEF SlotTools, ListTools, FileTools

LEMMA FanInit == DInit => FanInv
<1> SUFFICES ASSUME DInit PROVE FanInv
  OBVIOUS
<1>1. Init
  BY DEF DInit
<1>2. Framed
  BY <1>1 DEF Init, Framed, OnServices, Unasked
<1>3. Answered /\ \A i \in Services : ~Learnt(i) /\ pc[i] = "ask" /\ file[i] = 0
  BY <1>1 DEF Init, Answered, Learnt, Unasked
<1>4. SlotsRight
  BY <1>1, <1>3 DEF Init, SlotsRight, OnServices
<1>5. tool \notin SlotTools => results = <<>> /\ IsSequence(results) /\ DOMAIN results = {}
  <2>1. <<>> \in Seq({}) /\ DOMAIN <<>> = {}
    OBVIOUS
  <2>2. IsSequence(<<>>)
    BY <2>1, SeqIsSequence
  <2> QED BY <1>1, <2>1, <2>2 DEF Init
<1>6. MatrixRight
  BY <1>3, <1>5, ToolKinds DEF MatrixRight, InMatrix
<1>7. RecentRight
  <2> SUFFICES ASSUME tool \in ListTools PROVE RecentRight
    BY DEF RecentRight
  <2>1. \A i \in Services : Len(svc[i].list) \in Nat
    BY <1>2, WorldFacts
  <2> QED BY <1>3, <1>5, <2>1, ToolKinds DEF RecentRight, RecentLines, PastRecent
<1>8. HistoryRight
  BY <1>3, <1>5, ToolKinds DEF HistoryRight
<1>9. ReplyRight
  BY <1>1 DEF Init, ReplyRight
<1> QED BY <1>2, <1>3, <1>4, <1>6, <1>7, <1>8, <1>9 DEF FanInv

\* What is collected stays as it is until the next goroutine takes a step.
LEMMA NothingCollected ==
  ASSUME FanInv, UNCHANGED <<tool, svc, cluster, pc, file, got, results>>,
         phase' \in {"begin", "fan", "pairs", "replied"}
  PROVE  Framed' /\ Answered' /\ SlotsRight' /\ MatrixRight' /\ RecentRight' /\ HistoryRight'
<1>1. Framed'
  BY DEF FanInv, Framed, OnServices
<1>2. Answered'
  BY DEF FanInv, Answered, Learnt
<1>3. SlotsRight'
  BY DEF FanInv, SlotsRight, SlotRight, OnServices, Learnt
<1>4. MatrixRight'
  BY DEF FanInv, MatrixRight, InMatrix, IsSequence
<1>5. /\ IsSequence(results)' = IsSequence(results)
      /\ \A i \in Services : \A n : Line(i, n)' = Line(i, n)
      /\ \A i \in Services : Learnt(i)' = Learnt(i) /\ Due(i)' = Due(i)
  BY DEF IsSequence, Line, Rows, Learnt, Due
<1>6. RecentRight'
  BY <1>5 DEF FanInv, RecentRight, RecentLines, PastRecent
<1>7. HistoryRight'
  BY <1>5 DEF FanInv, HistoryRight
<1> QED BY <1>1, <1>2, <1>3, <1>4, <1>6, <1>7

LEMMA BeginStep ==
  ASSUME FanInv, Begin
  PROVE  FanInv'
<1>1. /\ UNCHANGED <<tool, svc, cluster, pc, file, got, results>>
      /\ phase' = "fan" \/ (phase' = "replied" /\ Refused')
  BY DEF Begin, Refused
<1>2. phase' \in {"begin", "fan", "pairs", "replied"}
  BY <1>1
<1>3. ReplyRight'
  BY <1>1 DEF ReplyRight
<1> QED BY <1>1, <1>2, <1>3, NothingCollected DEF FanInv

LEMMA SameLines ==
  ASSUME RecentLines, UNCHANGED <<tool, svc, file, results>>
  PROVE  RecentLines'
<1>1. /\ IsSequence(results)' = IsSequence(results)
      /\ \A i \in Services : \A n : Line(i, n)' = Line(i, n)
  BY DEF IsSequence, Line, Rows
<1> QED BY <1>1 DEF RecentLines

\* The matrix stands while no service comes to it and none leaves.
LEMMA SameMatrix ==
  ASSUME MatrixRight, UNCHANGED <<tool, results>>, \A j \in Services : InMatrix(j)' = InMatrix(j)
  PROVE  MatrixRight'
<1> SUFFICES ASSUME tool = "dependency_matrix"
             PROVE  /\ IsSequence(results)'
                    /\ \A k \in DOMAIN results :
                         \E j \in Services : InMatrix(j)' /\ results[k].name = Names[j]
                    /\ \A j \in Services :
                         InMatrix(j)' => \E k \in DOMAIN results : results[k].name = Names[j]
                    /\ \A k, l \in DOMAIN results : results[k].name = results[l].name => k = l
  BY DEF MatrixRight
<1>1. IsSequence(results)' = IsSequence(results)
  BY DEF IsSequence
<1>2. ASSUME NEW k \in DOMAIN results
      PROVE  \E j \in Services : InMatrix(j)' /\ results[k].name = Names[j]
  <2>1. PICK j \in Services : InMatrix(j) /\ results[k].name = Names[j]
    BY DEF MatrixRight
  <2> QED BY <2>1
<1>3. ASSUME NEW j \in Services, InMatrix(j)'
      PROVE  \E k \in DOMAIN results : results[k].name = Names[j]
  <2>1. InMatrix(j)
    BY <1>3
  <2> QED BY <2>1 DEF MatrixRight
<1> QED BY <1>1, <1>2, <1>3 DEF MatrixRight

\* A goroutine that has its answer has not collected anything yet.
LEMMA LearnsStep ==
  ASSUME FanInv, NEW i \in Services, NEW answer,
         phase = "fan", pc[i] = "ask", tool # "api_timeline", Learns(i, answer),
         answer.err = "" => /\ tool \in SlotTools \ {"service_graph"} => answer.val = svc[i].latest
                            /\ tool \in ListTools => answer.val = svc[i].list
  PROVE  FanInv'
<1>1. /\ Framed /\ Answered /\ SlotsRight /\ MatrixRight /\ RecentRight
      /\ pc \in [Services -> {"ask", "answer", "done"}] /\ OnServices(got)
  BY DEF FanInv, Framed
<1>2. /\ UNCHANGED <<tool, svc, cluster, phase, file, results>>
      /\ pc' = [pc EXCEPT ![i] = "answer"] /\ got' = [got EXCEPT ![i] = answer]
  BY DEF Learns
<1>3. /\ pc' \in [Services -> {"ask", "answer", "done"}] /\ OnServices(got')
      /\ got'[i] = answer /\ \A j \in Services : j # i => got'[j] = got[j] /\ pc'[j] = pc[j]
      /\ pc'[i] = "answer"
  BY <1>1, <1>2 DEF OnServices
<1>4. /\ Learnt(i)' = (answer.err = "")
      /\ \A j \in Services : j # i => Learnt(j)' = Learnt(j)
  BY <1>3 DEF Learnt
<1>5. Framed'
  BY <1>1, <1>2, <1>3 DEF Framed, OnServices
<1>6. Answered'
  <2> SUFFICES ASSUME NEW j \in Services
               PROVE  /\ pc'[j] = "ask" => ~Learnt(j)'
                      /\ Learnt(j)' /\ tool \in SlotTools \ {"service_graph"}
                         => got'[j].val = svc[j].latest
                      /\ Learnt(j)' /\ tool \in ListTools => got'[j].val = svc[j].list
    BY <1>2 DEF Answered
  <2>1. CASE j = i
    BY <1>3, <1>4, <2>1
  <2>2. CASE j # i
    BY <1>1, <1>3, <1>4, <2>2 DEF Answered
  <2> QED BY <2>1, <2>2
<1>7. SlotsRight'
  <2>1. SUFFICES ASSUME tool \in SlotTools, NEW j \in Services, pc'[j] = "done"
                 PROVE  SlotRight(j, results[j])' 
    BY <1>1, <1>2 DEF SlotsRight, OnServices
  <2>2. SlotRight(j, results[j]) /\ j # i
    BY <1>1, <1>3, <2>1 DEF SlotsRight
  <2> QED BY <1>2, <1>3, <1>4, <2>2 DEF SlotRight
<1>8. MatrixRight'
  <2>1. \A j \in Services : InMatrix(j)' = InMatrix(j)
    BY <1>3 DEF InMatrix
  <2>3. MatrixRight
    BY <1>1
  <2>4. UNCHANGED <<tool, results>>
    BY <1>2
  <2> QED BY <2>1, <2>3, <2>4, SameMatrix
<1>9. RecentRight'
  <2> SUFFICES ASSUME tool \in ListTools PROVE RecentLines' /\ \A j \in Services : PastRecent(j)'
    BY <1>2 DEF RecentRight
  <2>1. RecentLines /\ \A j \in Services : PastRecent(j)
    BY <1>1 DEF RecentRight
  <2>2. UNCHANGED <<tool, svc, file, results>>
    BY <1>2
  <2>3. RecentLines'
    BY <2>1, <2>2, SameLines
  <2>4. ~Learnt(i)
    BY <1>1 DEF Answered
  <2>5. file[i] = 0
    BY <2>1, <2>4 DEF PastRecent
  <2>6. ASSUME NEW j \in Services PROVE PastRecent(j)'
    BY <1>2, <1>3, <1>4, <2>1, <2>5 DEF PastRecent
  <2> QED BY <2>3, <2>6
<1>10. HistoryRight'
  BY <1>2 DEF HistoryRight
<1>11. ReplyRight'
  BY <1>2 DEF ReplyRight
<1> QED BY <1>5, <1>6, <1>7, <1>8, <1>9, <1>10, <1>11 DEF FanInv

LEMMA AskStep ==
  ASSUME FanInv, NEW i \in Services, Ask(i)
  PROVE  FanInv'
<1>1. phase = "fan" /\ pc[i] = "ask" /\ tool # "api_timeline"
  BY DEF Ask
<1>2. CASE Reject(i)
  <2>1. svc[i].repo \in {"malformed", "unsupported"}
    BY <1>2, ToolFanOutAssumption DEF Reject, FanInv, Framed
  <2>2. Learns(i, Error(svc[i].repo)) /\ Error(svc[i].repo).err # ""
    BY <1>2, <2>1 DEF Reject, Error
  <2> QED BY <1>1, <2>2, LearnsStep
<1>3. CASE Request(i)
  <2>1. CASE Learns(i, Error("failed"))
    BY <1>1, <2>1, LearnsStep DEF Error
  <2>2. CASE Learns(i, Answer(IF tool \in ListTools THEN svc[i].list ELSE svc[i].latest))
    <3> DEFINE answer == Answer(IF tool \in ListTools THEN svc[i].list ELSE svc[i].latest)
    <3>1. /\ tool \in SlotTools \ {"service_graph"} => answer.val = svc[i].latest
          /\ tool \in ListTools => answer.val = svc[i].list
      BY ToolKinds DEF Answer
    <3>2. Learns(i, answer)
      BY <2>2
    <3> HIDE DEF answer
    <3> QED BY <1>1, <3>1, <3>2, LearnsStep
  <2> QED BY <1>3, <2>1, <2>2 DEF Request
<1>4. CASE TryFile(i)
  <2>1. tool \in FileTools
    BY <1>4 DEF TryFile
  <2>2. CASE \E answer : Learns(i, answer)
    BY <1>1, <2>1, <2>2, LearnsStep, ToolKinds
  <2>3. CASE /\ file' = [file EXCEPT ![i] = Past(file[i] + 1)]
             /\ UNCHANGED <<tool, svc, cluster, phase, pc, got, results, left, edges, out>>
    <3>1. file' \in [Services -> Nat]
      BY <2>3 DEF Past, FanInv, Framed
    <3>2. Framed'
      BY <2>3, <3>1 DEF FanInv, Framed, OnServices
    <3>3. Answered'
      BY <2>3 DEF FanInv, Answered, Learnt
    <3>4. SlotsRight'
      BY <2>3 DEF FanInv, SlotsRight, SlotRight, OnServices, Learnt
    <3>5. MatrixRight'
      BY <2>3 DEF FanInv, MatrixRight, InMatrix, IsSequence
    <3>6. RecentRight' /\ HistoryRight'
      BY <2>1, <2>3, ToolKinds DEF RecentRight, HistoryRight
    <3>7. ReplyRight'
      BY <1>1, <2>3 DEF ReplyRight
    <3> QED BY <3>2, <3>3, <3>4, <3>5, <3>6, <3>7 DEF FanInv
  <2> QED BY <1>4, <2>2, <2>3 DEF TryFile
<1> QED BY <1>2, <1>3, <1>4 DEF Ask

\* A goroutine fills its own slot, and leaves the others alone.
LEMMA SlotStep ==
  ASSUME FanInv, NEW i \in Services, NEW entry, tool \in SlotTools,
         Slot(i, entry), SlotRight(i, entry)
  PROVE  FanInv'
<1>1. /\ Framed /\ Answered /\ SlotsRight /\ OnServices(results)
      /\ pc \in [Services -> {"ask", "answer", "done"}]
  BY DEF FanInv, Framed, SlotsRight
<1>2. /\ UNCHANGED <<tool, svc, cluster, phase, file, got>>
      /\ pc' = [pc EXCEPT ![i] = "done"] /\ results' = [results EXCEPT ![i] = entry]
      /\ phase = "fan" /\ pc[i] = "answer"
  BY DEF Slot, PutAt
<1>3. /\ pc' \in [Services -> {"ask", "answer", "done"}] /\ OnServices(results')
      /\ results'[i] = entry /\ pc'[i] = "done"
      /\ \A j \in Services : j # i => results'[j] = results[j] /\ pc'[j] = pc[j]
  BY <1>1, <1>2 DEF OnServices
<1>4. Framed'
  BY <1>1, <1>2, <1>3 DEF Framed, OnServices
<1>5. Answered'
  <2>1. \A j \in Services : (pc'[j] = "ask" => pc[j] = "ask") /\ Learnt(j)' = Learnt(j)
    BY <1>2, <1>3 DEF Learnt
  <2> QED BY <1>1, <1>2, <2>1 DEF Answered
<1>6. SlotsRight'
  <2>1. ASSUME NEW j \in Services, pc'[j] = "done" PROVE SlotRight(j, results'[j])
    BY <1>1, <1>3, <2>1 DEF SlotsRight
  <2>2. ASSUME NEW j \in Services, pc'[j] = "done" PROVE SlotRight(j, results[j])'
    <3>1. SlotRight(j, results'[j])
      BY <2>1, <2>2
    <3> QED BY <1>2, <3>1 DEF SlotRight, Learnt
  <2> QED BY <1>3, <2>2 DEF SlotsRight, OnServices
<1>7. MatrixRight' /\ RecentRight' /\ HistoryRight'
  BY <1>2, ToolKinds DEF MatrixRight, RecentRight, HistoryRight
<1>8. ReplyRight'
  BY <1>2 DEF ReplyRight
<1> QED BY <1>4, <1>5, <1>6, <1>7, <1>8 DEF FanInv

LEMMA StatusRight ==
  ASSUME FanInv, NEW i \in Services,
         tool \in SlotTools \ {"upgrade_plan", "service_graph"}
  PROVE  /\ SlotRight(i, Status(i))
         /\ Tag(i) = IF Learnt(i) THEN svc[i].latest.tag ELSE None
<1>1. Tag(i) = IF Learnt(i) THEN svc[i].latest.tag ELSE None
  BY DEF FanInv, Answered, Tag, Learnt
<1> QED BY <1>1 DEF Status, SlotRight

LEMMA ComparedRight ==
  ASSUME FanInv, NEW i \in Services, CompareReleaseVsDeployed(i)
  PROVE  FanInv'
<1> DEFINE entry == [name |-> Names[i], err |-> got[i].err, latest |-> Tag(i),
                     upToDate |-> got[i].err = "" /\ UpToDate(Deployed(i), Tag(i))]
<1>1. tool \in SlotTools \ {"upgrade_plan", "service_graph"} /\ tool \in SlotTools
  BY DEF CompareReleaseVsDeployed, SlotTools
<1>2. entry.name = Names[i] /\ entry.err = got[i].err /\ entry.latest = Tag(i)
  OBVIOUS
<1>3. Slot(i, entry)
  BY DEF CompareReleaseVsDeployed
<1> HIDE DEF entry
<1>4. SlotRight(i, entry)
  BY <1>1, <1>2, StatusRight DEF SlotRight
<1> QED BY <1>1, <1>3, <1>4, SlotStep

LEMMA PrintedNat == \A t \in Nat : Printed(t) \in Nat
<1>1. Grain \in Nat /\ Grain > 0
  BY ToolFanOutAssumption
<1> QED BY <1>1 DEF Printed

LEMMA PlannedRight ==
  ASSUME FanInv, NEW i \in Services, UpgradePlan(i)
  PROVE  FanInv'
<1>1. tool = "upgrade_plan" /\ tool \in SlotTools /\ tool \in SlotTools \ {"service_graph"}
  BY DEF UpgradePlan, SlotTools
<1>2. CASE Learnt(i)
  <2> DEFINE r == got[i].val
             entry == [name |-> Names[i], err |-> "", latest |-> r.tag,
                       priority |-> Priority(r, UpToDate(Deployed(i), r.tag)),
                       date |-> Printed(r.date)]
  <2>1. r = svc[i].latest
    BY <1>1, <1>2 DEF FanInv, Answered
  <2>2. r.date \in Nat
    BY <2>1, WorldFacts DEF FanInv
  <2>3. /\ entry.name = Names[i] /\ entry.err = "" /\ entry.latest = r.tag
        /\ entry.priority = Priority(r, UpToDate(Deployed(i), r.tag))
        /\ entry.date = Printed(r.date)
    OBVIOUS
  <2>4. Slot(i, entry)
    BY <1>2 DEF UpgradePlan, Learnt
  <2> HIDE DEF entry
  <2>5. entry.priority \in {"", "critical", "high", "medium", "low"}
    BY <2>3 DEF Priority
  <2>6. entry.date \in Nat
    BY <2>2, <2>3, PrintedNat
  <2>7. SlotRight(i, entry)
    BY <1>2, <2>1, <2>3, <2>5, <2>6 DEF SlotRight, Learnt
  <2> QED BY <1>1, <2>4, <2>7, SlotStep
<1>3. CASE ~Learnt(i)
  <2> DEFINE entry == [name |-> Names[i], err |-> got[i].err, latest |-> None,
                       priority |-> "", date |-> 0]
  <2>1. Slot(i, entry)
    BY <1>3 DEF UpgradePlan, Learnt
  <2>2. SlotRight(i, entry)
    BY <1>3 DEF SlotRight
  <2> HIDE DEF entry
  <2> QED BY <1>1, <2>1, <2>2, SlotStep
<1> QED BY <1>2, <1>3

LEMMA SlotsStep ==
  ASSUME FanInv, NEW i \in Services,
         \/ CheckServices(i) \/ FindOutdated(i) \/ ListServices(i) \/ Dashboard(i)
         \/ CheckCommand(i) \/ CompareReleaseVsDeployed(i) \/ UpgradePlan(i) \/ ServiceGraph(i)
  PROVE  FanInv'
<1>1. CASE \/ CheckServices(i) \/ FindOutdated(i) \/ ListServices(i) \/ Dashboard(i)
           \/ CheckCommand(i)
  <2>1. tool \in SlotTools \ {"upgrade_plan", "service_graph"} /\ tool \in SlotTools
    BY <1>1 DEF CheckServices, FindOutdated, ListServices, Dashboard, CheckCommand, SlotTools
  <2>2. Slot(i, Status(i))
    BY <1>1 DEF CheckServices, FindOutdated, ListServices, Dashboard, CheckCommand
  <2> QED BY <2>1, <2>2, StatusRight, SlotStep
<1>2. CASE ServiceGraph(i)
  <2> DEFINE entry == [name |-> Names[i], err |-> got[i].err, deps |-> Deps(i)]
  <2>1. tool = "service_graph" /\ tool \in SlotTools
    BY <1>2 DEF ServiceGraph, SlotTools
  <2>2. entry.name = Names[i] /\ entry.err = got[i].err
    OBVIOUS
  <2>3. Slot(i, entry)
    BY <1>2 DEF ServiceGraph
  <2> HIDE DEF entry
  <2>4. SlotRight(i, entry)
    BY <2>1, <2>2 DEF SlotRight
  <2> QED BY <2>1, <2>3, <2>4, SlotStep
<1> QED BY <1>1, <1>2, ComparedRight, PlannedRight

\* The tools that append under the mutex: what does not touch the slice.
LEMMA AppendFrame ==
  ASSUME FanInv, NEW i \in Services, tool \notin SlotTools,
         UNCHANGED <<tool, svc, cluster, phase>>, phase = "fan",
         pc' = [pc EXCEPT ![i] = "done"] \/ pc' = pc,
         got' = got, file' \in [Services -> Nat]
  PROVE  Framed' /\ Answered' /\ SlotsRight' /\ ReplyRight'
<1>1. Framed /\ Answered /\ pc \in [Services -> {"ask", "answer", "done"}] /\ OnServices(got)
  BY DEF FanInv, Framed
<1>2. /\ pc' \in [Services -> {"ask", "answer", "done"}]
      /\ \A j \in Services : pc'[j] = "ask" => pc[j] = "ask"
  BY <1>1
<1>3. Framed'
  BY <1>1, <1>2 DEF Framed, OnServices
<1>4. Answered'
  <2>1. \A j \in Services : Learnt(j)' = Learnt(j)
    BY DEF Learnt
  <2> QED BY <1>1, <1>2, <2>1 DEF Answered
<1>5. SlotsRight' /\ ReplyRight'
  BY DEF SlotsRight, ReplyRight
<1> QED BY <1>3, <1>4, <1>5

LEMMA MatrixStep ==
  ASSUME FanInv, NEW i \in Services, DependencyMatrix(i)
  PROVE  FanInv'
<1> DEFINE entry == [name |-> Names[i], err |-> got[i].err, content |-> got[i].val]
<1>1. /\ tool = "dependency_matrix" /\ tool \notin SlotTools /\ tool \notin ListTools
      /\ tool # "api_timeline" /\ phase = "fan" /\ pc[i] = "answer"
      /\ UNCHANGED <<tool, svc, cluster, phase, file, got>>
      /\ pc' = [pc EXCEPT ![i] = "done"]
      /\ got[i].err = NoFile => results' = results \o <<>>
      /\ got[i].err # NoFile => results' = results \o <<entry>>
  BY ToolKinds DEF DependencyMatrix, AppendAll, NoFile
<1>2. /\ IsSequence(results)
      /\ \A k \in DOMAIN results : \E j \in Services : InMatrix(j) /\ results[k].name = Names[j]
      /\ \A j \in Services : InMatrix(j) => \E k \in DOMAIN results : results[k].name = Names[j]
      /\ \A k, l \in DOMAIN results : results[k].name = results[l].name => k = l
  BY <1>1 DEF FanInv, MatrixRight
<1>3. entry.name = Names[i]
  OBVIOUS
<1> HIDE DEF entry
<1>4. file' \in [Services -> Nat] /\ pc \in [Services -> {"ask", "answer", "done"}]
  BY <1>1 DEF FanInv, Framed
<1>5. Framed' /\ Answered' /\ SlotsRight' /\ ReplyRight'
  BY <1>1, <1>4, AppendFrame
<1>6. RecentRight' /\ HistoryRight'
  BY <1>1 DEF RecentRight, HistoryRight
<1>7. /\ ~InMatrix(i)
      /\ InMatrix(i)' = (got[i].err # NoFile)
      /\ \A j \in Services : j # i => InMatrix(j)' = InMatrix(j)
  BY <1>1, <1>4 DEF InMatrix
<1>8. CASE got[i].err = NoFile
  <2>1. results' = results
    BY <1>1, <1>2, <1>8, JoinedNone
  <2>2. \A j \in Services : InMatrix(j)' = InMatrix(j)
    BY <1>1, <1>4, <1>8 DEF InMatrix
  <2>3. IsSequence(results')
    BY <1>2, <2>1
  <2>4. MatrixRight'
    BY <1>2, <2>1, <2>2, <2>3 DEF MatrixRight
  <2> QED BY <1>5, <1>6, <2>4 DEF FanInv
<1>9. CASE got[i].err # NoFile
  <2> DEFINE n == Len(results)
  <2>1. results' = results \o <<entry>>
    BY <1>1, <1>9
  <2>2. /\ IsSequence(results')
        /\ n \in Nat /\ DOMAIN results = 1..n /\ DOMAIN results' = 1..(n + 1)
        /\ \A k \in 1..n : results'[k] = results[k]
        /\ results'[n + 1] = entry
    BY <1>2, <2>1, JoinedOne
  <2> HIDE DEF n
  <2>3. ASSUME NEW k \in DOMAIN results'
        PROVE  \E j \in Services : InMatrix(j)' /\ results'[k].name = Names[j]
    <3>1. CASE k \in 1..n
      <4>1. PICK j \in Services : InMatrix(j) /\ results[k].name = Names[j]
        BY <1>2, <2>2, <3>1
      <4> QED BY <1>7, <2>2, <3>1, <4>1
    <3>2. CASE k = n + 1
      BY <1>3, <1>7, <1>9, <2>2, <3>2
    <3> QED BY <2>2, <3>1, <3>2
  <2>4. ASSUME NEW j \in Services, InMatrix(j)'
        PROVE  \E k \in DOMAIN results' : results'[k].name = Names[j]
    <3>1. CASE j = i
      BY <1>3, <2>2, <3>1
    <3>2. CASE j # i
      <4>1. PICK k \in DOMAIN results : results[k].name = Names[j]
        BY <1>2, <1>7, <2>4, <3>2
      <4> QED BY <2>2, <4>1
    <3> QED BY <3>1, <3>2
  <2>5. \A k \in 1..n : results[k].name # Names[i]
    BY <1>2, <1>7, <2>2, ServiceFacts
  <2>6. ASSUME NEW k \in DOMAIN results', NEW l \in DOMAIN results',
               results'[k].name = results'[l].name
        PROVE  k = l
    <3>1. CASE k \in 1..n /\ l \in 1..n
      BY <1>2, <2>2, <2>6, <3>1
    <3>2. CASE k = n + 1 /\ l \in 1..n
      BY <1>3, <2>2, <2>5, <2>6, <3>2
    <3>3. CASE k \in 1..n /\ l = n + 1
      BY <1>3, <2>2, <2>5, <2>6, <3>3
    <3>4. k \in 1..n \/ k = n + 1
      BY <2>2
    <3>5. l \in 1..n \/ l = n + 1
      BY <2>2
    <3> QED BY <3>1, <3>2, <3>3, <3>4, <3>5
  <2>7. MatrixRight'
    BY <2>2, <2>3, <2>4, <2>6 DEF MatrixRight
  <2> QED BY <1>5, <1>6, <2>7 DEF FanInv
<1> QED BY <1>8, <1>9

LEMMA SameLine ==
  ASSUME NEW i \in Services, NEW j \in Services, NEW m, NEW n, Line(i, m) = Line(j, n)
  PROVE  i = j /\ m = n
<1>1. /\ Line(i, m).name = Names[i] /\ Line(j, n).name = Names[j]
      /\ Line(i, m).nth = m /\ Line(j, n).nth = n
  BY DEF Line
<1>2. Names[i] = Names[j] /\ m = n
  BY <1>1
<1> QED BY <1>2, ServiceFacts

\* The next release is recent: it is appended, and the goroutine is past it.
LEMMA TakesOne ==
  ASSUME RecentLines, NEW i \in Services, file \in [Services -> Nat],
         file' = [file EXCEPT ![i] = file[i] + 1], UNCHANGED <<tool, svc>>,
         results' = results \o <<Line(i, file[i] + 1)>>
  PROVE  RecentLines'
<1> DEFINE m == Len(results)
           f == file[i] + 1
           entry == Line(i, f)
<1>1. /\ IsSequence(results')
      /\ m \in Nat /\ DOMAIN results = 1..m /\ DOMAIN results' = 1..(m + 1)
      /\ \A k \in 1..m : results'[k] = results[k]
      /\ results'[m + 1] = entry
  BY JoinedOne DEF RecentLines
<1>2. /\ \A j \in Services : j # i => file'[j] = file[j]
      /\ file'[i] = f /\ file[i] \in Nat /\ f = file[i] + 1
  OBVIOUS
<1>3. /\ \A k \in 1..m : \E j \in Services : \E n \in 1..file[j] : results[k] = Line(j, n)
      /\ \A j \in Services : \A n \in 1..file[j] : \E k \in 1..m : results[k] = Line(j, n)
      /\ \A k, l \in 1..m : results[k] = results[l] => k = l
  BY <1>1 DEF RecentLines
<1>4. \A j \in Services : \A n : Line(j, n)' = Line(j, n)
  BY DEF Line, Rows
<1>5. entry = Line(i, f)
  OBVIOUS
<1> HIDE DEF m, f, entry
<1>6. \A k \in 1..m : results[k] # entry
  <2> SUFFICES ASSUME NEW k \in 1..m, results[k] = entry PROVE FALSE
    OBVIOUS
  <2>1. PICK j \in Services : \E n \in 1..file[j] : results[k] = Line(j, n)
    BY <1>3
  <2>2. PICK n \in 1..file[j] : results[k] = Line(j, n)
    BY <2>1
  <2>3. j = i /\ n = f
    BY <1>5, <2>2, SameLine
  <2> QED BY <1>2, <2>2, <2>3
<1>7. ASSUME NEW k \in 1..(m + 1)
      PROVE  \E j \in Services : \E n \in 1..file'[j] : results'[k] = Line(j, n)
  <2>1. CASE k \in 1..m
    <3>1. PICK j \in Services : \E n \in 1..file[j] : results[k] = Line(j, n)
      BY <1>3, <2>1
    <3>2. PICK n \in 1..file[j] : results[k] = Line(j, n)
      BY <3>1
    <3>3. n \in 1..file'[j]
      BY <1>2, <3>2
    <3> QED BY <1>1, <2>1, <3>2, <3>3
  <2>2. CASE k = m + 1
    <3>1. f \in 1..file'[i]
      BY <1>2
    <3> QED BY <1>1, <1>5, <2>2, <3>1
  <2> QED BY <1>1, <2>1, <2>2
<1>8. ASSUME NEW j \in Services, NEW n \in 1..file'[j]
      PROVE  \E k \in 1..(m + 1) : results'[k] = Line(j, n)
  <2>1. CASE n \in 1..file[j]
    <3>1. PICK k \in 1..m : results[k] = Line(j, n)
      BY <1>3, <2>1
    <3> QED BY <1>1, <3>1
  <2>2. CASE n \notin 1..file[j]
    <3>1. j = i /\ n = f
      BY <1>2, <2>2
    <3> QED BY <1>1, <1>5, <3>1
  <2> QED BY <2>1, <2>2
<1>9. ASSUME NEW k \in 1..(m + 1), NEW l \in 1..(m + 1), results'[k] = results'[l]
      PROVE  k = l
  <2>1. (k \in 1..m \/ k = m + 1) /\ (l \in 1..m \/ l = m + 1)
    BY <1>1
  <2> QED BY <1>1, <1>3, <1>6, <1>9, <2>1
<1>10. ASSUME NEW k \in DOMAIN results'
       PROVE  \E j \in Services : \E n \in 1..file'[j] : results'[k] = Line(j, n)'
  <2>1. PICK j \in Services : \E n \in 1..file'[j] : results'[k] = Line(j, n)
    BY <1>1, <1>7
  <2>2. PICK n \in 1..file'[j] : results'[k] = Line(j, n)
    BY <2>1
  <2> QED BY <1>4, <2>2
<1>11. ASSUME NEW j \in Services, NEW n \in 1..file'[j]
       PROVE  \E k \in DOMAIN results' : results'[k] = Line(j, n)'
  <2>1. PICK k \in 1..(m + 1) : results'[k] = Line(j, n)
    BY <1>8
  <2> QED BY <1>1, <1>4, <2>1
<1>12. IsSequence(results)' /\ \A k, l \in DOMAIN results' : results'[k] = results'[l] => k = l
  <2>1. IsSequence(results') = IsSequence(results)'
    BY DEF IsSequence
  <2> QED BY <1>1, <1>9, <2>1
<1> QED BY <1>10, <1>11, <1>12 DEF RecentLines

LEMMA CollectStep ==
  ASSUME FanInv, NEW i \in Services, tool \in ListTools, CollectRecent(i)
  PROVE  FanInv'
<1> DEFINE f == file[i] + 1
           list == IF Learnt(i) THEN got[i].val ELSE <<>>
           entry == [name |-> Names[i], nth |-> f, date |-> list[f]]
           one == f \in DOMAIN list /\ Recent(list[f])
<1>1. /\ tool \notin SlotTools /\ tool # "dependency_matrix" /\ tool # "api_timeline"
      /\ phase = "fan" /\ pc[i] = "answer"
      /\ UNCHANGED <<tool, svc, cluster, phase, got>>
      /\ one => /\ results' = results \o <<entry>> /\ pc' = pc
                /\ file' = [file EXCEPT ![i] = f]
      /\ ~one => /\ results' = results \o <<>> /\ file' = file
                 /\ pc' = [pc EXCEPT ![i] = "done"]
  BY ToolKinds DEF CollectRecent, AppendAll, Learnt, FileTools
<1>2. /\ RecentLines /\ IsSequence(results) /\ \A j \in Services : PastRecent(j)
      /\ file \in [Services -> Nat] /\ pc \in [Services -> {"ask", "answer", "done"}]
      /\ Framed
  BY DEF FanInv, RecentRight, RecentLines, Framed
<1>3. /\ svc[i].list \in Seq(Nat) /\ Len(svc[i].list) \in Nat
      /\ DOMAIN svc[i].list = 1..Len(svc[i].list)
  BY <1>2, WorldFacts
<1>4. /\ Learnt(i) => list = svc[i].list
      /\ ~Learnt(i) => list = <<>>
  BY DEF FanInv, Answered
<1>5. DOMAIN <<>> = {}
  OBVIOUS
<1>6. file[i] \in Nat /\ f = file[i] + 1 /\ file' \in [Services -> Nat]
  BY <1>1, <1>2
<1>7. Framed' /\ Answered' /\ SlotsRight' /\ ReplyRight'
  BY <1>1, <1>6, AppendFrame
<1>8. MatrixRight' /\ HistoryRight'
  BY <1>1 DEF MatrixRight, HistoryRight
<1>9. \A j \in Services : Learnt(j)' = Learnt(j)
  BY <1>1 DEF Learnt
<1>10. CASE one
  <2>1. Learnt(i) /\ list = svc[i].list /\ f \in 1..Len(svc[i].list) /\ svc[i].list[f] >= Cutoff
    BY <1>3, <1>4, <1>5, <1>10 DEF Recent
  <2>2. entry = Line(i, f)
    BY <2>1 DEF Line, Rows
  <2>3. /\ results' = results \o <<entry>> /\ pc' = pc
        /\ file' = [file EXCEPT ![i] = f]
    BY <1>1, <1>10
  <2> HIDE DEF list, entry, one
  <2>4. RecentLines'
    BY <1>1, <1>2, <2>2, <2>3, TakesOne
  <2>5. PastRecent(i)'
    <3>1. /\ file'[i] = f /\ svc'[i] = svc[i] /\ pc'[i] # "done" /\ Learnt(i)'
      BY <1>1, <1>2, <1>9, <2>1, <2>3
    <3>2. f <= Len(svc[i].list)
      BY <1>3, <1>6, <2>1
    <3>3. \A n \in 1..f : svc[i].list[n] >= Cutoff
      BY <1>2, <1>6, <2>1 DEF PastRecent
    <3> QED BY <3>1, <3>2, <3>3 DEF PastRecent
  <2>6. ASSUME NEW j \in Services, j # i PROVE PastRecent(j)'
    <3>1. /\ PastRecent(j) /\ file'[j] = file[j] /\ svc' = svc /\ pc'[j] = pc[j]
          /\ Learnt(j)' = Learnt(j)
      BY <1>1, <1>2, <1>9, <2>3, <2>6
    <3> QED BY <3>1 DEF PastRecent
  <2>7. RecentRight'
    BY <2>4, <2>5, <2>6 DEF RecentRight
  <2> QED BY <1>7, <1>8, <2>7 DEF FanInv
<1>11. CASE ~one
  <2>1. results' = results \o <<>> /\ file' = file /\ pc' = [pc EXCEPT ![i] = "done"]
    BY <1>1, <1>11
  <2>2. results' = results
    BY <1>2, <2>1, JoinedNone
  <2>3. RecentLines'
    BY <1>1, <1>2, <2>1, <2>2, SameLines
  <2>4. Learnt(i) => file[i] = Len(svc[i].list) \/ svc[i].list[f] < Cutoff
    <3> SUFFICES ASSUME Learnt(i), file[i] # Len(svc[i].list) PROVE svc[i].list[f] < Cutoff
      OBVIOUS
    <3>1. file[i] <= Len(svc[i].list)
      BY <1>2 DEF PastRecent
    <3>2. f \in 1..Len(svc[i].list) /\ list = svc[i].list
      BY <1>3, <1>4, <1>6, <3>1
    <3>3. ~Recent(svc[i].list[f])
      BY <1>3, <1>11, <3>2
    <3>4. svc[i].list[f] \in Nat
      BY <1>3, <3>2
    <3> QED BY <3>3, <3>4, ToolFanOutAssumption DEF Recent
  <2> HIDE DEF list, entry, one
  <2>5. PastRecent(i)'
    <3>1. /\ PastRecent(i) /\ file'[i] = file[i] /\ svc' = svc /\ Learnt(i)' = Learnt(i)
      BY <1>1, <1>2, <1>9, <2>1
    <3> QED BY <1>6, <2>4, <3>1 DEF PastRecent
  <2>6. ASSUME NEW j \in Services, j # i PROVE PastRecent(j)'
    <3>1. /\ PastRecent(j) /\ file'[j] = file[j] /\ svc' = svc /\ pc'[j] = pc[j]
          /\ Learnt(j)' = Learnt(j)
      BY <1>1, <1>2, <1>9, <2>1, <2>6
    <3> QED BY <3>1 DEF PastRecent
  <2>7. RecentRight'
    BY <2>3, <2>5, <2>6 DEF RecentRight
  <2> QED BY <1>7, <1>8, <2>7 DEF FanInv
<1> QED BY <1>10, <1>11

\* The rows of one service: the last HistoryLimit of them, from the newest down.
LEMMA HistoryLines ==
  ASSUME Framed, NEW i \in Services, tool = "api_timeline"
  PROVE  LET h == GetHistory(i) IN
         /\ IsSequence(h) /\ Len(h) \in Nat /\ DOMAIN h = 1..Len(h)
         /\ \A k \in 1..Len(h) : \E n \in Due(i) : h[k] = Line(i, n)
         /\ \A n \in Due(i) : \E k \in 1..Len(h) : h[k] = Line(i, n)
         /\ \A k, l \in 1..Len(h) : \A m, n \in Due(i) :
              k < l /\ h[k] = Line(i, m) /\ h[l] = Line(i, n) => m > n
<1> DEFINE rows == svc[i].rows
           r == Len(rows)
           last == IF r < HistoryLimit THEN r ELSE HistoryLimit
           h == GetHistory(i)
<1>1. r \in Nat /\ DOMAIN rows = 1..r /\ HistoryLimit \in Nat
  <2>1. rows \in Seq(Nat)
    BY WorldFacts
  <2> QED BY <2>1, ToolFanOutAssumption
<1>2. Due(i) = {k \in 1..r : k + HistoryLimit > r}
  BY <1>1, ToolKinds DEF Due
<1>3. h = [k \in 1..last |-> [name |-> Names[i], nth |-> r + 1 - k, date |-> rows[r + 1 - k]]]
  BY DEF GetHistory
<1>4. \A n : Line(i, n) = [name |-> Names[i], nth |-> n, date |-> rows[n]]
  BY ToolKinds DEF Line, Rows
<1> HIDE DEF rows, r, h
<1>5. last \in Nat /\ last <= r /\ last <= HistoryLimit /\ (last = r \/ last = HistoryLimit)
  BY <1>1
<1> HIDE DEF last
<1>6. /\ DOMAIN h = 1..last
      /\ \A k \in 1..last : h[k] = Line(i, r + 1 - k)
  BY <1>3, <1>4
<1>7. IsSequence(h) /\ Len(h) = last
  <2> DEFINE S == {h[k] : k \in DOMAIN h}
  <2>1. h \in [1..last -> S]
    BY <1>3, <1>6
  <2> HIDE DEF S
  <2>2. h \in Seq(S)
    BY <1>5, <2>1
  <2> QED BY <1>5, <1>6, <2>2, SeqIsSequence
<1>8. ASSUME NEW k \in 1..last PROVE r + 1 - k \in Due(i)
  BY <1>1, <1>2, <1>5
<1>9. ASSUME NEW n \in Due(i) PROVE \E k \in 1..last : h[k] = Line(i, n)
  <2>1. r + 1 - n \in 1..last /\ r + 1 - (r + 1 - n) = n
    <3>1. n \in 1..r /\ n + HistoryLimit > r
      BY <1>2
    <3> QED BY <1>1, <1>5, <3>1
  <2> QED BY <1>6, <2>1
<1>10. ASSUME NEW k \in 1..last, NEW l \in 1..last, NEW m \in Due(i), NEW n \in Due(i),
              k < l, h[k] = Line(i, m), h[l] = Line(i, n)
       PROVE  m > n
  <2>1. Line(i, m) = Line(i, r + 1 - k) /\ Line(i, n) = Line(i, r + 1 - l)
    BY <1>6, <1>10
  <2>2. m = r + 1 - k /\ n = r + 1 - l
    BY <2>1, SameLine
  <2>3. k \in Nat /\ l \in Nat
    BY <1>5
  <2> QED BY <1>1, <1>10, <2>2, <2>3
<1> QED BY <1>5, <1>6, <1>7, <1>8, <1>9, <1>10 DEF h

LEMMA HistoryStep ==
  ASSUME FanInv, NEW i \in Services, GetTimeline(i)
  PROVE  FanInv'
<1> DEFINE h == GetHistory(i)
           m == Len(results)
<1>1. /\ tool = "api_timeline" /\ tool \notin SlotTools \cup ListTools /\ tool # "dependency_matrix"
      /\ phase = "fan" /\ pc[i] = "ask" /\ \A j \in 1..(i - 1) : pc[j] = "done"
      /\ UNCHANGED <<tool, svc, cluster, phase, file>> /\ pc' = [pc EXCEPT ![i] = "done"]
  BY ToolKinds DEF GetTimeline, AppendAll, FileTools
<1>2. \/ results' = results \o <<>> /\ got' = [got EXCEPT ![i] = Error("failed")]
      \/ results' = results \o h /\ got' = [got EXCEPT ![i] = Answer(svc[i].rows)]
  BY DEF GetTimeline, AppendAll
<1>3. /\ Framed /\ OnServices(got) /\ pc \in [Services -> {"ask", "answer", "done"}]
      /\ \A j \in Services : pc[j] = "ask" => ~Learnt(j)
      /\ IsSequence(results)
      /\ \A j \in Services : pc[j] # "answer"
      /\ \A j, o \in Services : pc[j] = "done" /\ o < j => pc[o] = "done"
  BY <1>1 DEF FanInv, Framed, Answered, HistoryRight
<1>4. /\ \A k \in DOMAIN results : \E j \in Services : \E n \in Due(j) :
           Learnt(j) /\ results[k] = Line(j, n)
      /\ \A j \in Services : Learnt(j) =>
           \A n \in Due(j) : \E k \in DOMAIN results : results[k] = Line(j, n)
      /\ \A k, l \in DOMAIN results : \A j, o \in Services : \A p \in Due(j), n \in Due(o) :
           k < l /\ results[k] = Line(j, p) /\ results[l] = Line(o, n) => (j < o \/ (j = o /\ p > n))
  BY <1>1 DEF FanInv, HistoryRight
<1>5. /\ pc' \in [Services -> {"ask", "answer", "done"}] /\ pc'[i] = "done"
      /\ \A j \in Services : j # i => pc'[j] = pc[j]
      /\ OnServices(got') /\ \A j \in Services : j # i => Learnt(j)' = Learnt(j)
      /\ ~Learnt(i)
  <2>1. OnServices(got') /\ \A j \in Services : j # i => got'[j] = got[j]
    BY <1>2, <1>3 DEF OnServices
  <2> QED BY <1>1, <1>3, <2>1 DEF Learnt
<1>6. Framed'
  BY <1>1, <1>3, <1>5 DEF Framed, OnServices
<1>7. Answered'
  BY <1>1, <1>3, <1>5 DEF Answered
<1>8. SlotsRight' /\ MatrixRight' /\ RecentRight' /\ ReplyRight'
  BY <1>1 DEF SlotsRight, MatrixRight, RecentRight, ReplyRight
<1>9. /\ \A j \in Services : pc'[j] # "answer"
      /\ \A j, o \in Services : pc'[j] = "done" /\ o < j => pc'[o] = "done"
  <2>1. \A o \in Services : o < i => o \in 1..(i - 1)
    BY ServiceFacts
  <2> QED BY <1>1, <1>3, <1>5, <2>1
<1>10. /\ \A j \in Services : \A n : Line(j, n)' = Line(j, n)
       /\ \A j \in Services : Due(j)' = Due(j)
  BY <1>1 DEF Line, Rows, Due
\* What is there comes from the services before.
<1>11. \A k \in DOMAIN results : \E j \in Services : \E n \in Due(j) :
         j < i /\ j # i /\ Learnt(j) /\ results[k] = Line(j, n)
  <2> SUFFICES ASSUME NEW k \in DOMAIN results
               PROVE  \E j \in Services : \E n \in Due(j) :
                        j < i /\ j # i /\ Learnt(j) /\ results[k] = Line(j, n)
    OBVIOUS
  <2>1. PICK j \in Services : \E n \in Due(j) : Learnt(j) /\ results[k] = Line(j, n)
    BY <1>4
  <2>2. j # i /\ pc[j] = "done"
    BY <1>3, <1>5, <2>1
  <2>3. j < i
    BY <1>1, <1>3, <2>2, ServiceFacts
  <2> QED BY <2>1, <2>2, <2>3
<1>12. CASE results' = results \o <<>> /\ got' = [got EXCEPT ![i] = Error("failed")]
  <2>1. results' = results
    BY <1>3, <1>12, JoinedNone
  <2>2. ~Learnt(i)'
    BY <1>3, <1>12 DEF Learnt, Error, OnServices
  <2>3. /\ IsSequence(results)'
        /\ \A k \in DOMAIN results : \E j \in Services : \E n \in Due(j) :
             Learnt(j)' /\ results[k] = Line(j, n)
    BY <1>3, <1>5, <1>11, <2>1 DEF IsSequence
  <2>4. \A j \in Services : Learnt(j)' =>
           \A n \in Due(j) : \E k \in DOMAIN results : results[k] = Line(j, n)
    BY <1>4, <1>5, <2>2
  <2>5. HistoryRight'
    BY <1>4, <1>9, <1>10, <2>1, <2>3, <2>4 DEF HistoryRight
  <2> QED BY <1>6, <1>7, <1>8, <2>5 DEF FanInv
<1>13. CASE results' = results \o h /\ got' = [got EXCEPT ![i] = Answer(svc[i].rows)]
  <2>1. Learnt(i)'
    BY <1>3, <1>13 DEF Learnt, Answer, OnServices
  <2>2. /\ IsSequence(h) /\ Len(h) \in Nat /\ DOMAIN h = 1..Len(h)
        /\ \A k \in 1..Len(h) : \E n \in Due(i) : h[k] = Line(i, n)
        /\ \A n \in Due(i) : \E k \in 1..Len(h) : h[k] = Line(i, n)
        /\ \A k, l \in 1..Len(h) : \A p, n \in Due(i) :
             k < l /\ h[k] = Line(i, p) /\ h[l] = Line(i, n) => p > n
    BY <1>1, <1>3, HistoryLines
  <2> HIDE DEF h
  <2>3. /\ IsSequence(results \o h)
        /\ m \in Nat /\ DOMAIN results = 1..m /\ DOMAIN (results \o h) = 1..(m + Len(h))
        /\ \A k \in 1..m : (results \o h)[k] = results[k]
        /\ \A k \in 1..Len(h) : (results \o h)[m + k] = h[k]
        /\ \A k \in DOMAIN (results \o h) :
             k \in 1..m \/ \E l \in 1..Len(h) : k = m + l
    <3>1. IsSequence(results) /\ IsSequence(h)
      BY <1>3, <2>2
    <3> DEFINE t == results \o h
    <3>2. /\ IsSequence(t) /\ m \in Nat /\ DOMAIN results = 1..m /\ DOMAIN t = 1..(m + Len(h))
          /\ \A k \in 1..m : t[k] = results[k]
      BY <3>1, Joined
    <3>3. \A k \in 1..Len(h) : t[m + k] = h[k]
      BY <3>1, Joined
    <3>4. \A k \in DOMAIN t : k \in 1..m \/ \E l \in 1..Len(h) : k = m + l
      <4> HIDE DEF IsSequence
      <4> QED BY <3>1, JoinedPlaces
    <3> QED BY <3>2, <3>3, <3>4
  <2> HIDE DEF m
  <2>4. /\ IsSequence(results)'
        /\ DOMAIN results' = 1..(m + Len(h))
        /\ \A k \in 1..m : results'[k] = results[k]
        /\ \A k \in 1..Len(h) : results'[m + k] = h[k]
        /\ \A k \in DOMAIN results' : k \in 1..m \/ \E l \in 1..Len(h) : k = m + l
    BY <1>13, <2>3 DEF IsSequence
  <2>5. \A k \in 1..Len(h) : m + k \in DOMAIN results'
    BY <2>2, <2>3, <2>4
  <2>6. \A k \in 1..m : k \in DOMAIN results'
    BY <2>2, <2>3, <2>4
  <2>7. ASSUME NEW k \in DOMAIN results'
        PROVE  \E j \in Services : \E n \in Due(j) : Learnt(j)' /\ results'[k] = Line(j, n)
    <3>1. CASE k \in 1..m
      BY <1>5, <1>11, <2>3, <2>4, <3>1
    <3>2. CASE \E l \in 1..Len(h) : k = m + l
      BY <2>1, <2>2, <2>4, <3>2
    <3> QED BY <2>4, <3>1, <3>2
  <2>8. ASSUME NEW j \in Services, Learnt(j)', NEW n \in Due(j)
        PROVE  \E k \in DOMAIN results' : results'[k] = Line(j, n)
    <3>1. CASE j = i
      <4>1. PICK k \in 1..Len(h) : h[k] = Line(i, n)
        BY <2>2, <2>8, <3>1
      <4> QED BY <2>4, <2>5, <3>1, <4>1
    <3>2. CASE j # i
      <4>1. PICK k \in DOMAIN results : results[k] = Line(j, n)
        BY <1>4, <1>5, <2>8, <3>2
      <4> QED BY <2>3, <2>4, <2>6, <4>1
    <3> QED BY <3>1, <3>2
  <2>9. ASSUME NEW k \in DOMAIN results', NEW l \in DOMAIN results',
               NEW j \in Services, NEW o \in Services, NEW p \in Due(j), NEW n \in Due(o),
               k < l, results'[k] = Line(j, p), results'[l] = Line(o, n)
        PROVE  j < o \/ (j = o /\ p > n)
    <3>1. CASE k \in 1..m /\ l \in 1..m
      BY <1>4, <2>3, <2>4, <2>9, <3>1
    <3>2. CASE l \notin 1..m
      <4>1. PICK y \in 1..Len(h) : l = m + y
        BY <2>4, <3>2
      <4>2. PICK b \in Due(i) : h[y] = Line(i, b)
        BY <2>2
      <4>3. o = i /\ h[y] = Line(i, n)
        BY <2>4, <2>9, <4>1, <4>2, SameLine
      <4>4. CASE k \in 1..m
        <5>1. PICK q \in Services : \E a \in Due(q) : q < i /\ results[k] = Line(q, a)
          BY <1>11, <2>3, <4>4
        <5>2. q = j
          BY <2>4, <2>9, <4>4, <5>1, SameLine
        <5> QED BY <4>3, <5>1, <5>2
      <4>5. CASE k \notin 1..m
        <5>1. PICK x \in 1..Len(h) : k = m + x
          BY <2>4, <4>5
        <5>2. PICK a \in Due(i) : h[x] = Line(i, a)
          BY <2>2
        <5>3. j = i /\ h[x] = Line(i, p)
          BY <2>4, <2>9, <5>1, <5>2, SameLine
        <5>4. x < y
          BY <2>2, <2>3, <2>9, <4>1, <5>1
        <5>5. p \in Due(i) /\ n \in Due(i)
          BY <4>3, <5>3
        <5> QED BY <2>2, <4>3, <5>3, <5>4, <5>5
      <4> QED BY <4>4, <4>5
    <3>3. l \in 1..m => k \in 1..m
      BY <2>2, <2>3, <2>4, <2>9
    <3> QED BY <3>1, <3>2, <3>3
  <2>10. HistoryRight'
    BY <1>9, <1>10, <2>4, <2>7, <2>8, <2>9 DEF HistoryRight
  <2> QED BY <1>6, <1>7, <1>8, <2>10 DEF FanInv
<1> QED BY <1>2, <1>12, <1>13

-----------------------------------------------------------------------------
(* The reply.                                                               *)

\* What sort.Slice leaves.
LEMMA Sorted ==
  ASSUME SortAndReply
  PROVE  /\ tool \in SortTools /\ Reordered(out', results)
         /\ \A k, l \in DOMAIN out' : k < l => ~Before(out'[l], out'[k])
<1>1. CASE tool = "upgrade_plan"
  <2>1. out' \in Sortings(results, MoreUrgent)
    BY <1>1 DEF SortAndReply, Replies
  <2> QED BY <1>1, <2>1 DEF Sortings, Reordered, Before, SortTools
<1>2. CASE tool = "dependency_matrix"
  <2>1. out' \in Sortings(results, NameBefore)
    BY <1>2 DEF SortAndReply, Replies
  <2> QED BY <1>2, <2>1 DEF Sortings, Reordered, Before, SortTools
<1>3. CASE tool = "release_timeline"
  <2>1. out' \in Sortings(results, NewerPrinted)
    BY <1>3 DEF SortAndReply, Replies
  <2> QED BY <1>3, <2>1 DEF Sortings, Reordered, Before, SortTools, ListTools
<1>4. CASE tool = "timeline"
  <2>1. out' \in Sortings(results, Newer)
    BY <1>4 DEF SortAndReply, Replies
  <2> QED BY <1>4, <2>1 DEF Sortings, Reordered, Before, SortTools, ListTools
<1> QED BY <1>1, <1>2, <1>3, <1>4 DEF SortAndReply

LEMMA SortStep ==
  ASSUME FanInv, SortAndReply \/ CountAndReply \/ PlainReply
  PROVE  FanInv'
<1>1. /\ UNCHANGED <<tool, svc, cluster, pc, file, got, results>>
      /\ phase' = "replied" /\ \A i \in Services : pc[i] = "done"
  BY DEF SortAndReply, CountAndReply, PlainReply, Collected, Replies
<1>2. ReplyRight'
  <2>1. CASE SortAndReply
    <3>1. /\ tool \in SortTools /\ Reordered(out', results)
          /\ \A k, l \in DOMAIN out' : k < l => ~Before(out'[l], out'[k])
      BY <2>1, Sorted
    <3>2. tool \notin PlainTools /\ tool # "dashboard"
      BY <3>1 DEF SortTools, ListTools, PlainTools
    <3>3. \A e, f : Before(e, f)' = Before(e, f)
      BY <1>1 DEF Before
    <3>4. Reordered(out, results)' = Reordered(out', results)
      BY <1>1
    <3> QED BY <1>1, <3>1, <3>2, <3>3, <3>4 DEF ReplyRight
  <2>2. CASE CountAndReply
    <3>1. Bad' = Bad
      BY <1>1 DEF Bad
    <3>2. /\ tool = "dashboard"
          /\ out' = [list |-> results, healthy |-> N - Cardinality(Bad), errors |-> Cardinality(Bad)]
      BY <2>2 DEF CountAndReply, Replies, Bad
    <3>3. out'.list = results /\ out'.healthy = N - Cardinality(Bad) /\ out'.errors = Cardinality(Bad)
      BY <3>2
    <3>4. tool \notin PlainTools /\ tool \notin SortTools
      BY <3>2 DEF PlainTools, SortTools, ListTools
    <3> QED BY <1>1, <3>1, <3>2, <3>3, <3>4 DEF ReplyRight
  <2>3. CASE PlainReply
    BY <1>1, <2>3 DEF ReplyRight, PlainTools, SortTools, ListTools, PlainReply, Replies
  <2> QED BY <2>1, <2>2, <2>3
<1> QED BY <1>1, <1>2, NothingCollected DEF FanInv

LEMMA GraphStep ==
  ASSUME FanInv, Share \/ (\E d \in left : PairUp(d)) \/ GraphReply
  PROVE  FanInv'
<1>1. /\ UNCHANGED <<tool, svc, cluster, pc, file, got, results>>
      /\ phase' \in {"pairs", "replied"} /\ tool = "service_graph"
      /\ \A i \in Services : pc[i] = "done"
  <2>1. CASE Share
    BY <2>1 DEF Share, Collected
  <2>2. CASE \E d \in left : PairUp(d)
    BY <2>2 DEF PairUp, FanInv, ReplyRight
  <2>3. CASE GraphReply
    BY <2>3 DEF GraphReply, Replies, FanInv, ReplyRight
  <2> QED BY <2>1, <2>2, <2>3
<1>2. ReplyRight'
  BY <1>1 DEF ReplyRight, PlainTools, SortTools, ListTools
<1>3. phase' \in {"begin", "fan", "pairs", "replied"}
  BY <1>1
<1> QED BY <1>1, <1>2, <1>3, NothingCollected DEF FanInv

LEMMA FanStep == FanInv /\ [CallNext]_<<vars, dvars>> => FanInv'
<1> SUFFICES ASSUME FanInv, [CallNext]_<<vars, dvars>> PROVE FanInv'
  OBVIOUS
<1>1. CASE Next
  <2>1. CASE Handler
    BY <2>1, BeginStep, SortStep, GraphStep DEF Handler
  <2>2. ASSUME NEW i \in Services, Goroutine(i) PROVE FanInv'
    <3>1. CASE ReleaseTimeline(i) \/ TimelineCommand(i)
      <4>1. tool \in ListTools /\ CollectRecent(i)
        BY <3>1 DEF ReleaseTimeline, TimelineCommand, ListTools
      <4> QED BY <4>1, CollectStep
    <3> QED BY <2>2, <3>1, AskStep, SlotsStep, MatrixStep, HistoryStep DEF Goroutine
  <2> QED BY <1>1, <2>1, <2>2 DEF Next
<1>2. CASE UNCHANGED vars
  <2>1. /\ UNCHANGED <<tool, svc, cluster, pc, file, got, results>> /\ phase' = phase
        /\ phase' \in {"begin", "fan", "pairs", "replied"}
    BY <1>2 DEF vars, FanInv, Framed
  <2>2. ReplyRight'
    <3>1. /\ UNCHANGED <<tool, cluster, phase, pc, results, out>> /\ Refused' = Refused
          /\ Bad' = Bad
          /\ \A e, f : Before(e, f)' = Before(e, f)
          /\ Reordered(out, results)' = Reordered(out, results)
      BY <1>2 DEF vars, Refused, Bad, Before, Reordered
    <3> QED BY <3>1 DEF FanInv, ReplyRight
  <2> QED BY <2>1, <2>2, NothingCollected DEF FanInv
<1> QED BY <1>1, <1>2 DEF CallNext

\* At every moment of every call the goroutines have left behind what they should.
THEOREM Collecting == CallSpec => []FanInv
BY FanInit, FanStep, PTL DEF CallSpec

-----------------------------------------------------------------------------
(* What the replies have.                                                   *)

LEMMA FunctionIsSequence ==
  ASSUME NEW n \in Nat, NEW f, f = [k \in 1..n |-> f[k]]
  PROVE  IsSequence(f) /\ Len(f) = n
<1> DEFINE S == {f[k] : k \in DOMAIN f}
<1>1. f \in [1..n -> S] /\ DOMAIN f = 1..n
  OBVIOUS
<1> HIDE DEF S
<1>2. f \in Seq(S)
  BY <1>1
<1>3. Len(f) = n
  BY <1>1, <1>2
<1> QED BY <1>2, <1>3, SeqIsSequence

\* The entry at k was at p[k], and each has its place.
Places(p, t, s) ==
  /\ \A k \in DOMAIN s : p[k] \in DOMAIN s /\ t[k] = s[p[k]]
  /\ \A l \in DOMAIN s : \E k \in DOMAIN s : p[k] = l
  /\ \A k, l \in DOMAIN s : p[k] = p[l] => k = l

\* sort.Slice returns each entry of the slice in one place.
LEMMA ReorderedFrom ==
  ASSUME NEW s, NEW t, IsSequence(s), Reordered(t, s)
  PROVE  \E p : Places(p, t, s)
<1>1. PICK p \in Bijection(DOMAIN s, DOMAIN s) : t = [k \in DOMAIN s |-> s[p[k]]]
  BY DEF Reordered
<1>2. /\ p \in [DOMAIN s -> DOMAIN s]
      /\ \A l \in DOMAIN s : \E k \in DOMAIN s : p[k] = l
      /\ \A k, l \in DOMAIN s : p[k] = p[l] => k = l
  BY Permuted
<1>3. \A k \in DOMAIN s : p[k] \in DOMAIN s /\ t[k] = s[p[k]]
  BY <1>1, <1>2
<1>4. Places(p, t, s)
  BY <1>2, <1>3 DEF Places
<1> QED BY <1>4

LEMMA ReorderedFacts ==
  ASSUME NEW s, NEW t, IsSequence(s), Reordered(t, s)
  PROVE  IsSequence(t) /\ Len(t) = Len(s) /\ DOMAIN t = DOMAIN s /\ DOMAIN s = 1..Len(s)
<1>1. PICK p \in Bijection(DOMAIN s, DOMAIN s) : t = [k \in DOMAIN s |-> s[p[k]]]
  BY DEF Reordered
<1>2. DOMAIN s = 1..Len(s) /\ Len(s) \in Nat
  BY DEF IsSequence
<1>3. IsSequence(t) /\ Len(t) = Len(s) /\ DOMAIN t = DOMAIN s
  <2>1. t = [k \in 1..Len(s) |-> t[k]]
    BY <1>1, <1>2
  <2> QED BY <1>1, <1>2, <2>1, FunctionIsSequence
<1> QED BY <1>2, <1>3

\* Every tool with slots but the plan shows them as they are.
LEMMA SlotsAsTheyAre ==
  ASSUME FanInv, Replied(SlotTools \ {"service_graph", "upgrade_plan"})
  PROVE  Listed = results
<1>1. CASE tool = "dashboard"
  <2>1. ReplyRight /\ phase = "replied" /\ ~Refused
    BY DEF FanInv, Replied
  <2>2. out.list = results
    BY <1>1, <2>1 DEF ReplyRight
  <2> QED BY <1>1, <2>2 DEF Listed
<1>2. CASE tool # "dashboard"
  <2>1. tool \in PlainTools
    BY <1>2 DEF Replied, SlotTools, PlainTools
  <2> QED BY <1>2, <2>1 DEF FanInv, ReplyRight, Replied, Listed
<1> QED BY <1>1, <1>2

LEMMA CountsRight ==
  ASSUME FanInv, Replied({"dashboard"})
  PROVE  /\ out.healthy + out.errors = N
         /\ out.errors = Cardinality({k \in Services : got[k].err # ""})
<1>1. tool = "dashboard" /\ tool \in SlotTools /\ \A i \in Services : pc[i] = "done"
  BY DEF Replied, SlotTools, FanInv, ReplyRight
<1>2. DOMAIN results = Services /\ \A i \in Services : results[i].err = got[i].err
  BY <1>1 DEF FanInv, SlotsRight, SlotRight, OnServices
<1>3. Bad = {k \in Services : got[k].err # ""}
  BY <1>2 DEF Bad
<1>4. out.healthy = N - Cardinality(Bad) /\ out.errors = Cardinality(Bad)
  <2>1. ReplyRight /\ phase = "replied" /\ ~Refused
    BY DEF FanInv, Replied
  <2> QED BY <1>1, <2>1 DEF ReplyRight
<1>5. Cardinality(Bad) \in Nat
  <2>1. Bad \subseteq Services
    BY <1>2 DEF Bad
  <2> QED BY <2>1, ServiceFacts, FS_Subset, FS_CardinalityType
<1>6. out.errors = Cardinality({k \in Services : got[k].err # ""})
  BY <1>3, <1>4
<1>7. out.healthy + out.errors = N
  BY <1>4, <1>5, ServiceFacts
<1> QED BY <1>6, <1>7

LEMMA AllAnswered == FanInv => EveryServiceAnswered
<1> SUFFICES ASSUME FanInv, Replied(SlotTools \ {"service_graph"}) PROVE EveryServiceAnswered
  BY DEF EveryServiceAnswered
<1>1. /\ tool \in SlotTools /\ tool # "service_graph" /\ \A i \in Services : pc[i] = "done"
  BY DEF Replied, FanInv, ReplyRight
<1>2. /\ OnServices(results) /\ DOMAIN results = Services
      /\ \A i \in Services : /\ results[i].name = Names[i] /\ results[i].err = got[i].err
                             /\ results[i].latest = IF Learnt(i) THEN svc[i].latest.tag ELSE None
  BY <1>1 DEF FanInv, SlotsRight, SlotRight, OnServices
<1>3. IsSequence(results) /\ Len(results) = N
  <2>1. results = [i \in 1..N |-> results[i]]
    BY <1>2, ServiceFacts DEF OnServices
  <2> QED BY <2>1, ServiceFacts, FunctionIsSequence
<1>4. CASE tool = "upgrade_plan"
  <2>1. Reordered(out, results) /\ Listed = out
    BY <1>4 DEF FanInv, ReplyRight, Replied, SortTools, Listed
  <2>2. Len(out) = N /\ DOMAIN out = Services
    BY <1>2, <1>3, <2>1, ReorderedFacts
  <2>3. PICK p : Places(p, out, results)
    BY <1>3, <2>1, ReorderedFrom
  <2> USE DEF Places
  <2>4. ASSUME NEW i \in Services, NEW k \in EntryOf(i)
        PROVE  out[k] = results[i]
    <3>1. k \in Services /\ out[k].name = Names[i] /\ p[k] \in Services
      BY <1>2, <2>1, <2>2, <2>3, <2>4 DEF EntryOf
    <3>2. out[k] = results[p[k]]
      BY <1>2, <2>3, <3>1
    <3>3. Names[p[k]] = Names[i]
      BY <1>2, <3>1, <3>2
    <3>4. p[k] = i
      BY <3>1, <3>3, ServiceFacts
    <3> QED BY <3>2, <3>4
  <2>5. ASSUME NEW i \in Services PROVE EntryOf(i) # {}
    <3>1. PICK k \in Services : p[k] = i
      BY <1>2, <2>3
    <3>2. out[k].name = Names[i]
      BY <1>2, <2>3, <3>1
    <3> QED BY <2>1, <2>2, <3>2 DEF EntryOf
  <2> QED BY <1>2, <1>4, <2>1, <2>2, <2>4, <2>5 DEF EveryServiceAnswered, Learnt
<1>5. CASE tool # "upgrade_plan"
  <2>1. Listed = results
    BY <1>5, SlotsAsTheyAre DEF Replied
  <2>2. \A i \in Services : EntryOf(i) = {i}
    BY <1>2, <2>1, ServiceFacts DEF EntryOf
  <2>3. tool = "dashboard" => /\ out.healthy + out.errors = N
                              /\ out.errors = Cardinality({k \in Services : got[k].err # ""})
    BY CountsRight DEF Replied
  <2>4. ASSUME NEW i \in Services, NEW k \in EntryOf(i)
        PROVE  /\ Listed[k].err = got[i].err
               /\ Listed[k].latest = IF got[i].err = "" THEN svc[i].latest.tag ELSE None
    <3>1. k = i /\ Listed[k] = results[i]
      BY <2>1, <2>2, <2>4
    <3> QED BY <1>2, <3>1 DEF Learnt
  <2> QED BY <1>3, <1>5, <2>1, <2>2, <2>3, <2>4 DEF EveryServiceAnswered
<1> QED BY <1>4, <1>5

\* The lines of a slice are the ones each service has to offer.
Offers(t, D) ==
  /\ \A k \in DOMAIN t : \E i \in Services : \E n \in D[i] : t[k] = Line(i, n)
  /\ \A i \in Services : \A n \in D[i] : \E k \in DOMAIN t : t[k] = Line(i, n)

Offer == [i \in Services |-> IF Learnt(i) THEN Due(i) ELSE {}]

LEMMA OfferedLines ==
  ASSUME NEW t, NEW D, Offers(t, D), NEW i \in Services
  PROVE  {t[k].nth : k \in {l \in DOMAIN t : t[l].name = Names[i]}} = D[i]
<1>1. ASSUME NEW k \in DOMAIN t, t[k].name = Names[i] PROVE t[k].nth \in D[i]
  <2>1. PICK j \in Services : \E n \in D[j] : t[k] = Line(j, n)
    BY DEF Offers
  <2>2. PICK n \in D[j] : t[k] = Line(j, n)
    BY <2>1
  <2>3. t[k].name = Names[j] /\ t[k].nth = n
    BY <2>2 DEF Line
  <2>4. j = i
    BY <1>1, <2>3, ServiceFacts
  <2> QED BY <2>2, <2>3, <2>4
<1>2. ASSUME NEW n \in D[i] PROVE \E k \in DOMAIN t : t[k].name = Names[i] /\ t[k].nth = n
  <2>1. PICK k \in DOMAIN t : t[k] = Line(i, n)
    BY DEF Offers
  <2>2. t[k].name = Names[i] /\ t[k].nth = n
    BY <2>1 DEF Line
  <2> QED BY <2>2
<1> QED BY <1>1, <1>2

\* Newest first and appended up to the first old one: all the recent ones, and only those.
LEMMA AllRecent ==
  ASSUME FanInv, tool \in ListTools, \A i \in Services : pc[i] = "done"
  PROVE  Offers(results, Offer)
<1>1. Framed /\ RecentLines /\ \A i \in Services : PastRecent(i)
  BY DEF FanInv, RecentRight
<1>2. ASSUME NEW i \in Services PROVE Offer[i] = 1..file[i]
  <2> DEFINE list == svc[i].list
  <2>1. file[i] \in Nat /\ Cutoff \in Nat
    BY <1>1, ToolFanOutAssumption DEF Framed
  <2>2. Len(list) \in Nat /\ DOMAIN list = 1..Len(list) /\ \A k \in DOMAIN list : list[k] \in Nat
    <3>1. list \in Seq(Nat)
      BY <1>1, WorldFacts
    <3> QED BY <3>1
  <2>3. \A k, l \in DOMAIN list : k < l => list[k] >= list[l]
    BY <1>1, NewestFirst
  <2>4. PastRecent(i) /\ pc[i] = "done"
    BY <1>1
  <2>5. Due(i) = {k \in DOMAIN list : list[k] >= Cutoff}
    BY ToolKinds DEF Due
  <2>6. Offer[i] = IF Learnt(i) THEN Due(i) ELSE {}
    BY DEF Offer
  <2>7. CASE ~Learnt(i)
    <3>1. file[i] = 0
      BY <2>4, <2>7 DEF PastRecent
    <3> QED BY <2>6, <2>7, <3>1
  <2>8. CASE Learnt(i)
    <3>1. /\ file[i] <= Len(list) /\ \A n \in 1..file[i] : list[n] >= Cutoff
          /\ file[i] = Len(list) \/ list[file[i] + 1] < Cutoff
      BY <2>4, <2>8 DEF PastRecent
    <3> HIDE DEF list
    <3>2. ASSUME NEW k \in DOMAIN list, list[k] >= Cutoff PROVE k \in 1..file[i]
      <4>1. SUFFICES ASSUME k > file[i] PROVE FALSE
        BY <2>1, <2>2
      <4>2. list[file[i] + 1] < Cutoff /\ file[i] + 1 \in DOMAIN list
        BY <2>1, <2>2, <3>1, <4>1
      <4>3. k # file[i] + 1
        BY <2>1, <2>2, <3>2, <4>2
      <4>4. list[file[i] + 1] >= list[k]
        BY <2>1, <2>2, <2>3, <4>1, <4>2, <4>3
      <4> QED BY <2>1, <2>2, <3>2, <4>2, <4>4
    <3>3. ASSUME NEW k \in 1..file[i] PROVE k \in DOMAIN list /\ list[k] >= Cutoff
      BY <2>1, <2>2, <3>1
    <3> QED BY <2>5, <2>6, <2>8, <3>2, <3>3
  <2> QED BY <2>7, <2>8
<1>3. ASSUME NEW k \in DOMAIN results
      PROVE  \E i \in Services : \E n \in Offer[i] : results[k] = Line(i, n)
  <2>1. PICK i \in Services : \E n \in 1..file[i] : results[k] = Line(i, n)
    BY <1>1 DEF RecentLines
  <2> QED BY <1>2, <2>1
<1>4. ASSUME NEW i \in Services, NEW n \in Offer[i]
      PROVE  \E k \in DOMAIN results : results[k] = Line(i, n)
  <2>1. n \in 1..file[i]
    BY <1>2, <1>4
  <2> QED BY <1>1, <2>1 DEF RecentLines
<1> QED BY <1>3, <1>4 DEF Offers

LEMMA AllRows ==
  ASSUME FanInv, tool = "api_timeline"
  PROVE  /\ Offers(results, Offer)
         /\ \A k, l \in DOMAIN results : results[k] = results[l] => k = l
<1>1. HistoryRight /\ IsSequence(results)
  BY DEF FanInv, HistoryRight
<1>2. \A i \in Services : Offer[i] = IF Learnt(i) THEN Due(i) ELSE {}
  BY DEF Offer
<1>3. ASSUME NEW k \in DOMAIN results
      PROVE  \E i \in Services : \E n \in Offer[i] : results[k] = Line(i, n)
  <2>1. PICK i \in Services : \E n \in Due(i) : Learnt(i) /\ results[k] = Line(i, n)
    BY <1>1 DEF HistoryRight
  <2> QED BY <1>2, <2>1
<1>4. ASSUME NEW i \in Services, NEW n \in Offer[i]
      PROVE  \E k \in DOMAIN results : results[k] = Line(i, n)
  <2>1. Learnt(i) /\ n \in Due(i)
    BY <1>2, <1>4
  <2> QED BY <1>1, <2>1 DEF HistoryRight
<1>5. ASSUME NEW k \in DOMAIN results, NEW l \in DOMAIN results, results[k] = results[l], k < l
      PROVE  FALSE
  <2>1. PICK i \in Services : \E n \in Due(i) : results[k] = Line(i, n)
    BY <1>1 DEF HistoryRight
  <2>2. PICK n \in Due(i) : results[k] = Line(i, n)
    BY <2>1
  <2>3. i < i \/ (i = i /\ n > n)
    BY <1>1, <1>5, <2>2 DEF HistoryRight
  <2>4. n \in Nat /\ i \in Nat
    <3>1. Len(svc[i].rows) \in Nat /\ DOMAIN svc[i].rows = 1..Len(svc[i].rows)
      <4>1. svc[i].rows \in Seq(Nat)
        BY WorldFacts DEF FanInv
      <4> QED BY <4>1
    <3>2. Due(i) \subseteq DOMAIN svc[i].rows
      BY ToolKinds DEF Due
    <3> QED BY <2>2, <3>1, <3>2, ServiceFacts
  <2> QED BY <2>3, <2>4
<1>6. \A k \in DOMAIN results : k \in Int
  BY <1>1 DEF IsSequence
<1>7. \A k, l \in DOMAIN results : results[k] = results[l] => k = l
  BY <1>5, <1>6
<1> QED BY <1>3, <1>4, <1>7 DEF Offers

\* A slice that has been put in another order has the same lines.
LEMMA ReorderedOffers ==
  ASSUME NEW s, NEW t, NEW D, IsSequence(s), Reordered(t, s), Offers(s, D),
         \A k, l \in DOMAIN s : s[k] = s[l] => k = l
  PROVE  Offers(t, D) /\ \A k, l \in DOMAIN t : t[k] = t[l] => k = l
<1>1. PICK p : Places(p, t, s)
  BY ReorderedFrom
<1>2. DOMAIN t = DOMAIN s
  BY ReorderedFacts
<1>3. /\ \A k \in DOMAIN s : p[k] \in DOMAIN s /\ t[k] = s[p[k]]
      /\ \A l \in DOMAIN s : \E k \in DOMAIN s : p[k] = l
      /\ \A k, l \in DOMAIN s : p[k] = p[l] => k = l
  BY <1>1 DEF Places
<1>4. ASSUME NEW k \in DOMAIN t, NEW l \in DOMAIN t, t[k] = t[l] PROVE k = l
  <2>1. p[k] \in DOMAIN s /\ p[l] \in DOMAIN s /\ s[p[k]] = s[p[l]]
    BY <1>2, <1>3, <1>4
  <2>2. p[k] = p[l]
    BY <2>1
  <2> QED BY <1>2, <1>3, <2>2
<1>5. ASSUME NEW k \in DOMAIN t PROVE \E i \in Services : \E n \in D[i] : t[k] = Line(i, n)
  <2>1. p[k] \in DOMAIN s /\ t[k] = s[p[k]]
    BY <1>2, <1>3
  <2>2. \E i \in Services : \E n \in D[i] : s[p[k]] = Line(i, n)
    BY <2>1 DEF Offers
  <2> QED BY <2>1, <2>2
<1>6. ASSUME NEW i \in Services, NEW n \in D[i] PROVE \E k \in DOMAIN t : t[k] = Line(i, n)
  <2>1. PICK l \in DOMAIN s : s[l] = Line(i, n)
    BY DEF Offers
  <2>2. PICK k \in DOMAIN s : p[k] = l
    BY <1>3
  <2> QED BY <1>2, <1>3, <2>1, <2>2
<1> QED BY <1>4, <1>5, <1>6 DEF Offers

LEMMA NothingLost == FanInv => NothingLostOrDoubled
<1> SUFFICES ASSUME FanInv PROVE NothingLostOrDoubled
  OBVIOUS
<1>1. ASSUME Replied(ListTools \cup {"api_timeline"})
      PROVE  /\ \A i \in Services :
                  {out[k].nth : k \in EntryOf(i)} = IF got[i].err = "" THEN Due(i) ELSE {}
             /\ \A k, l \in DOMAIN out : out[k] = out[l] => k = l
  <2>1. Offers(out, Offer) /\ \A k, l \in DOMAIN out : out[k] = out[l] => k = l
    <3>1. CASE tool \in ListTools
      <4>1. Reordered(out, results) /\ \A i \in Services : pc[i] = "done"
        BY <1>1, <3>1 DEF Replied, FanInv, ReplyRight, SortTools
      <4>2. Offers(results, Offer)
        BY <3>1, <4>1, AllRecent
      <4>3. IsSequence(results) /\ \A k, l \in DOMAIN results : results[k] = results[l] => k = l
        BY <3>1 DEF FanInv, RecentRight, RecentLines
      <4> QED BY <4>1, <4>2, <4>3, ReorderedOffers
    <3>2. CASE tool = "api_timeline"
      <4>1. out = results
        BY <1>1, <3>2 DEF Replied, FanInv, ReplyRight, PlainTools
      <4> QED BY <3>2, <4>1, AllRows
    <3> QED BY <1>1, <3>1, <3>2 DEF Replied
  <2>2. Listed = out
    BY <1>1 DEF Replied, Listed, ListTools
  <2>3. ASSUME NEW i \in Services
        PROVE  {out[k].nth : k \in EntryOf(i)} = IF got[i].err = "" THEN Due(i) ELSE {}
    <3>1. {out[k].nth : k \in {l \in DOMAIN out : out[l].name = Names[i]}} = Offer[i]
      BY <2>1, OfferedLines
    <3>2. Offer[i] = IF got[i].err = "" THEN Due(i) ELSE {}
      BY DEF Offer, Learnt
    <3>3. EntryOf(i) = {l \in DOMAIN out : out[l].name = Names[i]}
      BY <2>2 DEF EntryOf
    <3> QED BY <3>1, <3>2, <3>3
  <2> QED BY <2>1, <2>3
<1>2. ASSUME Replied({"dependency_matrix"}), NEW i \in Services
      PROVE  Cardinality(EntryOf(i)) = IF got[i].err = "no dependency file found" THEN 0 ELSE 1
  <2>1. /\ Reordered(out, results) /\ Listed = out
        /\ \A j \in Services : pc[j] = "done" /\ InMatrix(j) = (got[j].err # NoFile)
    BY <1>2 DEF Replied, FanInv, ReplyRight, SortTools, Listed, InMatrix
  <2>2. /\ IsSequence(results)
        /\ \A k \in DOMAIN results : \E j \in Services : InMatrix(j) /\ results[k].name = Names[j]
        /\ \A j \in Services : InMatrix(j) => \E k \in DOMAIN results : results[k].name = Names[j]
        /\ \A k, l \in DOMAIN results : results[k].name = results[l].name => k = l
    BY <1>2 DEF Replied, FanInv, MatrixRight
  <2>3. PICK p : Places(p, out, results)
    BY <2>1, <2>2, ReorderedFrom
  <2>4. /\ DOMAIN out = DOMAIN results
        /\ \A k \in DOMAIN results : p[k] \in DOMAIN results /\ out[k] = results[p[k]]
        /\ \A l \in DOMAIN results : \E k \in DOMAIN results : p[k] = l
        /\ \A k, l \in DOMAIN results : p[k] = p[l] => k = l
    BY <2>1, <2>2, <2>3, ReorderedFacts DEF Places
  <2>5. EntryOf(i) = {k \in DOMAIN results : results[p[k]].name = Names[i]}
    BY <2>1, <2>4 DEF EntryOf
  <2>6. CASE got[i].err = NoFile
    <3>1. ASSUME NEW k \in DOMAIN results PROVE results[p[k]].name # Names[i]
      <4>1. PICK j \in Services : InMatrix(j) /\ results[p[k]].name = Names[j]
        BY <2>2, <2>4
      <4>2. j # i
        BY <2>1, <2>6, <4>1
      <4> QED BY <4>1, <4>2, ServiceFacts
    <3>2. EntryOf(i) = {}
      BY <2>5, <3>1
    <3> QED BY <2>6, <3>2, FS_EmptySet DEF NoFile
  <2>7. CASE got[i].err # NoFile
    <3>1. PICK l \in DOMAIN results : results[l].name = Names[i]
      BY <2>1, <2>2, <2>7
    <3>2. PICK k \in DOMAIN results : p[k] = l
      BY <2>4
    <3>3. ASSUME NEW m \in DOMAIN results, results[p[m]].name = Names[i] PROVE m = k
      <4>1. p[m] \in DOMAIN results
        BY <2>4
      <4>2. results[p[m]].name = results[l].name
        BY <3>1, <3>3
      <4>3. p[m] = l
        BY <2>2, <4>1, <4>2
      <4> QED BY <2>4, <3>2, <4>3
    <3>4. EntryOf(i) = {k}
      BY <2>5, <3>1, <3>2, <3>3
    <3> QED BY <2>7, <3>4, FS_Singleton DEF NoFile
  <2> QED BY <2>6, <2>7
<1> QED BY <1>1, <1>2 DEF NothingLostOrDoubled

\* What the sorted reply of a collecting tool has for dates.
LEMMA DatesAreNumbers ==
  ASSUME FanInv, Replied(ListTools)
  PROVE  \A k \in DOMAIN out : out[k].date \in Nat
<1>1. /\ tool \in ListTools /\ Reordered(out, results) /\ RecentLines /\ IsSequence(results)
      /\ \A i \in Services : PastRecent(i)
      /\ Framed
  BY DEF Replied, FanInv, ReplyRight, SortTools, RecentRight, RecentLines
<1>2. \A k \in DOMAIN results : results[k].date \in Nat
  <2> SUFFICES ASSUME NEW k \in DOMAIN results PROVE results[k].date \in Nat
    OBVIOUS
  <2>1. PICK i \in Services : \E n \in 1..file[i] : results[k] = Line(i, n)
    BY <1>1 DEF RecentLines
  <2>2. PICK n \in 1..file[i] : results[k] = Line(i, n)
    BY <2>1
  <2>3. svc[i].list \in Seq(Nat) /\ Len(svc[i].list) \in Nat /\ file[i] \in Nat
        /\ file[i] <= Len(svc[i].list)
    BY <1>1, WorldFacts DEF PastRecent, Framed
  <2>4. results[k].date = svc[i].list[n]
    BY <1>1, <2>2 DEF Line, Rows
  <2> QED BY <2>2, <2>3, <2>4
<1>3. PICK p : Places(p, out, results)
  BY <1>1, ReorderedFrom
<1>4. DOMAIN out = DOMAIN results
  BY <1>1, ReorderedFacts
<1> QED BY <1>2, <1>3, <1>4 DEF Places

LEMMA MatrixInOrder ==
  ASSUME FanInv, Replied({"dependency_matrix"}),
         NEW k \in DOMAIN out, NEW l \in DOMAIN out, k < l
  PROVE  out[k].name < out[l].name
<1>1. /\ tool = "dependency_matrix" /\ Reordered(out, results) /\ IsSequence(results)
      /\ ~Before(out[l], out[k])
      /\ \A m \in DOMAIN results : \E j \in Services : InMatrix(j) /\ results[m].name = Names[j]
      /\ \A m, n \in DOMAIN results : results[m].name = results[n].name => m = n
  BY DEF Replied, FanInv, ReplyRight, SortTools, MatrixRight
<1>2. PICK p : Places(p, out, results)
  BY <1>1, ReorderedFrom
<1>3. DOMAIN out = DOMAIN results /\ DOMAIN results = 1..Len(results) /\ Len(results) \in Nat
  <2>1. Len(results) \in Nat
    BY <1>1 DEF IsSequence
  <2> QED BY <1>1, <2>1, ReorderedFacts
<1>4. /\ p[k] \in DOMAIN results /\ out[k] = results[p[k]]
      /\ p[l] \in DOMAIN results /\ out[l] = results[p[l]]
      /\ p[k] # p[l]
  <2>1. k \in DOMAIN results /\ l \in DOMAIN results /\ k # l
    BY <1>3
  <2> QED BY <1>2, <2>1 DEF Places
<1>5. out[k].name # out[l].name
  BY <1>1, <1>4
<1>6. out[k].name \in Nat /\ out[l].name \in Nat
  BY <1>1, <1>4, ServiceFacts
<1>7. ~(out[l].name < out[k].name)
  BY <1>1 DEF Before, NameBefore
<1> QED BY <1>5, <1>6, <1>7

Urgency == {"", "critical", "high", "medium", "low"}

LEMMA RankedUrgencies ==
  ASSUME NEW q \in Urgency, NEW r \in Urgency, ~(Rank(r) < Rank(q))
  PROVE  /\ r = "critical" => q \in {"critical", ""}
         /\ r = "" => q \in {"critical", ""}
         /\ q = "low" => r = "low"
<1>1. /\ Rank("") = 0 /\ Rank("critical") = 0 /\ Rank("high") = 1
      /\ Rank("medium") = 2 /\ Rank("low") = 3
  BY DEF Rank
<1>2. q \notin {"critical", ""} => Rank(q) \in {1, 2, 3}
  BY <1>1 DEF Urgency
<1>3. r \in {"critical", ""} => Rank(r) = 0
  BY <1>1
<1>4. r # "low" => Rank(r) \in {0, 1, 2}
  BY <1>1 DEF Urgency
<1>5. q = "low" => Rank(q) = 3
  BY <1>1
<1>6. ASSUME r \in {"critical", ""}, q \notin {"critical", ""} PROVE FALSE
  <2>1. Rank(r) = 0 /\ Rank(q) \in {1, 2, 3}
    BY <1>2, <1>3, <1>6
  <2> QED BY <2>1
<1>7. q = "low" => r = "low"
  BY <1>4, <1>5
<1> QED BY <1>6, <1>7

LEMMA PlanInOrder ==
  ASSUME FanInv, Replied({"upgrade_plan"}),
         NEW k \in DOMAIN out, NEW l \in DOMAIN out, k < l
  PROVE  /\ out[l].priority = "critical" => out[k].priority \in {"critical", ""}
         /\ out[l].priority = "" => out[k].priority \in {"critical", ""}
         /\ out[k].priority = "low" => out[l].priority = "low"
         /\ out[l].priority = out[k].priority => out[k].date <= out[l].date
<1>1. /\ tool = "upgrade_plan" /\ tool \in SlotTools
      /\ Reordered(out, results) /\ ~Before(out[l], out[k])
      /\ \A i \in Services : pc[i] = "done"
  BY DEF Replied, FanInv, ReplyRight, SortTools, SlotTools
<1>2. /\ DOMAIN results = Services
      /\ \A i \in Services : results[i].priority \in Urgency /\ results[i].date \in Nat
      /\ OnServices(results)
  BY <1>1 DEF FanInv, SlotsRight, SlotRight, OnServices, Urgency
<1>3. IsSequence(results)
  <2>1. results = [i \in 1..N |-> results[i]]
    BY <1>2, ServiceFacts DEF OnServices
  <2> QED BY <2>1, ServiceFacts, FunctionIsSequence
<1>4. PICK p : Places(p, out, results)
  BY <1>1, <1>3, ReorderedFrom
<1>5. DOMAIN out = DOMAIN results
  BY <1>1, <1>3, ReorderedFacts
<1>6. /\ out[k].priority \in Urgency /\ out[k].date \in Nat
      /\ out[l].priority \in Urgency /\ out[l].date \in Nat
  <2>1. k \in Services /\ l \in Services
    BY <1>2, <1>5
  <2>2. /\ p[k] \in Services /\ out[k] = results[p[k]]
        /\ p[l] \in Services /\ out[l] = results[p[l]]
    BY <1>2, <1>4, <2>1 DEF Places
  <2> QED BY <1>2, <2>2
<1>7. /\ ~(Rank(out[l].priority) < Rank(out[k].priority))
      /\ ~(Rank(out[l].priority) = Rank(out[k].priority) /\ out[l].date < out[k].date)
  BY <1>1 DEF Before, MoreUrgent
<1>8. ASSUME out[l].priority = out[k].priority PROVE out[k].date <= out[l].date
  <2>1. Rank(out[l].priority) = Rank(out[k].priority)
    BY <1>8
  <2>2. ~(out[l].date < out[k].date)
    BY <1>7, <2>1
  <2> QED BY <1>6, <2>2
<1> QED BY <1>6, <1>7, <1>8, RankedUrgencies

LEMMA RepliesInOrder == FanInv => InOrder
<1> SUFFICES ASSUME FanInv PROVE InOrder
  OBVIOUS
<1>1. ASSUME Replied({"timeline"}), NEW k \in DOMAIN out, NEW l \in DOMAIN out, k < l
      PROVE  out[k].date >= out[l].date
  <2>1. tool = "timeline" /\ Replied(ListTools)
    BY <1>1 DEF Replied, ListTools
  <2>2. ~(out[l].date > out[k].date)
    BY <1>1, <2>1 DEF Replied, FanInv, ReplyRight, SortTools, ListTools, Before, Newer
  <2> QED BY <2>1, <2>2, DatesAreNumbers
<1>2. ASSUME Replied({"release_timeline"}), NEW k \in DOMAIN out, NEW l \in DOMAIN out, k < l
      PROVE  Printed(out[k].date) >= Printed(out[l].date)
  <2>1. tool = "release_timeline" /\ Replied(ListTools)
    BY <1>2 DEF Replied, ListTools
  <2>2. ~(Printed(out[l].date) > Printed(out[k].date))
    BY <1>2, <2>1 DEF Replied, FanInv, ReplyRight, SortTools, ListTools, Before, NewerPrinted
  <2>3. Printed(out[k].date) \in Nat /\ Printed(out[l].date) \in Nat
    BY <2>1, DatesAreNumbers, PrintedNat
  <2> QED BY <2>2, <2>3
<1> QED BY <1>1, <1>2, MatrixInOrder, PlanInOrder DEF InOrder

\* Whatever fails and in whatever order the goroutines run, the tools with slots answer
\* for every service, once, with what its own goroutine was answered (tools.go, "results
\* [idx] = entry"), for any number of services.
THEOREM AllServicesAnswered == CallSpec => []EveryServiceAnswered
BY Collecting, AllAnswered, PTL

\* Concurrent appends under the mutex neither lose nor double a release, a row or a
\* service, for any lists and any cutoff: the loop may stop at the first old release only
\* because "Releases are newest-first".
THEOREM NoneLostOrDoubled == CallSpec => []NothingLostOrDoubled
BY Collecting, NothingLost, PTL

\* The sorted replies are in the order that the tools promise, however the appends interleaved
\* (tools_extended.go, "critical > high > medium > low").
THEOREM AlwaysInOrder == CallSpec => []InOrder
BY Collecting, RepliesInOrder, PTL

-----------------------------------------------------------------------------
(* The tools that compare two versions.                                     *)

CallFields == {"pc", "asked", "reply", "to", "from", "list", "log", "since"}

\* What a call has learnt so far; changelog_between_versions is told both versions.
DiffInv ==
  /\ DOMAIN call = CallFields
  /\ released \in Nat /\ call.since \in Nat /\ call.since <= released
  /\ cached["latest"] \in 0..released /\ cached["list"] \in 0..released
  /\ call.pc # "done" => call.reply = "none"
  /\ tool \in DiffTools => running \in Version
  /\ tool \notin DiffTools => call.reply = "none"
  /\ tool = "changelog_between_versions" =>
       call.pc # "ask" /\ call.reply # "up to date" /\ call.from \in Version
  /\ tool \in {"release_diff", "diff"} =>
       /\ call.from \in {None, running}
       /\ call.pc = "list" => call.from # None
       /\ \/ call.to = None
          \/ \E n \in 0..released : /\ call.to = ReleaseTag(n)
                                    /\ tool = "diff" => call.since <= n
  /\ call.reply = "up to date" => call.to # None /\ call.from = call.to
  /\ ChangelogSpansTheGap

LEMMA DiffInit == DInit => DiffInv
<1> SUFFICES ASSUME DInit PROVE DiffInv
  OBVIOUS
<1>1. /\ NoCall.pc = "done" /\ NoCall.reply = "none" /\ NoCall.to = None /\ NoCall.from = None
      /\ NoCall.since = 0 /\ DOMAIN NoCall = CallFields
  BY DEF NoCall, CallFields
<1>2. Empty["latest"] = 0 /\ Empty["list"] = 0
  BY DEF Empty
<1>3. "changelog" # "none"
  OBVIOUS
<1>4. CASE tool \notin DiffTools
  <2>1. released = 1 /\ cached = Empty /\ call = NoCall
    BY <1>4 DEF DInit
  <2>2. tool # "changelog_between_versions" /\ tool \notin {"release_diff", "diff"}
    BY <1>4 DEF DiffTools
  <2>3. /\ DOMAIN call = CallFields /\ call.reply = "none" /\ call.since = 0
        /\ call.pc = "done"
    BY <1>1, <2>1
  <2>4. cached["latest"] \in 0..released /\ cached["list"] \in 0..released
    BY <1>2, <2>1
  <2> QED BY <1>4, <2>1, <2>2, <2>3, <2>4 DEF DiffInv, ChangelogSpansTheGap
<1>5. CASE tool \in DiffTools
  <2>1. /\ released \in Nat /\ running \in Version
        /\ cached["latest"] \in 0..released /\ cached["list"] \in 0..released
    <3>1. released \in Nat
      BY <1>5 DEF DInit
    <3>2. cached["latest"] \in 0..released /\ cached["list"] \in 0..released
      BY <1>2, <1>5, <3>1 DEF DInit
    <3>3. running \in Version
      <4>1. CASE tool = "changelog_between_versions"
        <5>1. running = ReleaseTag(1) /\ prefixed \in BOOLEAN
          BY <1>5, <4>1 DEF DInit
        <5>2. 1 \in 0..MaxReleases
          BY ReleaseDiffAssumption
        <5> QED BY <5>1, <5>2 DEF ReleaseTag, Version
      <4>2. CASE tool # "changelog_between_versions"
        BY <1>5, <4>2 DEF DInit
      <4> QED BY <4>1, <4>2
    <3> QED BY <3>1, <3>2, <3>3
  <2>2. CASE tool = "changelog_between_versions"
    <3>1. PICK to \in Version, from \in Version : call = Asked(to, from)
      BY <1>5, <2>2 DEF DInit
    <3>2. /\ call.pc = "list" /\ call.from = from /\ call.reply = "none" /\ call.since = 0
          /\ DOMAIN call = CallFields
      BY <3>1 DEF Asked, NoCall, CallFields
    <3> QED BY <1>5, <2>1, <2>2, <3>2 DEF DiffInv, ChangelogSpansTheGap
  <2>3. CASE tool # "changelog_between_versions"
    <3>1. call = [NoCall EXCEPT !.pc = "ask", !.since = released]
      BY <1>5, <2>3 DEF DInit
    <3>2. /\ call.pc = "ask" /\ call.from = None /\ call.to = None /\ call.reply = "none"
          /\ call.since = released /\ DOMAIN call = CallFields
      BY <3>1 DEF NoCall, CallFields
    <3> QED BY <1>5, <2>1, <2>3, <3>2 DEF DiffInv, ChangelogSpansTheGap
  <2> QED BY <2>2, <2>3
<1> QED BY <1>4, <1>5

LEMMA SameTool == [CallNext]_<<vars, dvars>> => UNCHANGED tool
<1>1. ASSUME Handler PROVE UNCHANGED tool
  BY <1>1 DEF Handler, Begin, SortAndReply, CountAndReply, PlainReply, Replies, Share, PairUp,
              GraphReply
<1>2. ASSUME NEW i \in Services, Goroutine(i) PROVE UNCHANGED tool
  <2>1. CASE Ask(i)
    BY <2>1 DEF Ask, Reject, Request, TryFile, Learns
  <2>2. CASE ReleaseTimeline(i) \/ TimelineCommand(i)
    BY <2>2 DEF ReleaseTimeline, TimelineCommand, CollectRecent, AppendAll
  <2>3. CASE DependencyMatrix(i) \/ GetTimeline(i)
    BY <2>3 DEF DependencyMatrix, GetTimeline, AppendAll
  <2>4. CASE \/ CheckServices(i) \/ FindOutdated(i) \/ ListServices(i) \/ Dashboard(i)
             \/ CheckCommand(i) \/ CompareReleaseVsDeployed(i) \/ UpgradePlan(i) \/ ServiceGraph(i)
    BY <2>4 DEF CheckServices, FindOutdated, ListServices, Dashboard, CheckCommand,
                CompareReleaseVsDeployed, UpgradePlan, ServiceGraph, Slot
  <2> QED BY <1>2, <2>1, <2>2, <2>3, <2>4 DEF Goroutine
<1> QED BY <1>1, <1>2 DEF CallNext, Next, vars

\* SelectInSeq: the first place that passes, or 0.
LEMMA FirstPlace ==
  ASSUME NEW n \in Nat, NEW P, P \subseteq 1..n, NEW k \in P, \A l \in P : k <= l
  PROVE  (IF P # {} THEN SeqExt!Min(P) ELSE 0) = k
<1> DEFINE m == SeqExt!Min(P)
<1>1. m \in P /\ \A l \in P : m <= l
  BY DEF SeqExt!Min
<1> HIDE DEF m
<1>2. m \in 1..n /\ k \in 1..n
  BY <1>1
<1>3. m <= k /\ k <= m
  BY <1>1
<1>4. m = k
  BY <1>2, <1>3
<1> QED BY <1>4 DEF m

LEMMA ListFacts ==
  ASSUME NEW n \in Nat
  PROVE  /\ Len(ListOf(n)) = n /\ DOMAIN ListOf(n) = 1..n
         /\ \A k \in 1..n : ListOf(n)[k] = ReleaseTag(n + 1 - k)
         /\ IsSequence(ListOf(n))
<1>1. ListOf(n) = [k \in 1..n |-> ReleaseTag(n + 1 - k)]
  BY DEF ListOf
<1>2. DOMAIN ListOf(n) = 1..n /\ \A k \in 1..n : ListOf(n)[k] = ReleaseTag(n + 1 - k)
  BY <1>1
<1>3. ListOf(n) = [k \in 1..n |-> ListOf(n)[k]]
  BY <1>1, <1>2
<1>4. IsSequence(ListOf(n)) /\ Len(ListOf(n)) = n
  BY <1>3, FunctionIsSequence
<1> QED BY <1>2, <1>4

LEMMA SubSeqFacts ==
  ASSUME NEW s, IsSequence(s), NEW a \in 1..Len(s), NEW b \in a..Len(s)
  PROVE  SubSeq(s, a, b) = [k \in 1..(b - a + 1) |-> s[a + k - 1]]
BY DEF IsSequence

\* Only a release with the number of the deployed one ends a changelog.
LEMMA StopsAt ==
  ASSUME NEW m \in Nat, call.from \in Version, Stops(ReleaseTag(m))
  PROVE  m = call.from.n
<1>1. call.from \in {ReleaseTag(m), [ReleaseTag(m) EXCEPT !.v = FALSE]}
  BY DEF Stops, UpToDate
<1>2. ReleaseTag(m).n = m /\ [ReleaseTag(m) EXCEPT !.v = FALSE].n = m
  BY DEF ReleaseTag
<1> QED BY <1>1, <1>2

Known == call.from.n > 0 /\ Stops(ReleaseTag(call.from.n))

\* The two places that Between looks for.
LEMMA PlaceOfTo ==
  ASSUME NEW n \in Nat, NEW m \in 1..n
  PROVE  SeqExt!SelectInSeq(ListOf(n), LAMBDA t : t = ReleaseTag(m)) = n + 1 - m
<1> DEFINE P == {k \in 1..Len(ListOf(n)) : ListOf(n)[k] = ReleaseTag(m)}
<1>1. ASSUME NEW k \in 1..n PROVE ListOf(n)[k] = ReleaseTag(m) <=> k = n + 1 - m
  <2>1. ListOf(n)[k] = ReleaseTag(n + 1 - k)
    BY ListFacts
  <2>2. ReleaseTag(n + 1 - k).n = n + 1 - k /\ ReleaseTag(m).n = m
    BY DEF ReleaseTag
  <2>3. n + 1 - k = m <=> k = n + 1 - m
    OBVIOUS
  <2>4. CASE n + 1 - k = m
    BY <2>1, <2>3, <2>4
  <2>5. CASE n + 1 - k # m
    BY <2>1, <2>2, <2>3, <2>5
  <2> QED BY <2>4, <2>5
<1>2. P \subseteq 1..n /\ n + 1 - m \in P /\ \A l \in P : n + 1 - m <= l
  BY <1>1, ListFacts
<1>3. (IF P # {} THEN SeqExt!Min(P) ELSE 0) = n + 1 - m
  <2> HIDE DEF P
  <2> QED BY <1>2, FirstPlace
<1> QED BY <1>3 DEF SeqExt!SelectInSeq

LEMMA PlaceOfStop ==
  ASSUME NEW n \in Nat, call.from \in Version, call.from.n <= n
  PROVE  SeqExt!SelectInSeq(ListOf(n), Stops) = IF Known THEN n + 1 - call.from.n ELSE 0
<1> DEFINE P == {k \in 1..Len(ListOf(n)) : Stops(ListOf(n)[k])}
<1>1. call.from.n \in Nat
  BY DEF Version
<1>2. ASSUME NEW k \in 1..n, Stops(ListOf(n)[k]) PROVE Known /\ k = n + 1 - call.from.n
  <2>1. ListOf(n)[k] = ReleaseTag(n + 1 - k) /\ n + 1 - k \in Nat /\ n + 1 - k > 0
    BY ListFacts
  <2>2. n + 1 - k = call.from.n
    BY <1>2, <2>1, StopsAt
  <2>3. Known
    BY <1>2, <2>1, <2>2 DEF Known
  <2> QED BY <1>1, <2>2, <2>3
<1>3. P \subseteq 1..n
  BY ListFacts
<1>4. CASE Known
  <2>1. n + 1 - call.from.n \in 1..n /\ n + 1 - (n + 1 - call.from.n) = call.from.n
    BY <1>1, <1>4 DEF Known
  <2>2. Stops(ListOf(n)[n + 1 - call.from.n])
    BY <1>4, <2>1, ListFacts DEF Known
  <2>3. Len(ListOf(n)) = n
    BY ListFacts
  <2>4. n + 1 - call.from.n \in P
    BY <2>1, <2>2, <2>3
  <2>5. ASSUME NEW l \in P PROVE n + 1 - call.from.n <= l
    <3>1. l = n + 1 - call.from.n
      BY <1>2, <2>3
    <3> QED BY <1>1, <3>1
  <2>6. (IF P # {} THEN SeqExt!Min(P) ELSE 0) = n + 1 - call.from.n
    <3> HIDE DEF P
    <3> QED BY <1>3, <2>4, <2>5, FirstPlace
  <2> QED BY <1>4, <2>6 DEF SeqExt!SelectInSeq
<1>5. CASE ~Known
  <2>1. P = {}
    BY <1>2, <1>5, ListFacts
  <2> QED BY <1>5, <2>1 DEF SeqExt!SelectInSeq
<1> QED BY <1>4, <1>5

LEMMA BetweenSpans ==
  ASSUME NEW n \in Nat, call.from \in Version, NEW m \in 1..n, call.to = ReleaseTag(m),
         call.from.n <= m
  PROVE  Between(ListOf(n), call.to)
         = [k \in 1..(m + 1 - (IF Known THEN call.from.n ELSE 1)) |-> ReleaseTag(m + 1 - k)]
<1> DEFINE first == SeqExt!SelectInSeq(ListOf(n), LAMBDA t : t = ReleaseTag(m))
           stop == SeqExt!SelectInSeq(ListOf(n), Stops)
           end == IF stop = 0 THEN Len(ListOf(n)) ELSE stop
           last == IF Known THEN call.from.n ELSE 1
<1>1. call.from.n \in Nat
  BY DEF Version
<1>2. first = n + 1 - m
  BY PlaceOfTo
<1>3. stop = IF Known THEN n + 1 - call.from.n ELSE 0
  BY <1>1, PlaceOfStop
<1>4. Between(ListOf(n), call.to)
      = IF first = 0 \/ stop \in 1..(first - 1) THEN <<>> ELSE SubSeq(ListOf(n), first, end)
  BY DEF Between
<1>5. last \in 1..m
  BY <1>1 DEF Known
<1>6. Len(ListOf(n)) = n
  BY ListFacts
<1> HIDE DEF first, stop
<1>7. end = n + 1 - last /\ ~(first = 0 \/ stop \in 1..(first - 1))
  BY <1>1, <1>2, <1>3, <1>5, <1>6 DEF Known
<1>8. Between(ListOf(n), call.to) = SubSeq(ListOf(n), first, end)
  BY <1>4, <1>7
<1> HIDE DEF last, end
<1>9. first \in 1..Len(ListOf(n)) /\ end \in first..Len(ListOf(n)) /\ end - first + 1 = m + 1 - last
  BY <1>2, <1>5, <1>6, <1>7
<1>10. SubSeq(ListOf(n), first, end)
       = [k \in 1..(m + 1 - last) |-> ListOf(n)[first + k - 1]]
  BY <1>9, ListFacts, SubSeqFacts
<1>11. ASSUME NEW k \in 1..(m + 1 - last)
       PROVE  ListOf(n)[first + k - 1] = ReleaseTag(m + 1 - k)
  <2>1. first + k - 1 \in 1..n /\ n + 1 - (first + k - 1) = m + 1 - k
    BY <1>2, <1>5
  <2> QED BY <2>1, ListFacts
<1>12. Between(ListOf(n), call.to) = [k \in 1..(m + 1 - last) |-> ReleaseTag(m + 1 - k)]
  BY <1>8, <1>10, <1>11
<1> QED BY <1>12 DEF last

\* How a call's record changes.
LEMMA EndsFacts ==
  ASSUME NEW r, DOMAIN call = CallFields, Ends(r)
  PROVE  /\ call'.pc = "done" /\ call'.reply = r /\ DOMAIN call' = CallFields
         /\ call'.to = call.to /\ call'.from = call.from /\ call'.since = call.since
         /\ UNCHANGED <<released, prefixed, cached, running>>
BY DEF Ends, Goes, CallFields

LEMMA AskFacts ==
  ASSUME NEW key, NEW field \in {"to", "from"}, NEW v, DOMAIN call = CallFields,
         Goes([call EXCEPT !.asked = @ \cup {key}, ![field] = v])
  PROVE  /\ call'.pc = call.pc /\ call'.reply = call.reply /\ call'.since = call.since
         /\ call'[field] = v /\ DOMAIN call' = CallFields
         /\ field = "to" => call'.from = call.from
         /\ field = "from" => call'.to = call.to
         /\ UNCHANGED <<released, prefixed, cached, running>>
BY DEF Goes, CallFields

LEMMA NoAnswerFacts ==
  ASSUME NEW key, DOMAIN call = CallFields, Goes([call EXCEPT !.asked = @ \cup {key}])
  PROVE  /\ call'.pc = call.pc /\ call'.reply = call.reply /\ call'.since = call.since
         /\ call'.to = call.to /\ call'.from = call.from /\ DOMAIN call' = CallFields
         /\ UNCHANGED <<released, prefixed, cached, running>>
BY DEF Goes, CallFields

LEMMA ListFieldFacts ==
  ASSUME NEW n, DOMAIN call = CallFields, Goes(Listing(n))
  PROVE  /\ call'.pc = "done" /\ call'.reply = "changelog" /\ call'.since = call.since
         /\ call'.list = n /\ call'.log = Between(ListOf(n), call.to)
         /\ call'.to = call.to /\ call'.from = call.from /\ DOMAIN call' = CallFields
         /\ UNCHANGED <<released, prefixed, cached, running>>
<1> DEFINE b == Between(ListOf(n), call.to)
<1>1. call' = [call EXCEPT !.pc = "done", !.reply = "changelog", !.list = n, !.log = b]
  BY DEF Goes, Listing
<1>2. UNCHANGED <<released, prefixed, cached, running>>
  BY DEF Goes
<1> HIDE DEF b
<1>3. /\ call'.pc = "done" /\ call'.reply = "changelog" /\ call'.since = call.since
      /\ call'.list = n /\ call'.log = b
      /\ call'.to = call.to /\ call'.from = call.from /\ DOMAIN call' = CallFields
  BY <1>1 DEF CallFields
<1> QED BY <1>2, <1>3 DEF b

\* What a cache gives is never newer than the service; a command has none.
LEMMA AnswersFacts ==
  ASSUME DiffInv, NEW key \in {"latest", "list"}, NEW n \in Answers(key)
  PROVE  n \in 0..released /\ n \in Nat /\ (tool = "diff" => n = released)
<1>1. released \in Nat /\ cached[key] \in 0..released
  BY DEF DiffInv
<1>2. n = released \/ (tool # "diff" /\ n = cached[key])
  BY DEF Answers
<1> QED BY <1>1, <1>2

\* A step that ends with the changelog of the gap.
LEMMA SpansGap ==
  ASSUME NEW n, NEW log, UNCHANGED <<tool, prefixed>>,
         call'.to = call.to, call'.from = call.from, call'.list = n, call'.log = log,
         call.to.n \in 1..n /\ call.to = ReleaseTag(call.to.n) /\ call.from.n <= call.to.n
         => log = [k \in 1..(call.to.n + 1 - (IF Known THEN call.from.n ELSE 1))
                     |-> ReleaseTag(call.to.n + 1 - k)]
  PROVE  ChangelogSpansTheGap'
<1>1. ASSUME NEW m PROVE ReleaseTag(m)' = ReleaseTag(m)
  BY DEF ReleaseTag
<1>2. Known' <=> Known
  BY DEF Known, Stops, UpToDate, ReleaseTag
<1> USE <1>1, <1>2
<1> QED BY DEF ChangelogSpansTheGap, Known

\* A step that does not end with a changelog leaves nothing to show of it.
LEMMA NoChangelog == call'.reply # "changelog" => ChangelogSpansTheGap'
BY DEF ChangelogSpansTheGap

LEMMA SameGap ==
  ChangelogSpansTheGap /\ UNCHANGED <<tool, prefixed, call>> => ChangelogSpansTheGap'
BY DEF ChangelogSpansTheGap, Stops, UpToDate, ReleaseTag

LEMMA SameTag ==
  ASSUME NEW n, UNCHANGED prefixed PROVE ReleaseTag(n)' = ReleaseTag(n)
BY DEF ReleaseTag


\* The parts of DiffInv that a step of a call can disturb, once the rest stands still.
LEMMA CallStep ==
  ASSUME DiffInv, tool \in DiffTools, UNCHANGED <<tool, released, prefixed, cached, running>>,
         DOMAIN call' = CallFields, call'.since = call.since,
         call'.pc # "done" => call'.reply = "none",
         tool = "changelog_between_versions" =>
           call'.pc # "ask" /\ call'.reply # "up to date" /\ call'.from \in Version,
         tool \in {"release_diff", "diff"} =>
           /\ call'.from \in {None, running}
           /\ call'.pc = "list" => call'.from # None
           /\ \/ call'.to = None
              \/ \E n \in 0..released : /\ call'.to = ReleaseTag(n)
                                        /\ tool = "diff" => call.since <= n,
         call'.reply = "up to date" => call'.to # None /\ call'.from = call'.to,
         ChangelogSpansTheGap'
  PROVE  DiffInv'
<1>1. /\ released' \in Nat /\ call'.since \in Nat /\ call'.since <= released'
      /\ cached'["latest"] \in 0..released' /\ cached'["list"] \in 0..released'
  BY DEF DiffInv
<1>2. tool' \in DiffTools /\ running' \in Version
  BY DEF DiffInv
<1>3. ASSUME tool' \in {"release_diff", "diff"}
      PROVE  \/ call'.to = None
             \/ \E n \in 0..released' : /\ call'.to = ReleaseTag(n)'
                                        /\ tool' = "diff" => call'.since <= n
  <2>1. CASE call'.to = None
    BY <2>1
  <2>2. CASE call'.to # None
    <3>1. PICK n \in 0..released : call'.to = ReleaseTag(n) /\ (tool = "diff" => call.since <= n)
      BY <1>3, <2>2
    <3>2. ReleaseTag(n)' = ReleaseTag(n)
      BY SameTag
    <3> QED BY <3>1, <3>2
  <2> QED BY <2>1, <2>2
<1> QED BY <1>1, <1>2, <1>3 DEF DiffInv

LEMMA AskLatestStep ==
  ASSUME DiffInv, tool \in DiffTools, UNCHANGED tool, AskLatest
  PROVE  DiffInv'
<1>1. DOMAIN call = CallFields /\ call.reply = "none" /\ tool \in {"release_diff", "diff"}
      /\ call.from \in {None, running} /\ call.pc = "ask"
  BY DEF DiffInv, AskLatest, DiffTools
<1>2. \/ call.to = None
      \/ \E n \in 0..released : call.to = ReleaseTag(n) /\ (tool = "diff" => call.since <= n)
  BY <1>1 DEF DiffInv
<1>3. CASE Ends("error")
  <2>1. /\ call'.pc = "done" /\ call'.reply = "error" /\ DOMAIN call' = CallFields
        /\ call'.to = call.to /\ call'.from = call.from /\ call'.since = call.since
        /\ UNCHANGED <<released, prefixed, cached, running>>
    BY <1>1, <1>3, EndsFacts
  <2> QED BY <1>1, <1>2, <2>1, CallStep, NoChangelog
<1>4. CASE Goes([call EXCEPT !.asked = @ \cup {"latest"}])
  <2>1. /\ call'.pc = call.pc /\ call'.reply = call.reply /\ call'.since = call.since
        /\ call'.to = call.to /\ call'.from = call.from /\ DOMAIN call' = CallFields
        /\ UNCHANGED <<released, prefixed, cached, running>>
    BY <1>1, <1>4, NoAnswerFacts
  <2> QED BY <1>1, <1>2, <2>1, CallStep, NoChangelog
<1>5. ASSUME NEW n \in Answers("latest"),
             Goes([call EXCEPT !.asked = @ \cup {"latest"}, !.to = ReleaseTag(n)])
      PROVE  DiffInv'
  <2>1. /\ call'.pc = call.pc /\ call'.reply = call.reply /\ call'.since = call.since
        /\ call'.to = ReleaseTag(n) /\ call'.from = call.from /\ DOMAIN call' = CallFields
        /\ UNCHANGED <<released, prefixed, cached, running>>
    BY <1>1, <1>5, AskFacts
  <2>2. n \in 0..released /\ (tool = "diff" => call.since <= n)
    BY AnswersFacts DEF DiffInv
  <2> QED BY <1>1, <2>1, <2>2, CallStep, NoChangelog
<1> QED BY <1>3, <1>4, <1>5 DEF AskLatest

LEMMA AskClusterStep ==
  ASSUME DiffInv, tool \in DiffTools, UNCHANGED tool, AskCluster
  PROVE  DiffInv'
<1>1. DOMAIN call = CallFields /\ call.reply = "none" /\ tool \in {"release_diff", "diff"}
      /\ call.from \in {None, running} /\ call.pc = "ask"
  BY DEF DiffInv, AskCluster, DiffTools
<1>2. \/ call.to = None
      \/ \E n \in 0..released : call.to = ReleaseTag(n) /\ (tool = "diff" => call.since <= n)
  BY <1>1 DEF DiffInv
<1>3. \/ Goes([call EXCEPT !.asked = @ \cup {"cluster"}, !.from = running])
      \/ Goes([call EXCEPT !.asked = @ \cup {"cluster"}])
  BY DEF AskCluster
<1>4. /\ call'.pc = call.pc /\ call'.reply = call.reply /\ call'.since = call.since
      /\ call'.to = call.to /\ call'.from \in {call.from, running} /\ DOMAIN call' = CallFields
      /\ UNCHANGED <<released, prefixed, cached, running>>
  BY <1>1, <1>3, AskFacts, NoAnswerFacts
<1> QED BY <1>1, <1>2, <1>4, CallStep, NoChangelog

LEMMA CompareStep ==
  ASSUME DiffInv, tool \in DiffTools, UNCHANGED tool, Compare
  PROVE  DiffInv'
<1>1. DOMAIN call = CallFields /\ call.reply = "none" /\ tool \in {"release_diff", "diff"}
      /\ call.from \in {None, running} /\ call.pc = "ask"
  BY DEF DiffInv, Compare, DiffTools
<1>2. \/ call.to = None
      \/ \E n \in 0..released : call.to = ReleaseTag(n) /\ (tool = "diff" => call.since <= n)
  BY <1>1 DEF DiffInv
<1>3. ASSUME NEW r \in {"error", "up to date", "unknown"}, Ends(r),
             r = "up to date" => call.to # None /\ call.from = call.to
      PROVE  DiffInv'
  <2>1. /\ call'.pc = "done" /\ call'.reply = r /\ DOMAIN call' = CallFields
        /\ call'.to = call.to /\ call'.from = call.from /\ call'.since = call.since
        /\ UNCHANGED <<released, prefixed, cached, running>>
    BY <1>1, <1>3, EndsFacts
  <2> QED BY <1>1, <1>2, <1>3, <2>1, CallStep, NoChangelog
<1>4. ASSUME Goes([call EXCEPT !.pc = "list"]), call.from # None
      PROVE  DiffInv'
  <2>1. /\ call'.pc = "list" /\ call'.reply = call.reply /\ DOMAIN call' = CallFields
        /\ call'.to = call.to /\ call'.from = call.from /\ call'.since = call.since
        /\ UNCHANGED <<released, prefixed, cached, running>>
    BY <1>1, <1>4 DEF Goes, CallFields
  <2> QED BY <1>1, <1>2, <1>4, <2>1, CallStep, NoChangelog
<1>5. CASE Ends("error")
  BY <1>3, <1>5
<1>6. CASE call.to # None /\ IsCurrent(call.from, call.to) /\ Ends("up to date")
  BY <1>3, <1>6 DEF IsCurrent
<1>7. CASE IF call.from = None THEN Ends("unknown") ELSE Goes([call EXCEPT !.pc = "list"])
  BY <1>3, <1>4, <1>7
<1> QED BY <1>5, <1>6, <1>7 DEF Compare

LEMMA ListStep ==
  ASSUME DiffInv, tool \in DiffTools, UNCHANGED tool, DiffChangelog \/ ChangelogBetweenVersions
  PROVE  DiffInv'
<1>1. DOMAIN call = CallFields /\ call.reply = "none" /\ call.pc = "list"
  BY DEF DiffInv, DiffChangelog, ChangelogBetweenVersions
<1>2. ASSUME tool \in {"release_diff", "diff"}
      PROVE  /\ call.from \in {None, running} /\ call.from # None
             /\ \/ call.to = None
                \/ \E n \in 0..released : call.to = ReleaseTag(n)
                                          /\ (tool = "diff" => call.since <= n)
  BY <1>1, <1>2 DEF DiffInv
<1>3. call.from \in Version
  BY <1>2 DEF DiffInv, DiffTools
<1>4. ASSUME NEW r \in {"error", "no changelog"}, Ends(r)
      PROVE  DiffInv'
  <2>1. /\ call'.pc = "done" /\ call'.reply = r /\ DOMAIN call' = CallFields
        /\ call'.to = call.to /\ call'.from = call.from /\ call'.since = call.since
        /\ UNCHANGED <<released, prefixed, cached, running>>
    BY <1>1, <1>4, EndsFacts
  <2> QED BY <1>2, <1>3, <2>1, CallStep, NoChangelog
<1>5. ASSUME NEW n \in Answers("list"), Goes(Listing(n))
      PROVE  DiffInv'
  <2>1. /\ call'.pc = "done" /\ call'.reply = "changelog" /\ call'.since = call.since
        /\ call'.list = n /\ call'.log = Between(ListOf(n), call.to)
        /\ call'.to = call.to /\ call'.from = call.from /\ DOMAIN call' = CallFields
        /\ UNCHANGED <<released, prefixed, cached, running>>
    BY <1>1, <1>5, ListFieldFacts
  <2>3. ASSUME call.to.n \in 1..n, call.to = ReleaseTag(call.to.n), call.from.n <= call.to.n
        PROVE  Between(ListOf(n), call.to)
               = [k \in 1..(call.to.n + 1 - (IF Known THEN call.from.n ELSE 1))
                    |-> ReleaseTag(call.to.n + 1 - k)]
    BY <1>3, <2>3, AnswersFacts, BetweenSpans
  <2>4. ChangelogSpansTheGap'
    BY <2>1, <2>3, SpansGap
  <2> QED BY <1>2, <1>3, <2>1, <2>4, CallStep
<1> QED BY <1>4, <1>5 DEF DiffChangelog, ChangelogBetweenVersions

LEMMA PublishStep ==
  ASSUME DiffInv, UNCHANGED tool, Publish
  PROVE  DiffInv'
<1>1. released' = released + 1 /\ UNCHANGED <<prefixed, cached, running, call>>
  BY DEF Publish
<1>2. released \in Nat
  BY DEF DiffInv
<1>3. ChangelogSpansTheGap'
  BY <1>1, SameGap DEF DiffInv
<1>4. /\ call.since \in Nat /\ call.since <= released
      /\ cached["latest"] \in 0..released /\ cached["list"] \in 0..released
  BY DEF DiffInv
<1>5. call.since <= released + 1 /\ 0..released \subseteq 0..(released + 1)
  BY <1>2, <1>4
<1>6. /\ released' \in Nat /\ call'.since \in Nat /\ call'.since <= released'
      /\ cached'["latest"] \in 0..released' /\ cached'["list"] \in 0..released'
  BY <1>1, <1>2, <1>4, <1>5
<1>7. ASSUME tool' \in {"release_diff", "diff"}
      PROVE  \/ call'.to = None
             \/ \E n \in 0..released' : /\ call'.to = ReleaseTag(n)'
                                        /\ tool' = "diff" => call'.since <= n
  <2>1. CASE call.to = None
    BY <1>1, <2>1
  <2>2. CASE call.to # None
    <3>1. PICK n \in 0..released : call.to = ReleaseTag(n) /\ (tool = "diff" => call.since <= n)
      BY <1>7, <2>2 DEF DiffInv
    <3>2. ReleaseTag(n)' = ReleaseTag(n) /\ n \in 0..released'
      BY <1>1, <1>2, SameTag
    <3> QED BY <1>1, <3>1, <3>2
  <2> QED BY <2>1, <2>2
<1> QED BY <1>1, <1>3, <1>6, <1>7 DEF DiffInv

LEMMA OtherStep ==
  ASSUME DiffInv, UNCHANGED <<tool, dvars>>
  PROVE  DiffInv'
<1>1. UNCHANGED <<tool, released, prefixed, cached, running, call>>
  BY DEF dvars
<1>2. ChangelogSpansTheGap'
  BY <1>1, SameGap DEF DiffInv
<1>3. ASSUME tool' \in {"release_diff", "diff"}, call'.to # None
      PROVE  \E n \in 0..released' : /\ call'.to = ReleaseTag(n)'
                                     /\ tool' = "diff" => call'.since <= n
  <2>1. PICK n \in 0..released : call.to = ReleaseTag(n) /\ (tool = "diff" => call.since <= n)
    BY <1>1, <1>3 DEF DiffInv
  <2>2. ReleaseTag(n)' = ReleaseTag(n)
    BY <1>1, SameTag
  <2> QED BY <1>1, <2>1, <2>2
<1> QED BY <1>1, <1>2, <1>3 DEF DiffInv

LEMMA Comparing == CallSpec => []DiffInv
<1>1. DInit => DiffInv
  BY DiffInit
<1>2. DiffInv /\ [CallNext]_<<vars, dvars>> => DiffInv'
  <2> SUFFICES ASSUME DiffInv, [CallNext]_<<vars, dvars>> PROVE DiffInv'
    OBVIOUS
  <2>1. UNCHANGED tool
    BY SameTool
  <2>2. CASE UNCHANGED dvars
    BY <2>1, <2>2, OtherStep
  <2>3. CASE (Publish \/ DNext) /\ tool \in DiffTools
    BY <2>1, <2>3, PublishStep, AskLatestStep, AskClusterStep, CompareStep, ListStep DEF DNext
  <2> QED BY <2>2, <2>3 DEF CallNext
<1> QED BY <1>1, <1>2, PTL DEF CallSpec

LEMMA Within ==
  ASSUME NEW a \in Nat, NEW b \in Nat, NEW n \in 0..b, a <= n
  PROVE  n \in a..b
OBVIOUS

LEMMA TrueOfTheRunning == DiffInv => UpToDateIsTrue
<1> SUFFICES ASSUME DiffInv, call.reply = "up to date" PROVE UpToDateIsTrue
  BY DEF UpToDateIsTrue
<1>1. tool \in {"release_diff", "diff"}
  BY DEF DiffInv, DiffTools
<1>2. call.to # None /\ running = call.to /\ released \in Nat
  BY <1>1 DEF DiffInv
<1>3. PICK n \in 0..released : call.to = ReleaseTag(n) /\ (tool = "diff" => call.since <= n)
  BY <1>1, <1>2 DEF DiffInv
<1>4. running = ReleaseTag(n) /\ ReleaseTag(n).n = n
  BY <1>2, <1>3 DEF ReleaseTag
<1>5. call.since \in Nat
  BY DEF DiffInv
<1>6. tool = "diff" => n \in call.since..released
  BY <1>2, <1>3, <1>5, Within
<1> QED BY <1>2, <1>3, <1>4, <1>6 DEF UpToDateIsTrue

\* "up to date" is said of the version that runs, and by the diff command only of a release
\* that was the newest at some time during the call, however the releases and the two
\* answers of the cache interleave (diff.go, deployed == latest.Tag).
THEOREM NeverWronglyCurrent == CallSpec => []UpToDateIsTrue
BY Comparing, TrueOfTheRunning, PTL

\* The changelog of release_diff, diff and changelog_between_versions has every release of
\* the gap and no other, newest first, for a list of any length, also when the list is older
\* or newer than the latest release it is asked for.
THEOREM NoGapInTheChangelog == CallSpec => []ChangelogSpansTheGap
<1>1. DiffInv => ChangelogSpansTheGap
  BY DEF DiffInv
<1> QED BY <1>1, Comparing, PTL

-----------------------------------------------------------------------------
(* The graph of the services that share a dependency.                       *)

\* A set of two or more has two.
LEMMA AtLeastTwo ==
  ASSUME NEW S, S \subseteq Services
  PROVE  Cardinality(S) >= 2 <=> \E i, j \in S : i # j
<1>1. IsFiniteSet(S) /\ Cardinality(S) \in Nat
  BY ServiceFacts, FS_Subset, FS_CardinalityType
<1>2. ASSUME Cardinality(S) >= 2
      PROVE  \E i, j \in S : i # j
  <2>1. S # {}
    BY <1>2, FS_EmptySet
  <2>2. PICK i \in S : TRUE
    BY <2>1
  <2>3. IsFiniteSet(S \ {i}) /\ Cardinality(S \ {i}) = Cardinality(S) - 1
    BY <1>1, <2>2, FS_RemoveElement
  <2>4. Cardinality(S \ {i}) # 0
    BY <1>1, <1>2, <2>3
  <2>5. S \ {i} # {}
    BY <2>4, FS_EmptySet
  <2> QED BY <2>2, <2>5
<1>3. ASSUME NEW i \in S, NEW j \in S, i # j
      PROVE  Cardinality(S) >= 2
  <2>1. IsFiniteSet({i}) /\ Cardinality({i}) = 1
    BY FS_Singleton
  <2>2. Cardinality({i} \cup {j}) = 2
    <3>1. Cardinality({i} \cup {j}) = IF j \in {i} THEN Cardinality({i}) ELSE Cardinality({i}) + 1
      BY <2>1, FS_AddElement
    <3> QED BY <1>3, <2>1, <3>1
  <2>3. {i} \cup {j} \in SUBSET S
    OBVIOUS
  <2>4. Cardinality({i} \cup {j}) <= Cardinality(S)
    BY <1>1, <2>3, FS_Subset
  <2> QED BY <1>1, <2>2, <2>4
<1> QED BY <1>2, <1>3

\* Different numbers can be sorted: the place of each is told by how many are smaller.
LEMMA CanSort ==
  ASSUME NEW s, IsSequence(s), \A k \in DOMAIN s : s[k] \in Nat,
         \A k, l \in DOMAIN s : s[k] = s[l] => k = l
  PROVE  Sortings(s, <) # {}
<1> DEFINE D == DOMAIN s
           below(k) == {l \in D : s[l] < s[k]}
           place == [k \in D |-> Cardinality(below(k)) + 1]
<1>1. Len(s) \in Nat /\ D = 1..Len(s) /\ IsFiniteSet(D) /\ Cardinality(D) = Len(s)
  <2>1. Len(s) \in Nat /\ D = 1..Len(s)
    BY DEF IsSequence
  <2> QED BY <2>1, FS_Interval
<1>2. ASSUME NEW k \in D
      PROVE  IsFiniteSet(below(k)) /\ Cardinality(below(k)) \in Nat /\ Cardinality(below(k)) < Len(s)
  <2>1. below(k) \in SUBSET D /\ k \notin below(k)
    OBVIOUS
  <2>2. IsFiniteSet(below(k)) /\ Cardinality(below(k)) \in Nat /\ Cardinality(below(k)) <= Cardinality(D)
    BY <1>1, <2>1, FS_Subset, FS_CardinalityType
  <2>3. Cardinality(below(k)) # Cardinality(D)
    BY <1>1, <2>1, FS_Subset
  <2> HIDE DEF below, D
  <2> QED BY <1>1, <2>2, <2>3
<1>3. ASSUME NEW k \in D, NEW l \in D, s[k] < s[l]
      PROVE  Cardinality(below(k)) < Cardinality(below(l))
  <2>1. below(k) \in SUBSET below(l) /\ k \in below(l) /\ k \notin below(k)
    BY <1>3
  <2>2. Cardinality(below(k)) <= Cardinality(below(l)) /\ Cardinality(below(k)) # Cardinality(below(l))
    BY <1>2, <2>1, FS_Subset
  <2>3. Cardinality(below(k)) \in Nat /\ Cardinality(below(l)) \in Nat
    BY <1>2
  <2> HIDE DEF below
  <2> QED BY <2>2, <2>3
<1>4. /\ place \in [D -> D]
      /\ \A k, l \in D : s[k] < s[l] => place[k] < place[l]
  <2> HIDE DEF below
  <2>1. \A k \in D : Cardinality(below(k)) + 1 \in 1..Len(s)
    BY <1>1, <1>2
  <2>2. place \in [D -> D]
    BY <1>1, <2>1
  <2>3. \A k, l \in D : s[k] < s[l] => place[k] < place[l]
    BY <1>2, <1>3
  <2> QED BY <2>2, <2>3
<1> HIDE DEF place
<1>5. \A k, l \in D : place[k] = place[l] => k = l
  <2> SUFFICES ASSUME NEW k \in D, NEW l \in D, place[k] = place[l]
               PROVE  k = l
    OBVIOUS
  <2>1. place[k] \in Nat /\ s[k] \in Nat /\ s[l] \in Nat
    BY <1>1, <1>4
  <2>2. ~(s[k] < s[l]) /\ ~(s[l] < s[k])
    BY <1>4, <2>1
  <2>3. s[k] = s[l]
    BY <2>1, <2>2
  <2> QED BY <2>3
<1>6. place \in Injection(D, D)
  BY <1>4, <1>5 DEF Injection, IsInjective
<1>7. place \in Bijection(D, D)
  <2>1. place \in Surjection(D, D)
    BY <1>1, <1>6, FS_Injection
  <2> QED BY <1>6, <2>1 DEF Bijection
<1> DEFINE at == [m \in D |-> CHOOSE k \in D : place[k] = m]
<1>8. \A m \in D : at[m] \in D /\ place[at[m]] = m
  BY <1>7 DEF Bijection, Surjection
<1> HIDE DEF at
<1>9. at \in Bijection(D, D)
  <2>1. at \in [D -> D]
    BY <1>8 DEF at
  <2>2. \A k \in D : at[place[k]] = k
    BY <1>4, <1>5, <1>8
  <2>3. \A k \in D : place[k] \in D
    BY <1>4
  <2>4. at \in Injection(D, D)
    BY <1>8, <2>1 DEF Injection, IsInjective
  <2>5. at \in Surjection(D, D)
    BY <2>1, <2>2, <2>3 DEF Surjection
  <2> QED BY <2>4, <2>5 DEF Bijection
<1> DEFINE t == [k \in D |-> s[at[k]]]
<1>10. \A k, l \in DOMAIN t : k < l => ~(t[l] < t[k])
  <2> SUFFICES ASSUME NEW k \in D, NEW l \in D, k < l, s[at[l]] < s[at[k]]
               PROVE  FALSE
    OBVIOUS
  <2>1. place[at[l]] < place[at[k]]
    BY <1>4, <1>8
  <2>2. k \in Nat /\ l \in Nat
    BY <1>1
  <2> QED BY <1>8, <2>1, <2>2
<1>11. t \in Sortings(s, <)
  BY <1>9, <1>10 DEF Sortings
<1> QED BY <1>11

\* What the pairing has made of the dependencies D: each is once on the edge of each two
\* services that have it.
EdgesOf(D) ==
  /\ DOMAIN edges = UNION {KeysOf(d) : d \in D}
  /\ \A key \in DOMAIN edges :
       /\ IsSequence(edges[key])
       /\ {edges[key][k] : k \in DOMAIN edges[key]} = {d \in D : key \in KeysOf(d)}
       /\ \A k, l \in DOMAIN edges[key] : edges[key][k] = edges[key][l] => k = l

GraphInv ==
  tool = "service_graph" =>
    /\ \A i \in Services : Deps(i) \subseteq Nat /\ (pc[i] = "done" => results[i].deps = Deps(i))
    /\ phase \in {"begin", "fan"} => edges = <<>>
    /\ phase = "pairs" => left \subseteq SharedDeps /\ EdgesOf(SharedDeps \ left)
    /\ GraphExact

\* All slots are filled: an edge goes by two names in their order.
AllDeps == \A i \in Services : Deps(i) \subseteq Nat /\ results[i].deps = Deps(i)

LEMMA KeysAre ==
  ASSUME AllDeps, NEW d, NEW key
  PROVE  key \in KeysOf(d) <=>
           \E i, j \in Services : /\ Names[i] < Names[j] /\ key = <<Names[i], Names[j]>>
                                  /\ d \in Deps(i) /\ d \in Deps(j)
<1>1. \A i : i \in Users(d) <=> i \in Services /\ d \in Deps(i)
  BY DEF AllDeps, Users
<1>2. key \in KeysOf(d) <=> \E i, j \in Users(d) : i < j /\ key = EdgeKey(i, j)
  <2>1. ASSUME key \in KeysOf(d)
        PROVE  \E i, j \in Users(d) : i < j /\ key = EdgeKey(i, j)
    <3>1. PICK q \in Users(d) \X Users(d) : q[1] < q[2] /\ key = EdgeKey(q[1], q[2])
      BY <2>1, Zenon DEF KeysOf
    <3> QED BY <3>1
  <2>2. ASSUME NEW i \in Users(d), NEW j \in Users(d), i < j, key = EdgeKey(i, j)
        PROVE  key \in KeysOf(d)
    <3>1. PICK q : q = <<i, j>>
      OBVIOUS
    <3>2. q \in Users(d) \X Users(d) /\ q[1] = i /\ q[2] = j
      BY <3>1
    <3>3. q[1] < q[2] /\ key = EdgeKey(q[1], q[2])
      BY <2>2, <3>2, Zenon
    <3> QED BY <3>2, <3>3, Zenon DEF KeysOf
  <2> QED BY <2>1, <2>2, Zenon
<1>3. \A i, j \in Services : /\ i \in Nat /\ j \in Nat /\ Names[i] \in Nat /\ Names[j] \in Nat
                             /\ Names[i] = Names[j] => i = j
  BY ServiceFacts
<1>4. \A i, j \in Services : i < j => \/ Names[i] < Names[j] /\ EdgeKey(i, j) = <<Names[i], Names[j]>>
                                      \/ Names[j] < Names[i] /\ EdgeKey(i, j) = <<Names[j], Names[i]>>
  <2> SUFFICES ASSUME NEW i \in Services, NEW j \in Services, i < j
               PROVE  \/ Names[i] < Names[j] /\ EdgeKey(i, j) = <<Names[i], Names[j]>>
                      \/ Names[j] < Names[i] /\ EdgeKey(i, j) = <<Names[j], Names[i]>>
    OBVIOUS
  <2>1. i # j
    BY <1>3
  <2>2. CASE Names[i] > Names[j]
    BY <1>3, <2>2 DEF EdgeKey
  <2>3. CASE ~(Names[i] > Names[j])
    <3>1. Names[i] < Names[j]
      BY <1>3, <2>1, <2>3
    <3> QED BY <2>3, <3>1 DEF EdgeKey
  <2> QED BY <2>2, <2>3
<1>5. ASSUME key \in KeysOf(d)
      PROVE  \E i, j \in Services : /\ Names[i] < Names[j] /\ key = <<Names[i], Names[j]>>
                                    /\ d \in Deps(i) /\ d \in Deps(j)
  <2>1. PICK i \in Users(d), j \in Users(d) : i < j /\ key = EdgeKey(i, j)
    BY <1>2, <1>5
  <2>2. i \in Services /\ j \in Services /\ d \in Deps(i) /\ d \in Deps(j)
    BY <1>1
  <2>3. \/ Names[i] < Names[j] /\ EdgeKey(i, j) = <<Names[i], Names[j]>>
        \/ Names[j] < Names[i] /\ EdgeKey(i, j) = <<Names[j], Names[i]>>
    BY <1>4, <2>1, <2>2
  <2> QED BY <2>1, <2>2, <2>3, Zenon
<1>6. ASSUME NEW i \in Services, NEW j \in Services, Names[i] < Names[j],
             key = <<Names[i], Names[j]>>, d \in Deps(i), d \in Deps(j)
      PROVE  key \in KeysOf(d)
  <2>1. i \in Users(d) /\ j \in Users(d)
    BY <1>1, <1>6
  <2>2. i # j /\ ~(Names[j] < Names[i])
    BY <1>3, <1>6
  <2>3. CASE i < j
    <3>1. EdgeKey(i, j) = key
      BY <1>4, <1>6, <2>2, <2>3, Zenon
    <3> QED BY <1>2, <2>1, <2>3, <3>1
  <2>4. CASE j < i
    <3>1. EdgeKey(j, i) = key
      BY <1>4, <1>6, <2>2, <2>4, Zenon
    <3> QED BY <1>2, <2>1, <2>4, <3>1
  <2>5. i < j \/ j < i
    BY <1>3, <2>2
  <2> QED BY <2>3, <2>4, <2>5
<1> QED BY <1>5, <1>6, Zenon

\* What two services have is shared.
LEMMA SharedAre ==
  ASSUME AllDeps, NEW d, NEW i \in Services, NEW j \in Services, i # j, d \in Deps(i), d \in Deps(j)
  PROVE  d \in SharedDeps
<1>1. Users(d) \subseteq Services /\ i \in Users(d) /\ j \in Users(d)
  BY DEF AllDeps, Users
<1>2. Cardinality(Users(d)) >= 2
  BY <1>1, AtLeastTwo
<1>3. d \in results[i].deps
  BY DEF AllDeps
<1> QED BY <1>2, <1>3 DEF SharedDeps

\* So the edge of two services has what both have.
LEMMA EdgeHas ==
  ASSUME AllDeps, NEW i \in Services, NEW j \in Services, Names[i] < Names[j]
  PROVE  {d \in SharedDeps : <<Names[i], Names[j]>> \in KeysOf(d)} = Deps(i) \cap Deps(j)
<1> DEFINE key == <<Names[i], Names[j]>>
<1>1. i # j
  BY ServiceFacts
<1>2. ASSUME NEW d, d \in Deps(i) \cap Deps(j)
      PROVE  d \in SharedDeps /\ key \in KeysOf(d)
  <2>1. d \in SharedDeps
    BY <1>1, <1>2, SharedAre
  <2>2. key \in KeysOf(d)
    BY <1>2, KeysAre
  <2> QED BY <2>1, <2>2
<1>3. ASSUME NEW d, key \in KeysOf(d)
      PROVE  d \in Deps(i) \cap Deps(j)
  <2>1. PICK x \in Services, y \in Services :
          key = <<Names[x], Names[y]>> /\ d \in Deps(x) /\ d \in Deps(y)
    BY <1>3, KeysAre
  <2>2. \A a, b, u, v : <<a, b>> = <<u, v>> => a = u /\ b = v
    OBVIOUS
  <2>3. Names[x] = Names[i] /\ Names[y] = Names[j]
    BY <2>1, <2>2
  <2>4. x = i /\ y = j
    BY <2>3, ServiceFacts
  <2> QED BY <2>1, <2>4
<1> HIDE DEF key
<1>4. {d \in SharedDeps : key \in KeysOf(d)} = Deps(i) \cap Deps(j)
  BY <1>2, <1>3
<1> QED BY <1>4 DEF key

\* The list of an edge, sorted: what was there, each once.
LEMMA SortedList ==
  ASSUME NEW s, IsSequence(s), \A k \in DOMAIN s : s[k] \in Nat,
         \A k, l \in DOMAIN s : s[k] = s[l] => k = l,
         NEW t, Reordered(t, s)
  PROVE  LET S == {s[k] : k \in DOMAIN s} IN
         SeqExt!ToSet(t) = S /\ Len(t) = Cardinality(S)
<1> DEFINE S == {s[k] : k \in DOMAIN s}
<1>3. /\ IsSequence(t) /\ Len(t) = Len(s) /\ DOMAIN t = DOMAIN s /\ DOMAIN s = 1..Len(s)
      /\ Len(s) \in Nat
  <2>1. Len(s) \in Nat
    BY DEF IsSequence
  <2> QED BY <2>1, ReorderedFacts
<1>4. PICK p : Places(p, t, s)
  BY ReorderedFrom
<1>5. SeqExt!ToSet(t) = S
  <2>1. SeqExt!ToSet(t) = {t[k] : k \in DOMAIN t}
    BY DEF SeqExt!ToSet
  <2>2. \A k \in DOMAIN s : t[k] \in S
    <3>1. \A k \in DOMAIN s : p[k] \in DOMAIN s /\ t[k] = s[p[k]]
      BY <1>4 DEF Places
    <3>2. \A l \in DOMAIN s : s[l] \in S
      OBVIOUS
    <3> HIDE DEF S
    <3> QED BY <3>1, <3>2
  <2>3. \A x \in S : \E k \in DOMAIN s : t[k] = x
    <3> SUFFICES ASSUME NEW l \in DOMAIN s PROVE \E k \in DOMAIN s : t[k] = s[l]
      OBVIOUS
    <3>1. PICK k \in DOMAIN s : p[k] = l
      BY <1>4 DEF Places
    <3>2. t[k] = s[p[k]]
      BY <1>4 DEF Places
    <3> QED BY <3>1, <3>2
  <2> HIDE DEF S
  <2> QED BY <1>3, <2>1, <2>2, <2>3
<1>6. Cardinality(S) = Len(s)
  <2>1. s \in [1..Len(s) -> S]
    <3>1. s \in Seq(S)
      BY DEF IsSequence
    <3> HIDE DEF S
    <3> QED BY <3>1
  <2>2. s \in Bijection(1..Len(s), S)
    BY <1>3, <2>1 DEF Bijection, Injection, Surjection, IsInjective
  <2>3. ExistsBijection(1..Len(s), S)
    BY <2>2 DEF ExistsBijection
  <2> HIDE DEF S
  <2> QED BY <1>3, <2>3, FS_CountingElements
<1> QED BY <1>3, <1>5, <1>6

-----------------------------------------------------------------------------
(* The steps of service_graph.                                              *)

LEMMA GraphInit == DInit => GraphInv
<1> SUFFICES ASSUME DInit, tool = "service_graph" PROVE GraphInv
  BY DEF GraphInv
<1>1. /\ phase = "begin" /\ edges = <<>>
      /\ \A i \in Services : pc[i] = "ask" /\ Deps(i) = {}
  BY DEF DInit, Init, Deps, Unasked
<1>2. GraphExact
  BY <1>1 DEF GraphExact, Replied
<1> QED BY <1>1, <1>2 DEF GraphInv

\* Until the pairing begins there are no edges and no reply.
LEMMA QuietGraph ==
  ASSUME GraphInv, phase \in {"begin", "fan"}, phase' \in {"begin", "fan"}, UNCHANGED <<tool, edges>>,
         tool = "service_graph" =>
           \A i \in Services : Deps(i)' \subseteq Nat /\ (pc'[i] = "done" => results'[i].deps = Deps(i)')
  PROVE  GraphInv'
<1>1. GraphExact'
  BY DEF GraphExact, Replied
<1> QED BY <1>1 DEF GraphInv

LEMMA LearnsDeps ==
  ASSUME FanInv, GraphInv, tool = "service_graph", phase = "fan", NEW i \in Services, pc[i] = "ask",
         NEW answer, Learns(i, answer), answer.err = "" => answer.val.deps \subseteq Nat
  PROVE  GraphInv'
<1>1. /\ pc \in [Services -> {"ask", "answer", "done"}] /\ OnServices(got)
      /\ UNCHANGED <<tool, phase, results, edges>>
      /\ pc' = [pc EXCEPT ![i] = "answer"] /\ got' = [got EXCEPT ![i] = answer]
  BY DEF FanInv, Framed, Learns
<1>2. /\ got'[i] = answer /\ pc'[i] = "answer"
      /\ \A j \in Services : j # i => got'[j] = got[j] /\ pc'[j] = pc[j]
  BY <1>1 DEF OnServices
<1>3. ASSUME NEW j \in Services
      PROVE  Deps(j)' \subseteq Nat /\ (pc'[j] = "done" => results'[j].deps = Deps(j)')
  <2>1. CASE j = i
    BY <1>2, <2>1 DEF Deps
  <2>2. CASE j # i
    <3>1. got'[j] = got[j] /\ pc'[j] = pc[j] /\ results' = results
      BY <1>1, <1>2, <2>2
    <3>2. Deps(j)' = Deps(j)
      BY <3>1, Zenon DEF Deps
    <3> QED BY <3>1, <3>2 DEF GraphInv
  <2> QED BY <2>1, <2>2
<1> QED BY <1>1, <1>3, QuietGraph

\* The dependencies are those of a file of the service.
LEMMA AskDeps ==
  ASSUME FanInv, GraphInv, tool = "service_graph", NEW i \in Services, Ask(i)
  PROVE  GraphInv'
<1>1. phase = "fan" /\ pc[i] = "ask" /\ tool \in FileTools
  BY DEF Ask, FileTools
<1>2. CASE Reject(i)
  <2>1. svc[i].repo \in {"malformed", "unsupported"}
    BY <1>2, ToolFanOutAssumption DEF Reject, FanInv, Framed
  <2>2. Learns(i, Error(svc[i].repo)) /\ Error(svc[i].repo).err # ""
    BY <1>2, <2>1 DEF Reject, Error
  <2> QED BY <1>1, <2>2, LearnsDeps
<1>3. CASE TryFile(i)
  <2> DEFINE f == file[i] + 1
             found == Answer([file |-> f, deps |-> svc[i].files[f]])
             none == Error("no dependency file found")
  <2>1. CASE f \notin DepFiles
    <3>1. Learns(i, none) /\ none.err # ""
      BY <1>3, <2>1 DEF TryFile, Error
    <3> HIDE DEF none
    <3> QED BY <1>1, <3>1, LearnsDeps
  <2>2. CASE f \in DepFiles /\ svc[i].files[f] # None /\ Learns(i, found)
    <3>1. found.val.deps = svc[i].files[f]
      BY DEF Answer
    <3>2. svc[i].files[f] \subseteq Nat
      BY <2>2, ToolFanOutAssumption DEF FanInv, Framed
    <3>3. found.val.deps \subseteq Nat
      BY <3>1, <3>2
    <3> HIDE DEF found
    <3> QED BY <1>1, <2>2, <3>3, LearnsDeps
  <2>3. CASE UNCHANGED <<tool, svc, cluster, phase, pc, got, results, left, edges, out>>
    <3>1. \A j \in Services : Deps(j)' = Deps(j)
      BY <2>3 DEF Deps
    <3>2. \A j \in Services : Deps(j)' \subseteq Nat /\ (pc'[j] = "done" => results'[j].deps = Deps(j)')
      BY <2>3, <3>1 DEF GraphInv
    <3>3. phase \in {"begin", "fan"} /\ phase' \in {"begin", "fan"} /\ UNCHANGED <<tool, edges>>
      BY <1>1, <2>3
    <3> QED BY <3>2, <3>3, QuietGraph
  <2> QED BY <1>3, <2>1, <2>2, <2>3 DEF TryFile
<1> QED BY <1>1, <1>2, <1>3 DEF Ask, Request

LEMMA FillsSlot ==
  ASSUME FanInv, GraphInv, NEW i \in Services, ServiceGraph(i)
  PROVE  GraphInv'
<1> DEFINE entry == [name |-> Names[i], err |-> got[i].err, deps |-> Deps(i)]
<1>1. /\ tool = "service_graph" /\ tool \in SlotTools /\ phase = "fan"
      /\ UNCHANGED <<tool, phase, got, edges>>
      /\ pc' = [pc EXCEPT ![i] = "done"] /\ results' = [results EXCEPT ![i] = entry]
  BY DEF ServiceGraph, Slot, PutAt, SlotTools
<1>2. OnServices(results) /\ pc \in [Services -> {"ask", "answer", "done"}]
  BY <1>1 DEF FanInv, Framed, SlotsRight
<1>3. entry.deps = Deps(i)
  OBVIOUS
<1> HIDE DEF entry
<1>4. /\ results'[i] = entry
      /\ \A j \in Services : j # i => results'[j] = results[j] /\ pc'[j] = pc[j]
  BY <1>1, <1>2 DEF OnServices
<1>5. \A j \in Services : Deps(j)' = Deps(j)
  BY <1>1 DEF Deps
<1>6. ASSUME NEW j \in Services
      PROVE  Deps(j)' \subseteq Nat /\ (pc'[j] = "done" => results'[j].deps = Deps(j)')
  <2>1. CASE j = i
    <3>1. results'[j].deps = Deps(j)
      BY <1>3, <1>4, <2>1
    <3> QED BY <1>1, <1>5, <3>1 DEF GraphInv
  <2>2. CASE j # i
    <3>1. results'[j] = results[j] /\ pc'[j] = pc[j]
      BY <1>4, <2>2
    <3> QED BY <1>1, <1>5, <3>1 DEF GraphInv
  <2> QED BY <2>1, <2>2
<1> QED BY <1>1, <1>6, QuietGraph

\* Once all is collected it stays.
LEMMA SameGraph ==
  ASSUME UNCHANGED <<got, results>>
  PROVE  /\ \A i \in Services : Deps(i)' = Deps(i)
         /\ \A d : KeysOf(d)' = KeysOf(d) /\ Users(d)' = Users(d)
         /\ SharedDeps' = SharedDeps
<1>1. \A d : Users(d)' = Users(d)
  BY DEF Users
<1>2. \A i : Deps(i)' = Deps(i)
  BY DEF Deps
<1>3. \A d : KeysOf(d)' = KeysOf(d)
  BY <1>1 DEF KeysOf, EdgeKey
<1>4. SharedDeps' = SharedDeps
  BY <1>1 DEF SharedDeps
<1> QED BY <1>1, <1>2, <1>3, <1>4

LEMMA ShareStep ==
  ASSUME FanInv, GraphInv, Share
  PROVE  GraphInv'
<1>1. /\ phase = "fan" /\ \A i \in Services : pc[i] = "done"
      /\ tool = "service_graph" /\ phase' = "pairs" /\ left' = SharedDeps
      /\ UNCHANGED <<tool, pc, got, results, edges>>
  BY DEF Share, Collected
<1>2. edges = <<>> /\ DOMAIN <<>> = {}
  BY <1>1 DEF GraphInv
<1>3. SharedDeps' = SharedDeps /\ \A i \in Services : Deps(i)' = Deps(i)
  BY <1>1, SameGraph
<1>4. EdgesOf({})'
  BY <1>1, <1>2 DEF EdgesOf
<1>5. SharedDeps' \ left' = {} /\ left' \subseteq SharedDeps'
  BY <1>1, <1>3
<1>6. EdgesOf(SharedDeps \ left)'
  BY <1>4, <1>5
<1>7. GraphExact'
  BY <1>1 DEF GraphExact, Replied
<1>8. \A i \in Services : Deps(i)' \subseteq Nat /\ (pc'[i] = "done" => results'[i].deps = Deps(i)')
  BY <1>1, <1>3 DEF GraphInv
<1> QED BY <1>1, <1>5, <1>6, <1>7, <1>8 DEF GraphInv

\* Pairing up the services of a dependency puts it on their edges, and on no other.
LEMMA PairUpStep ==
  ASSUME FanInv, GraphInv, NEW d \in left, PairUp(d)
  PROVE  GraphInv'
<1> DEFINE D == SharedDeps \ left
           had(key) == IF key \in DOMAIN edges THEN edges[key] ELSE <<>>
<1>1. /\ phase = "pairs" /\ phase' = "pairs" /\ left' = left \ {d} /\ tool = "service_graph"
      /\ UNCHANGED <<tool, pc, got, results>>
      /\ edges' = [key \in DOMAIN edges \cup KeysOf(d) |->
                     had(key) \o (IF key \in KeysOf(d) THEN <<d>> ELSE <<>>)]
  BY DEF PairUp, FanInv, ReplyRight
<1>2. left \subseteq SharedDeps /\ EdgesOf(D)
  BY <1>1 DEF GraphInv
<1>3. /\ SharedDeps' = SharedDeps /\ \A i \in Services : Deps(i)' = Deps(i)
      /\ \A e : KeysOf(e)' = KeysOf(e)
  BY <1>1, SameGraph
<1>4. (SharedDeps \ left)' = D \cup {d} /\ d \notin D
  BY <1>1, <1>2, <1>3
<1>5. /\ DOMAIN edges = UNION {KeysOf(e) : e \in D}
      /\ \A key \in DOMAIN edges :
           /\ IsSequence(edges[key])
           /\ {edges[key][k] : k \in DOMAIN edges[key]} = {e \in D : key \in KeysOf(e)}
           /\ \A k, l \in DOMAIN edges[key] : edges[key][k] = edges[key][l] => k = l
  BY <1>2 DEF EdgesOf
<1> HIDE DEF D
<1>6. ASSUME NEW key
      PROVE  /\ IsSequence(had(key))
             /\ \A e : (\E k \in DOMAIN had(key) : had(key)[k] = e) <=> e \in D /\ key \in KeysOf(e)
             /\ \A k, l \in DOMAIN had(key) : had(key)[k] = had(key)[l] => k = l
  <2>1. CASE key \in DOMAIN edges
    <3>1. had(key) = edges[key]
      BY <2>1
    <3>2. \A e : (\E k \in DOMAIN edges[key] : edges[key][k] = e) <=> e \in D /\ key \in KeysOf(e)
      <4>1. {edges[key][k] : k \in DOMAIN edges[key]} = {e \in D : key \in KeysOf(e)}
        BY <1>5, <2>1
      <4> QED BY <4>1
    <3>3. /\ IsSequence(edges[key])
          /\ \A k, l \in DOMAIN edges[key] : edges[key][k] = edges[key][l] => k = l
      BY <1>5, <2>1
    <3> HIDE DEF had
    <3> QED BY <3>1, <3>2, <3>3
  <2>2. CASE key \notin DOMAIN edges
    <3>1. had(key) = <<>> /\ DOMAIN <<>> = {} /\ <<>> \in Seq({})
      BY <2>2
    <3>2. IsSequence(<<>>)
      BY <3>1, SeqIsSequence
    <3>3. \A e \in D : key \notin KeysOf(e)
      BY <1>5, <2>2
    <3> HIDE DEF had
    <3> QED BY <3>1, <3>2, <3>3
  <2> QED BY <2>1, <2>2
<1>7. /\ DOMAIN edges' = DOMAIN edges \cup KeysOf(d)
      /\ \A key \in DOMAIN edges' :
           edges'[key] = IF key \in KeysOf(d) THEN had(key) \o <<d>> ELSE had(key) \o <<>>
  <2> HIDE DEF had
  <2> QED BY <1>1
<1> HIDE DEF had
<1>8. ASSUME NEW key \in DOMAIN edges', NEW t, t = edges'[key]
      PROVE  /\ IsSequence(t)
             /\ {t[k] : k \in DOMAIN t} = {e \in D \cup {d} : key \in KeysOf(e)}
             /\ \A k, l \in DOMAIN t : t[k] = t[l] => k = l
  <2>1. PICK s : s = had(key)
    OBVIOUS
  <2>2. /\ IsSequence(s)
        /\ \A e : (\E k \in DOMAIN s : s[k] = e) <=> e \in D /\ key \in KeysOf(e)
        /\ \A k, l \in DOMAIN s : s[k] = s[l] => k = l
    BY <1>6, <2>1
  <2>3. CASE key \in KeysOf(d)
    <3>1. t = s \o <<d>>
      BY <1>7, <1>8, <2>1, <2>3
    <3>2. /\ IsSequence(s \o <<d>>) /\ Len(s) \in Nat /\ DOMAIN s = 1..Len(s)
          /\ DOMAIN (s \o <<d>>) = 1..(Len(s) + 1)
          /\ \A k \in 1..Len(s) : (s \o <<d>>)[k] = s[k]
          /\ (s \o <<d>>)[Len(s) + 1] = d
      BY <2>2, JoinedOne
    <3>3. PICK n : n = Len(s)
      OBVIOUS
    <3>4. /\ IsSequence(t) /\ n \in Nat /\ DOMAIN s = 1..n /\ DOMAIN t = 1..(n + 1)
          /\ (\A k \in 1..n : t[k] = s[k]) /\ t[n + 1] = d
      BY <3>1, <3>2, <3>3
    <3>5. \A k \in 1..(n + 1) : k \in 1..n \/ k = n + 1
      BY <3>4
    <3>6. \A k \in 1..n : k \in 1..(n + 1) /\ k # n + 1
      BY <3>4
    <3>7. \A k \in 1..n : s[k] # d
      BY <1>4, <2>2, <3>4
    <3>8. n + 1 \in 1..(n + 1)
      BY <3>4
    <3>9. {t[k] : k \in DOMAIN t} = {e \in D \cup {d} : key \in KeysOf(e)}
      <4>1. ASSUME NEW k \in DOMAIN t
            PROVE  t[k] \in D \cup {d} /\ key \in KeysOf(t[k])
        BY <2>2, <2>3, <3>4, <3>5, <4>1
      <4>2. ASSUME NEW e \in D \cup {d}, key \in KeysOf(e)
            PROVE  \E k \in DOMAIN t : t[k] = e
        BY <2>2, <3>4, <3>6, <3>8, <4>2
      <4> QED BY <4>1, <4>2
    <3>10. \A k, l \in DOMAIN t : t[k] = t[l] => k = l
      BY <2>2, <3>4, <3>5, <3>7
    <3> QED BY <3>4, <3>9, <3>10
  <2>4. CASE key \notin KeysOf(d)
    <3>1. t = s
      <4>1. t = s \o <<>>
        BY <1>7, <1>8, <2>1, <2>4
      <4> QED BY <2>2, <4>1, JoinedNone
    <3>2. {s[k] : k \in DOMAIN s} = {e \in D \cup {d} : key \in KeysOf(e)}
      BY <2>2, <2>4
    <3> QED BY <2>2, <3>1, <3>2
  <2> QED BY <2>3, <2>4
<1>9. EdgesOf(SharedDeps \ left)'
  <2>1. DOMAIN edges' = UNION {KeysOf(e) : e \in D \cup {d}}
    BY <1>5, <1>7
  <2>2. \A e : (e \in SharedDeps \ left)' <=> e \in D \cup {d}
    BY <1>4
  <2>3. DOMAIN edges' = UNION {KeysOf(e)' : e \in (SharedDeps \ left)'}
    BY <1>3, <1>4, <2>1
  <2>4. ASSUME NEW key \in DOMAIN edges'
        PROVE  /\ IsSequence(edges'[key])
               /\ {edges'[key][k] : k \in DOMAIN edges'[key]} =
                    {e \in (SharedDeps \ left)' : key \in KeysOf(e)'}
               /\ \A k, l \in DOMAIN edges'[key] : edges'[key][k] = edges'[key][l] => k = l
    <3>1. PICK t : t = edges'[key]
      OBVIOUS
    <3>2. /\ IsSequence(t)
          /\ {t[k] : k \in DOMAIN t} = {e \in D \cup {d} : key \in KeysOf(e)}
          /\ \A k, l \in DOMAIN t : t[k] = t[l] => k = l
      BY <1>8, <3>1
    <3>3. {e \in (SharedDeps \ left)' : key \in KeysOf(e)'} = {e \in D \cup {d} : key \in KeysOf(e)}
      BY <1>3, <1>4
    <3>4. IsSequence(edges'[key])
      BY <3>1, <3>2, Zenon
    <3>5. \A k, l \in DOMAIN edges'[key] : edges'[key][k] = edges'[key][l] => k = l
      BY <3>1, <3>2, Zenon
    <3>6. {edges'[key][k] : k \in DOMAIN edges'[key]} = {t[k] : k \in DOMAIN t}
      BY <3>1
    <3> HIDE DEF D
    <3>7. {edges'[key][k] : k \in DOMAIN edges'[key]} = {e \in (SharedDeps \ left)' : key \in KeysOf(e)'}
      BY <3>2, <3>3, <3>6, Zenon
    <3> QED BY <3>4, <3>5, <3>7
  <2> QED BY <2>3, <2>4 DEF EdgesOf, IsSequence
<1>10. GraphExact'
  BY <1>1 DEF GraphExact, Replied
<1>11. \A i \in Services : Deps(i)' \subseteq Nat /\ (pc'[i] = "done" => results'[i].deps = Deps(i)')
  BY <1>1, <1>3 DEF GraphInv
<1>12. left' \subseteq SharedDeps'
  BY <1>1, <1>2, <1>3
<1> QED BY <1>1, <1>9, <1>10, <1>11, <1>12 DEF GraphInv

\* A reply that is exact, if that is what the goroutines were answered.
Exact(reply, answers) ==
  LET dep(name) == LET i == CHOOSE i \in Services : Names[i] = name
                   IN IF answers[i].err = "" THEN answers[i].val.deps ELSE {}
      shared(p) == dep(p[1]) \cap dep(p[2])
      names     == {Names[i] : i \in Services}
  IN /\ {reply[k].between : k \in DOMAIN reply} =
          {p \in names \X names : p[1] < p[2] /\ shared(p) # {}}
     /\ \A k \in DOMAIN reply : /\ SeqExt!ToSet(reply[k].deps) = shared(reply[k].between)
                                /\ Len(reply[k].deps) = Cardinality(shared(reply[k].between))
     /\ \A k, l \in DOMAIN reply : reply[k].between = reply[l].between => k = l

LEMMA ExactIs ==
  /\ GraphExact = (Replied({"service_graph"}) => Exact(out, got))
  /\ GraphExact' = (Replied({"service_graph"})' => Exact(out', got'))
BY Zenon DEF GraphExact, Exact, Deps

\* The reply has an edge for each key, with what its two services share.
LEMMA GraphReplyStep ==
  ASSUME FanInv, GraphInv, GraphReply
  PROVE  GraphInv'
<1> DEFINE names == {Names[i] : i \in Services}
           dep(name) == Deps(CHOOSE i \in Services : Names[i] = name)
           shared(p) == dep(p[1]) \cap dep(p[2])
           n == Cardinality(DOMAIN edges)
<1>1. PICK order \in Bijection(1..n, DOMAIN edges) :
        Replies([k \in 1..n |-> Edge(order[k])])
  BY DEF GraphReply
<1>2. /\ phase = "pairs" /\ left = {} /\ phase' = "replied"
      /\ UNCHANGED <<tool, cluster, pc, got, results, edges>>
      /\ out' = [k \in 1..n |-> Edge(order[k])]
  BY <1>1 DEF GraphReply, Replies
<1>3. tool = "service_graph" /\ \A i \in Services : pc[i] = "done"
  BY <1>2 DEF FanInv, ReplyRight
<1>4. AllDeps
  BY <1>3 DEF GraphInv, AllDeps
<1>5. EdgesOf(SharedDeps)
  <2>1. SharedDeps \ left = SharedDeps
    BY <1>2
  <2>2. EdgesOf(SharedDeps \ left)
    BY <1>2, <1>3 DEF GraphInv
  <2> QED BY <2>1, <2>2
<1>6. /\ DOMAIN order = 1..n /\ \A k \in 1..n : order[k] \in DOMAIN edges
      /\ \A key \in DOMAIN edges : \E k \in 1..n : order[k] = key
      /\ \A k, l \in 1..n : order[k] = order[l] => k = l
  BY <1>1 DEF Bijection, Injection, Surjection, IsInjective
<1> HIDE DEF n
<1>7. \A key : Edge(key).between = key /\ Edge(key).deps = CHOOSE t \in Sortings(edges[key], <) : TRUE
  BY DEF Edge
<1>8. \A x \in Services : dep(Names[x]) = Deps(x)
  <2> SUFFICES ASSUME NEW x \in Services PROVE (CHOOSE i \in Services : Names[i] = Names[x]) = x
    OBVIOUS
  <2> QED BY ServiceFacts
<1> HIDE DEF dep
<1>9. \A p : p \in {q \in names \X names : q[1] < q[2] /\ shared(q) # {}} <=>
        \E i, j \in Services : Names[i] < Names[j] /\ p = <<Names[i], Names[j]>> /\ Deps(i) \cap Deps(j) # {}
  <2> SUFFICES ASSUME NEW p
               PROVE  (p \in names \X names /\ p[1] < p[2] /\ shared(p) # {}) <=>
                        \E i, j \in Services : /\ Names[i] < Names[j] /\ p = <<Names[i], Names[j]>>
                                               /\ Deps(i) \cap Deps(j) # {}
    OBVIOUS
  <2>1. ASSUME p \in names \X names, p[1] < p[2], shared(p) # {}
        PROVE  \E i, j \in Services : /\ Names[i] < Names[j] /\ p = <<Names[i], Names[j]>>
                                      /\ Deps(i) \cap Deps(j) # {}
    <3>1. PICK i \in Services, j \in Services : p = <<Names[i], Names[j]>>
      BY <2>1
    <3>2. p[1] = Names[i] /\ p[2] = Names[j]
      BY <3>1
    <3>3. shared(p) = Deps(i) \cap Deps(j)
      BY <1>8, <3>2
    <3> QED BY <2>1, <3>1, <3>2, <3>3, Zenon
  <2>2. ASSUME NEW i \in Services, NEW j \in Services, Names[i] < Names[j],
               p = <<Names[i], Names[j]>>, Deps(i) \cap Deps(j) # {}
        PROVE  p \in names \X names /\ p[1] < p[2] /\ shared(p) # {}
    <3>1. p[1] = Names[i] /\ p[2] = Names[j] /\ p \in names \X names
      BY <2>2
    <3>2. shared(p) = Deps(i) \cap Deps(j)
      BY <1>8, <3>1
    <3> QED BY <2>2, <3>1, <3>2, Zenon
  <2> QED BY <2>1, <2>2, Zenon
<1>10. \A key : key \in DOMAIN edges <=>
         \E i, j \in Services : /\ Names[i] < Names[j] /\ key = <<Names[i], Names[j]>>
                                /\ Deps(i) \cap Deps(j) # {}
  <2> SUFFICES ASSUME NEW key
               PROVE  key \in DOMAIN edges <=>
                        \E i, j \in Services : /\ Names[i] < Names[j] /\ key = <<Names[i], Names[j]>>
                                               /\ Deps(i) \cap Deps(j) # {}
    OBVIOUS
  <2>1. key \in DOMAIN edges <=> \E d \in SharedDeps : key \in KeysOf(d)
    BY <1>5 DEF EdgesOf
  <2>2. ASSUME NEW d \in SharedDeps, key \in KeysOf(d)
        PROVE  \E i, j \in Services : /\ Names[i] < Names[j] /\ key = <<Names[i], Names[j]>>
                                      /\ Deps(i) \cap Deps(j) # {}
    BY <1>4, <2>2, KeysAre
  <2>3. ASSUME NEW i \in Services, NEW j \in Services, Names[i] < Names[j],
               key = <<Names[i], Names[j]>>, Deps(i) \cap Deps(j) # {}
        PROVE  \E d \in SharedDeps : key \in KeysOf(d)
    <3>1. PICK d : d \in Deps(i) \cap Deps(j)
      BY <2>3
    <3>2. {e \in SharedDeps : key \in KeysOf(e)} = Deps(i) \cap Deps(j)
      BY <1>4, <2>3, EdgeHas
    <3> QED BY <3>1, <3>2
  <2> QED BY <2>1, <2>2, <2>3, Zenon
<1>11. ASSUME NEW key \in DOMAIN edges
       PROVE  /\ SeqExt!ToSet(Edge(key).deps) = shared(key)
              /\ Len(Edge(key).deps) = Cardinality(shared(key))
  <2>1. PICK i \in Services, j \in Services : Names[i] < Names[j] /\ key = <<Names[i], Names[j]>>
    BY <1>10
  <2>2. key[1] = Names[i] /\ key[2] = Names[j]
    BY <2>1
  <2>3. shared(key) = Deps(i) \cap Deps(j)
    BY <1>8, <2>2
  <2>4. {d \in SharedDeps : key \in KeysOf(d)} = shared(key)
    BY <1>4, <2>1, <2>3, EdgeHas
  <2>5. PICK s, S : s = edges[key] /\ S = shared(key)
    OBVIOUS
  <2>6. /\ IsSequence(s) /\ {s[k] : k \in DOMAIN s} = S
        /\ \A k, l \in DOMAIN s : s[k] = s[l] => k = l
    <3>1. /\ IsSequence(edges[key])
          /\ {edges[key][k] : k \in DOMAIN edges[key]} = {d \in SharedDeps : key \in KeysOf(d)}
          /\ \A k, l \in DOMAIN edges[key] : edges[key][k] = edges[key][l] => k = l
      BY <1>5 DEF EdgesOf
    <3>2. {edges[key][k] : k \in DOMAIN edges[key]} = S
      BY <2>4, <2>5, <3>1, Zenon
    <3> QED BY <2>5, <3>1, <3>2, Zenon
  <2>7. S \subseteq Nat
    BY <1>4, <2>3, <2>5 DEF AllDeps
  <2>8. \A k \in DOMAIN s : s[k] \in Nat
    BY <2>6, <2>7
  <2>9. PICK t : t = CHOOSE x \in Sortings(s, <) : TRUE
    OBVIOUS
  <2>10. t \in Sortings(s, <)
    BY <2>6, <2>8, <2>9, CanSort
  <2>11. Reordered(t, s)
    BY <2>10 DEF Sortings, Reordered
  <2>12. SeqExt!ToSet(t) = S /\ Len(t) = Cardinality(S)
    BY <2>6, <2>8, <2>11, SortedList, Zenon
  <2>13. Edge(key).deps = t
    BY <1>7, <2>5, <2>9, Zenon
  <2> QED BY <2>5, <2>12, <2>13, Zenon
<1> HIDE DEF shared, names
<1>12. \A k \in 1..n : out'[k] = Edge(order[k])
  BY <1>2
<1>13. DOMAIN out' = 1..n
  BY <1>2
<1>14. \A k \in 1..n : out'[k].between = order[k]
  BY <1>7, <1>12
<1>15. {out'[k].between : k \in DOMAIN out'} = DOMAIN edges
  <2>1. \A k \in DOMAIN out' : out'[k].between \in DOMAIN edges
    BY <1>6, <1>13, <1>14
  <2>2. \A key \in DOMAIN edges : \E k \in DOMAIN out' : key = out'[k].between
    BY <1>6, <1>13, <1>14
  <2> QED BY <2>1, <2>2
<1>16. DOMAIN edges = {p \in names \X names : p[1] < p[2] /\ shared(p) # {}}
  BY <1>9, <1>10
<1>17. \A k \in DOMAIN out' : /\ SeqExt!ToSet(out'[k].deps) = shared(out'[k].between)
                              /\ Len(out'[k].deps) = Cardinality(shared(out'[k].between))
  BY <1>6, <1>11, <1>12, <1>13, <1>14
<1>18. \A k, l \in DOMAIN out' : out'[k].between = out'[l].between => k = l
  BY <1>6, <1>13, <1>14
<1>19. \A i \in Services : Deps(i)' = Deps(i)
  BY <1>2 DEF Deps
<1>20. GraphExact'
  <2>1. Exact(out', got)
    BY <1>15, <1>16, <1>17, <1>18, Zenon DEF Exact, shared, names, dep, Deps
  <2> QED BY <1>2, <2>1, ExactIs
<1>21. \A i \in Services : Deps(i)' \subseteq Nat /\ (pc'[i] = "done" => results'[i].deps = Deps(i)')
  BY <1>2, <1>3, <1>19 DEF GraphInv
<1> QED BY <1>2, <1>20, <1>21 DEF GraphInv

LEMMA GraphNext == FanInv /\ GraphInv /\ [CallNext]_<<vars, dvars>> => GraphInv'
<1> SUFFICES ASSUME FanInv, GraphInv, [CallNext]_<<vars, dvars>>, tool' = "service_graph"
             PROVE  GraphInv'
  BY DEF GraphInv
<1>1. tool = "service_graph"
  BY SameTool
<1>2. CASE Next
  <2>1. CASE Begin
    <3>1. /\ phase \in {"begin", "fan"} /\ phase' \in {"begin", "fan"}
          /\ UNCHANGED <<tool, edges, got, pc, results>>
      BY <1>1, <2>1 DEF Begin
    <3>2. \A i \in Services : Deps(i)' = Deps(i)
      BY <3>1 DEF Deps
    <3>3. \A i \in Services : Deps(i)' \subseteq Nat /\ (pc'[i] = "done" => results'[i].deps = Deps(i)')
      BY <1>1, <3>1, <3>2 DEF GraphInv
    <3> QED BY <3>1, <3>3, QuietGraph
  <2>2. CASE Share \/ (\E d \in left : PairUp(d)) \/ GraphReply
    BY <2>2, ShareStep, PairUpStep, GraphReplyStep
  <2>3. ~(SortAndReply \/ CountAndReply \/ PlainReply)
    BY <1>1 DEF SortAndReply, CountAndReply, PlainReply
  <2>4. ASSUME NEW i \in Services, Goroutine(i)
        PROVE  GraphInv'
    <3>1. Ask(i) \/ ServiceGraph(i)
      BY <1>1, <2>4 DEF Goroutine, CheckServices, FindOutdated, ListServices, Dashboard, CheckCommand,
           CompareReleaseVsDeployed, UpgradePlan, DependencyMatrix, ReleaseTimeline, TimelineCommand, GetTimeline
    <3> QED BY <1>1, <3>1, AskDeps, FillsSlot
  <2> QED BY <1>2, <2>1, <2>2, <2>3, <2>4 DEF Next, Handler
<1>3. CASE UNCHANGED vars
  <2>1. /\ UNCHANGED <<tool, cluster, phase, pc, got, results, left, edges, out>>
    BY <1>3 DEF vars
  <2>2. /\ SharedDeps' = SharedDeps /\ \A i \in Services : Deps(i)' = Deps(i)
        /\ \A d : KeysOf(d)' = KeysOf(d)
    BY <2>1, SameGraph
  <2>3. ASSUME EdgesOf(SharedDeps \ left)
        PROVE  EdgesOf(SharedDeps \ left)'
    <3> DEFINE D == SharedDeps \ left
    <3>1. D' = D
      BY <2>1, <2>2
    <3>2. \A key : {d \in D' : key \in KeysOf(d)'} = {d \in D : key \in KeysOf(d)}
      BY <2>2, <3>1
    <3>3. {KeysOf(d)' : d \in D'} = {KeysOf(d) : d \in D}
      BY <2>2, <3>1
    <3> HIDE DEF D
    <3>4. DOMAIN edges' = UNION {KeysOf(d)' : d \in D'}
      BY <2>1, <2>3, <3>3 DEF EdgesOf, D
    <3>5. \A key \in DOMAIN edges :
            /\ IsSequence(edges[key])
            /\ {edges[key][k] : k \in DOMAIN edges[key]} = {d \in D : key \in KeysOf(d)}
            /\ \A k, l \in DOMAIN edges[key] : edges[key][k] = edges[key][l] => k = l
      BY <2>3 DEF EdgesOf, D
    <3>6. edges' = edges
      BY <2>1
    <3>7. \A key \in DOMAIN edges' :
            /\ IsSequence(edges'[key])
            /\ {edges'[key][k] : k \in DOMAIN edges'[key]} = {d \in D' : key \in KeysOf(d)'}
            /\ \A k, l \in DOMAIN edges'[key] : edges'[key][k] = edges'[key][l] => k = l
      BY <3>2, <3>5, <3>6
    <3>8. EdgesOf(D)'
      BY <3>4, <3>7 DEF EdgesOf, IsSequence
    <3> QED BY <3>8 DEF D
  <2>4. GraphExact'
    <3>1. Replied({"service_graph"})' => Replied({"service_graph"})
      BY <2>1 DEF Replied, Refused
    <3>2. Replied({"service_graph"}) => Exact(out, got)
      BY <1>1, ExactIs DEF GraphInv
    <3>3. out' = out /\ got' = got
      BY <2>1
    <3>4. Replied({"service_graph"})' => Exact(out', got')
      BY <3>1, <3>2, <3>3
    <3> QED BY <3>4, ExactIs
  <2> QED BY <1>1, <2>1, <2>2, <2>3, <2>4 DEF GraphInv
<1> QED BY <1>2, <1>3 DEF CallNext

\* The graph has an edge for each two services that share a dependency and for no others,
\* and on it what they share, each once, for any services and files and whatever the order
\* of Go's maps (handleServiceGraph, edgeMap).
THEOREM GraphIsExact == CallSpec => []GraphExact
<1>1. FanInv /\ GraphInv /\ [CallNext]_<<vars, dvars>> => GraphInv'
  BY GraphNext
<1>2. GraphInv => GraphExact
  BY DEF GraphInv, GraphExact, Replied
<1>3. CallSpec => []GraphInv
  BY <1>1, GraphInit, Collecting, PTL DEF CallSpec
<1> QED BY <1>2, <1>3, PTL
=============================================================================
