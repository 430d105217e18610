--------------------------- MODULE WatchToolProofs --------------------------
(* The cached provider keeps what it promises, for any callers and keys; the*)
(* watch tool and the other tools use it as it is meant to be used, and the *)
(* watch tool posts each change once.                                       *)
EXTENDS WatchTool, SequenceTheorems, FiniteSetTheorems, TLAPS

-----------------------------------------------------------------------------
(* The cached provider.                                                     *)

\* A value not replaced before a moment was not replaced before an earlier one.
LEMMA CurrentEarlier ==
  ASSUME CTypeOK, NEW k \in Keys, NEW v \in Nat, NEW t \in Int, NEW u \in Int,
         u <= t, CurrentAt(k, v, t)
  PROVE  CurrentAt(k, v, u)
<1>1. SUFFICES ASSUME v < Len(pubs[k]) PROVE pubs[k][v + 1] >= u
  BY DEF CurrentAt
<1>2. pubs[k] \in Seq(0..MaxTime) /\ pubs[k][v + 1] >= t
  BY <1>1 DEF CTypeOK, CurrentAt
<1>3. pubs[k][v + 1] \in 0..MaxTime
  <2>1. v + 1 \in 1..Len(pubs[k])
    BY <1>1, <1>2
  <2> QED BY <1>2, <2>1, ElementOfSeq
<1> QED BY <1>2, <1>3, CachedProviderAssumption DEF CachedProviderAssumption

\* A publication dates its value now, which is late enough for every value that
\* was current until then.
LEMMA PublishedNow ==
  ASSUME CacheInv, NEW q \in Keys, NewValue(q), NEW k \in Keys,
         NEW v \in Nat, NEW t \in Int, t <= now, CurrentAt(k, v, t)
  PROVE  CurrentAt(k, v, t)'
<1>1. /\ pubs \in [Keys -> Seq(0..MaxTime)] /\ now \in 0..MaxTime
      /\ pubs' = [pubs EXCEPT ![q] = Append(pubs[q], now)]
  BY DEF CacheInv, CTypeOK, NewValue
<1>2. CASE k = q
  <2>1. /\ pubs'[k] = Append(pubs[k], now) /\ Len(pubs'[k]) = Len(pubs[k]) + 1
        /\ pubs'[k][Len(pubs[k]) + 1] = now
        /\ \A i \in 1..Len(pubs[k]) : pubs'[k][i] = pubs[k][i]
    BY <1>1, <1>2
  <2>2. SUFFICES ASSUME v < Len(pubs[k]) + 1
                 PROVE  pubs'[k][v + 1] >= t
    BY <2>1 DEF CurrentAt
  <2>3. CASE v = Len(pubs[k])
    BY <2>1, <2>3, <1>1, CachedProviderAssumption DEF CachedProviderAssumption
  <2>4. CASE v < Len(pubs[k])
    <3>1. v + 1 \in 1..Len(pubs[k])
      BY <1>1, <2>4
    <3> QED BY <2>1, <2>4, <3>1 DEF CurrentAt
  <2> QED BY <1>1, <2>2, <2>3, <2>4
<1>3. CASE k # q
  BY <1>1, <1>3 DEF CurrentAt
<1> QED BY <1>2, <1>3

\* Entries are typed, and those present hold a value.
LEMMA EntryType ==
  ASSUME NEW e \in Entry, e # Absent
  PROVE  e.val \in Nat \ {0} /\ e.expires \in Nat
  BY DEF Entry

\* In a state of the invariant.
Times == now \in Nat /\ TTL \in Nat /\ MaxLag \in Nat /\ MaxTime \in Nat

LEMMA InvTimes == CacheInv => Times
  BY CachedProviderAssumption DEF CacheInv, CTypeOK, CachedProviderAssumption, Times

\* A step that leaves clock and publications alone keeps what was known of the
\* entries and calls it does not touch.
LEMMA QuietStep ==
  ASSUME CacheInv, now' = now, pubs' = pubs, CTypeOK',
         \A k \in Keys : entries'[k] = entries[k] \/ EntryOK(k, entries'[k]),
         NEW c \in Callers, \A d \in Callers \ {c} : call'[d] = call[d],
         /\ call'[c].pc # "free" => call'[c].key \in Keys
         /\ call'[c].pc = "judge" => /\ call'[c].entry # Absent
                                     /\ EntryOK(call'[c].key, call'[c].entry)
         /\ call'[c].pc = "store" =>
              /\ call'[c].val \in 1..Len(pubs[call'[c].key])
              /\ call'[c].at <= now /\ now <= call'[c].at + MaxLag
              /\ CurrentAt(call'[c].key, call'[c].val, call'[c].at),
         AnswersFresh'
  PROVE  CacheInv'
  BY DEF CacheInv, EntryOK, CurrentAt

\* What a call returns is fresh when the value was current TTL and MaxLag ago.
LEMMA FreshAnswer ==
  ASSUME NEW c, NEW k, NEW v, answer' = Returned(c, k, v), now' = now, pubs' = pubs,
         CurrentAt(k, v, now - TTL - MaxLag)
  PROVE  AnswersFresh'
<1>1. answer'.key = k /\ answer'.val = v
  BY DEF Returned
<1>2. v < Len(pubs'[k]) => pubs'[k][v + 1] >= now' - TTL - MaxLag
  BY DEF CurrentAt
<1> QED BY <1>1, <1>2 DEF AnswersFresh, CurrentAt

\* A call that moves to another well-formed stage leaves everything well typed.
LEMMA CallMoves ==
  ASSUME CTypeOK, NEW c \in Callers, now' = now, pubs' = pubs, entries' = entries,
         NEW j \in [pc : {"free", "judge", "evict", "fetch", "store"},
                    key : Keys \cup {"none"}, entry : Entry, val : Nat, at : Nat],
         call' = [call EXCEPT ![c] = j]
  PROVE  CTypeOK' /\ call'[c] = j
<1>1. call' \in [Callers -> [pc : {"free", "judge", "evict", "fetch", "store"},
                             key : Keys \cup {"none"}, entry : Entry, val : Nat, at : Nat]]
      /\ call'[c] = j
  BY DEF CTypeOK
<1> QED BY <1>1 DEF CTypeOK

LEMMA ServeStep ==
  ASSUME CacheInv, NEW c \in Callers, Serve(c) \/ \E k \in Keys : Lookup(c, k)
  PROVE  CacheInv'
<1>0. /\ Times /\ CTypeOK /\ call[c] \in [pc : {"free", "judge", "evict", "fetch", "store"},
               key : Keys \cup {"none"}, entry : Entry, val : Nat, at : Nat]
      /\ Absent \in Entry
  BY InvTimes DEF CacheInv, CTypeOK, Entry
<1> USE DEF Times, CTypeOK
<1>1. CASE \E k \in Keys : Lookup(c, k)
  <2> PICK k \in Keys : Lookup(c, k)
    BY <1>1
  <2>1. /\ now' = now /\ pubs' = pubs /\ entries' = entries /\ answer' = NoAnswer
        /\ call' = [call EXCEPT ![c] = [Free EXCEPT
             !.pc = IF entries[k] = Absent THEN "fetch" ELSE "judge",
             !.key = k, !.entry = entries[k]]]
    BY DEF Lookup
  <2>2. /\ call'[c].key = k /\ call'[c].entry = entries[k]
        /\ call'[c].pc = IF entries[k] = Absent THEN "fetch" ELSE "judge"
    BY <1>0, <2>1 DEF Free
  <2>3. CTypeOK'
    BY <1>0, <2>1 DEF Free
  <2>4. AnswersFresh'
    BY <2>1 DEF AnswersFresh, NoAnswer
  <2>5. EntryOK(k, entries[k])
    BY DEF CacheInv
  <2> QED BY <1>0, <2>1, <2>2, <2>3, <2>4, <2>5, QuietStep
<1>2. CASE Judge(c)
  <2>1. /\ now' = now /\ pubs' = pubs
        /\ call[c].pc = "judge" /\ call[c].entry # Absent /\ call[c].key \in Keys
        /\ EntryOK(call[c].key, call[c].entry)
    BY <1>2 DEF CacheInv, Judge, JudgeStep
  <2>2. entries' = entries
    BY <1>0, <1>2 DEF Judge, JudgeStep
  <2>3. CASE now <= call[c].entry.expires
    <3>1. call' = [call EXCEPT ![c] = Free]
          /\ answer' = Returned(c, call[c].key, call[c].entry.val)
      BY <1>2, <2>3 DEF Judge, JudgeStep
    <3>2. CTypeOK' /\ call'[c].pc = "free"
      BY <1>0, <2>1, <2>2, <3>1 DEF Free
    <3>3. AnswersFresh'
      <4>1. CurrentAt(call[c].key, call[c].entry.val, call[c].entry.expires - TTL - MaxLag)
        BY <2>1 DEF EntryOK
      <4>2. call[c].entry.val \in Nat /\ call[c].entry.expires \in Nat
        BY <1>0, <2>1, EntryType
      <4>4. CurrentAt(call[c].key, call[c].entry.val, now - TTL - MaxLag)
        <5>1. /\ now - TTL - MaxLag \in Int /\ call[c].entry.expires - TTL - MaxLag \in Int
              /\ now - TTL - MaxLag <= call[c].entry.expires - TTL - MaxLag
          BY <1>0, <2>3, <4>2
        <5> QED BY <1>0, <2>1, <4>1, <4>2, <5>1, CurrentEarlier
      <4> QED BY <2>1, <3>1, <4>4, FreshAnswer
    <3>4. \A d \in Callers \ {c} : call'[d] = call[d]
      BY <1>0, <3>1
    <3>5. \A k \in Keys : entries'[k] = entries[k]
      BY <2>2
    <3> QED BY <2>1, <3>2, <3>3, <3>4, <3>5, QuietStep
  <2>4. CASE ~(now <= call[c].entry.expires)
    <3>1. call' = [call EXCEPT ![c] = [call[c] EXCEPT !.pc = "evict"]] /\ answer' = NoAnswer
      BY <1>2, <2>4 DEF Judge, JudgeStep
    <3>2. CTypeOK' /\ call'[c].pc = "evict" /\ call'[c].key = call[c].key
      <4> DEFINE j == [call[c] EXCEPT !.pc = "evict"]
      <4>1. /\ j \in [pc : {"free", "judge", "evict", "fetch", "store"},
                      key : Keys \cup {"none"}, entry : Entry, val : Nat, at : Nat]
            /\ j.pc = "evict" /\ j.key = call[c].key
        BY <1>0
      <4>2. call' = [call EXCEPT ![c] = j]
        BY <3>1
      <4> HIDE DEF j
      <4>3. CTypeOK' /\ call'[c] = j
        BY <1>0, <2>1, <2>2, <4>1, <4>2, CallMoves
      <4> QED BY <4>1, <4>3
    <3>3. AnswersFresh'
      BY <3>1 DEF AnswersFresh, NoAnswer
    <3> QED BY <1>0, <2>1, <2>2, <3>1, <3>2, <3>3, QuietStep
  <2> QED BY <2>3, <2>4
<1>3. CASE Evict(c)
  <2>1. /\ now' = now /\ pubs' = pubs /\ answer' = NoAnswer /\ call[c].key \in Keys
        /\ entries' = [entries EXCEPT ![call[c].key] = Absent]
        /\ call' = [call EXCEPT ![c].pc = "fetch"]
    BY <1>3 DEF Evict, CacheInv
  <2>2. CTypeOK' /\ call'[c].pc = "fetch" /\ call'[c].key = call[c].key
    BY <1>0, <2>1
  <2>3. AnswersFresh'
    BY <2>1 DEF AnswersFresh, NoAnswer
  <2>4. \A k \in Keys : entries'[k] = entries[k] \/ EntryOK(k, entries'[k])
    BY <1>0, <2>1 DEF EntryOK
  <2> QED BY <1>0, <2>1, <2>2, <2>3, <2>4, QuietStep
<1>4. CASE Fetch(c)
  <2>1. /\ now' = now /\ pubs' = pubs /\ entries' = entries /\ answer' = NoAnswer
        /\ call[c].key \in Keys
        /\ call' = [call EXCEPT ![c] = [call[c] EXCEPT
             !.pc = "store", !.val = Len(pubs[call[c].key]), !.at = now]]
    BY <1>4 DEF Fetch, CacheInv
  <2>2. /\ CTypeOK' /\ call'[c].pc = "store" /\ call'[c].key = call[c].key
        /\ call'[c].val = Len(pubs[call[c].key]) /\ call'[c].at = now
    <3> DEFINE j == [call[c] EXCEPT !.pc = "store", !.val = Len(pubs[call[c].key]), !.at = now]
    <3>1. Len(pubs[call[c].key]) \in Nat
      BY <1>0, <2>1
    <3>2. /\ j \in [pc : {"free", "judge", "evict", "fetch", "store"},
                    key : Keys \cup {"none"}, entry : Entry, val : Nat, at : Nat]
          /\ j.pc = "store" /\ j.key = call[c].key
          /\ j.val = Len(pubs[call[c].key]) /\ j.at = now
      BY <1>0, <3>1
    <3>3. call' = [call EXCEPT ![c] = j]
      BY <2>1
    <3> HIDE DEF j
    <3>4. CTypeOK' /\ call'[c] = j
      BY <1>0, <2>1, <3>2, <3>3, CallMoves
    <3> QED BY <3>2, <3>4
  <2>3. AnswersFresh'
    BY <2>1 DEF AnswersFresh, NoAnswer
  <2>4. Len(pubs[call[c].key]) \in 1..Len(pubs[call[c].key])
    BY <1>0, <2>1 DEF CacheInv
  <2>5. CurrentAt(call'[c].key, call'[c].val, call'[c].at)
    BY <1>0, <2>1, <2>2 DEF CurrentAt
  <2>6. /\ \A d \in Callers \ {c} : call'[d] = call[d]
        /\ \A k \in Keys : entries'[k] = entries[k]
    BY <1>0, <2>1
  <2>7. /\ call'[c].key \in Keys /\ call'[c].val \in 1..Len(pubs[call'[c].key])
        /\ call'[c].at <= now /\ now <= call'[c].at + MaxLag
    BY <1>0, <2>1, <2>2, <2>4
  <2> QED BY <2>1, <2>2, <2>3, <2>5, <2>6, <2>7, QuietStep
<1>5. CASE FetchError(c)
  <2>1. /\ now' = now /\ pubs' = pubs /\ entries' = entries /\ answer'.by = "error"
        /\ call' = [call EXCEPT ![c] = Free]
    BY <1>0, <1>5 DEF FetchError
  <2>2. CTypeOK' /\ call'[c].pc = "free"
    BY <1>0, <2>1 DEF Free
  <2>3. AnswersFresh'
    BY <2>1 DEF AnswersFresh
  <2> QED BY <1>0, <2>1, <2>2, <2>3, QuietStep
<1>6. CASE SetEntry(c)
  <2> DEFINE j == call[c]
             e == [val |-> j.val, expires |-> now + TTL]
  <2>1. /\ now' = now /\ pubs' = pubs /\ j.key \in Keys
        /\ entries' = [entries EXCEPT ![j.key] = e] /\ call' = [call EXCEPT ![c] = Free]
        /\ answer' = Returned(c, j.key, j.val)
        /\ j.val \in 1..Len(pubs[j.key])
        /\ j.at <= now /\ now <= j.at + MaxLag /\ CurrentAt(j.key, j.val, j.at)
    BY <1>6 DEF SetEntry, CacheInv
  <2>2. j.val \in Nat \ {0} /\ j.at \in Nat
    BY <1>0, <2>1
  <2>3. CTypeOK' /\ call'[c].pc = "free"
    BY <1>0, <2>1, <2>2 DEF Free, Entry
  <2>5. CurrentAt(j.key, j.val, now - MaxLag)
    <3>1. now - MaxLag \in Int /\ j.at \in Int /\ now - MaxLag <= j.at /\ j.val \in Nat
      BY <1>0, <2>1, <2>2
    <3> HIDE DEF j
    <3> QED BY <1>0, <2>1, <3>1, CurrentEarlier
  <2>6. \A k \in Keys : entries'[k] = entries[k] \/ EntryOK(k, entries'[k])
    <3>1. e.expires - TTL - MaxLag = now - MaxLag /\ e.val = j.val /\ e.expires <= now + TTL
      BY <1>0
    <3>2. EntryOK(j.key, e)
      BY <2>5, <3>1 DEF EntryOK
    <3> HIDE DEF e
    <3> SUFFICES ASSUME NEW k \in Keys PROVE entries'[k] = entries[k] \/ EntryOK(k, entries'[k])
      OBVIOUS
    <3>3. CASE k = j.key
      <4>1. entries'[k] = e
        BY <1>0, <2>1, <3>3
      <4> QED BY <3>2, <3>3, <4>1
    <3>4. CASE k # j.key
      BY <1>0, <2>1, <3>4
    <3> QED BY <3>3, <3>4
  <2>7. AnswersFresh'
    <3>1. CurrentAt(j.key, j.val, now - TTL - MaxLag)
      <4>1. /\ now - TTL - MaxLag \in Int /\ now - MaxLag \in Int /\ j.val \in Nat
            /\ now - TTL - MaxLag <= now - MaxLag
        BY <1>0, <2>2
      <4> HIDE DEF j
      <4> QED BY <1>0, <2>1, <2>5, <4>1, CurrentEarlier
    <3> QED BY <2>1, <3>1, FreshAnswer
  <2> QED BY <1>0, <2>1, <2>3, <2>6, <2>7, QuietStep
<1> QED BY <1>1, <1>2, <1>3, <1>4, <1>5, <1>6 DEF Serve

LEMMA NewValueStep ==
  ASSUME CacheInv, NEW q \in Keys, NewValue(q)
  PROVE  CacheInv'
<1>0. /\ Times /\ CTypeOK /\ now' = now /\ entries' = entries /\ call' = call
      /\ answer' = NoAnswer /\ pubs' = [pubs EXCEPT ![q] = Append(pubs[q], now)]
  BY InvTimes DEF CacheInv, NewValue
<1>1. CTypeOK'
  BY <1>0 DEF CTypeOK
<1>2. \A k \in Keys : \A v \in 1..Len(pubs'[k]) : pubs'[k][v] <= now'
  <2> SUFFICES ASSUME NEW k \in Keys, NEW v \in 1..Len(pubs'[k])
               PROVE  pubs'[k][v] <= now
    BY <1>0
  <2>1. CASE k = q /\ v = Len(pubs[q]) + 1
    BY <1>0, <2>1 DEF CTypeOK, Times
  <2>2. CASE ~(k = q /\ v = Len(pubs[q]) + 1)
    <3>1. v \in 1..Len(pubs[k]) /\ pubs'[k][v] = pubs[k][v]
      BY <1>0, <2>2 DEF CTypeOK
    <3> QED BY <3>1 DEF CacheInv
  <2> QED BY <2>1, <2>2
<1>3. ASSUME NEW k \in Keys, NEW e \in Entry, EntryOK(k, e)
      PROVE  EntryOK(k, e)'
  <2>1. CASE e = Absent
    BY <2>1 DEF EntryOK
  <2>2. CASE e # Absent
    <3>1. /\ e.val \in Nat /\ e.expires \in Nat /\ e.expires <= now + TTL
          /\ CurrentAt(k, e.val, e.expires - TTL - MaxLag)
      BY <1>3, <2>2, EntryType DEF EntryOK
    <3>2. e.expires - TTL - MaxLag \in Int /\ e.expires - TTL - MaxLag <= now
      BY <1>0, <3>1 DEF Times
    <3> QED BY <1>0, <3>1, <3>2, PublishedNow DEF EntryOK
  <2> QED BY <2>1, <2>2
<1>4. \A k \in Keys : EntryOK(k, entries[k])'
  BY <1>0, <1>3 DEF CacheInv, CTypeOK
<1>5. \A c \in Callers : call[c].pc = "judge" => EntryOK(call[c].key, call[c].entry)'
  <2> SUFFICES ASSUME NEW c \in Callers, call[c].pc = "judge"
               PROVE  EntryOK(call[c].key, call[c].entry)'
    OBVIOUS
  <2> QED BY <1>0, <1>3 DEF CacheInv, CTypeOK
<1>6. ASSUME NEW c \in Callers, call[c].pc = "store"
      PROVE  /\ call[c].val \in 1..Len(pubs'[call[c].key])
             /\ CurrentAt(call[c].key, call[c].val, call[c].at)'
  <2>1. /\ call[c].key \in Keys /\ call[c].val \in 1..Len(pubs[call[c].key])
        /\ call[c].val \in Nat /\ call[c].at \in Nat /\ call[c].at <= now
        /\ CurrentAt(call[c].key, call[c].val, call[c].at)
    BY <1>0, <1>6 DEF CacheInv, CTypeOK
  <2>2. CurrentAt(call[c].key, call[c].val, call[c].at)'
    <3> PICK k \in Keys, v \in Nat, t \in Int :
          k = call[c].key /\ v = call[c].val /\ t = call[c].at
      BY <2>1
    <3>1. CurrentAt(k, v, t)'
      BY <2>1, PublishedNow
    <3> QED BY <1>0, <3>1 DEF CurrentAt
  <2>3. Len(pubs'[call[c].key]) >= Len(pubs[call[c].key]) /\ Len(pubs'[call[c].key]) \in Nat
    BY <1>0, <2>1 DEF CTypeOK
  <2> QED BY <1>0, <2>1, <2>2, <2>3 DEF CTypeOK
<1> QED BY <1>0, <1>1, <1>2, <1>4, <1>5, <1>6 DEF CacheInv, AnswersFresh, NoAnswer, EntryOK

LEMMA PassStep ==
  ASSUME CacheInv, Pass
  PROVE  CacheInv'
<1>0. /\ Times /\ now' = now + 1 /\ now < MaxTime /\ answer' = NoAnswer
      /\ pubs' = pubs /\ entries' = entries /\ call' = call
      /\ \A c \in Callers : call[c].pc = "store" => now < call[c].at + MaxLag
  BY InvTimes DEF Pass
<1>1. CTypeOK'
  BY <1>0 DEF CTypeOK, CacheInv, Times
<1>2. \A k \in Keys : \A v \in 1..Len(pubs[k]) : pubs[k][v] <= now + 1
  BY <1>0 DEF CacheInv, CTypeOK, Times
<1>3. ASSUME NEW k, NEW e \in Entry, EntryOK(k, e)
      PROVE  EntryOK(k, e)'
  BY <1>0, <1>3, EntryType DEF EntryOK, CurrentAt, Times
<1>4. \A k \in Keys : EntryOK(k, entries[k])'
  BY <1>0, <1>3 DEF CacheInv, CTypeOK
<1>5. \A c \in Callers : call[c].pc = "judge" => EntryOK(call[c].key, call[c].entry)'
  BY <1>0, <1>3 DEF CacheInv, CTypeOK
<1>6. \A c \in Callers : call[c].pc = "store" =>
        /\ call[c].at <= now + 1 /\ now + 1 <= call[c].at + MaxLag
        /\ CurrentAt(call[c].key, call[c].val, call[c].at)'
  BY <1>0 DEF CacheInv, CTypeOK, Times, CurrentAt
<1> QED BY <1>0, <1>1, <1>2, <1>4, <1>5, <1>6 DEF CacheInv, AnswersFresh, NoAnswer, EntryOK

\* The cache's invariant, for any callers and keys and any TTL and lag.
THEOREM CacheInvariance == CSpec => []CacheInv
<1>1. CInit => CacheInv
  <2> SUFFICES ASSUME CInit PROVE CacheInv
    OBVIOUS
  <2>1. \A k \in Keys : pubs[k] = <<0>> /\ Len(pubs[k]) = 1 /\ pubs[k][1] = 0
    BY DEF CInit
  <2>2. CTypeOK
    BY <2>1, CachedProviderAssumption DEF CInit, CTypeOK, CachedProviderAssumption, Free, Entry, Absent
  <2> QED BY <2>1, <2>2 DEF CInit, CacheInv, EntryOK, AnswersFresh, NoAnswer, Free
<1>2. CacheInv /\ [CNext]_cvars => CacheInv'
  <2> SUFFICES ASSUME CacheInv, [CNext]_cvars PROVE CacheInv'
    OBVIOUS
  <2>1. CASE UNCHANGED cvars
    BY <2>1 DEF cvars, CacheInv, CTypeOK, EntryOK, CurrentAt, AnswersFresh
  <2> QED BY <2>1, ServeStep, NewValueStep, PassStep DEF CNext
<1> QED BY <1>1, <1>2, PTL DEF CSpec

\* No call is answered with a value that was replaced more than TTL and MaxLag
\* ago, whatever calls overlap.
THEOREM AnswersAreFresh == CSpec => []AnswersFresh
<1>1. CacheInv => AnswersFresh
  BY DEF CacheInv
<1> QED BY <1>1, CacheInvariance, PTL

-----------------------------------------------------------------------------
(* The tool and the provider.                                               *)

\* Every step of the tool is a step of the provider or leaves it alone.
LEMMA ToolStep ==
  ASSUME WNext
  PROVE  [CNext]_cvars
<1>0. /\ Services = Keys
      /\ \A c \in Calls, s \in Services : Goroutine(c, s) \in Callers
      /\ Others \subseteq Callers
  BY WatchToolAssumption DEF WatchToolAssumption
<1>1. CASE Elsewhere
  BY <1>0, <1>1 DEF Elsewhere, CNext
<1>2. ASSUME NEW c \in Calls, Start(c) \/ Report(c)
      PROVE  UNCHANGED cvars
  BY <1>2 DEF Start, Report
<1>3. ASSUME NEW c \in Calls, NEW s \in Services, Ask(c, s)
      PROVE  CNext
  BY <1>0, <1>3 DEF Ask, CNext
<1>4. ASSUME NEW c \in Calls, NEW s \in Services, Receive(c, s)
      PROVE  CNext
  BY <1>0, <1>4 DEF Receive, CNext
<1>5. ASSUME NEW c \in Calls, NEW s \in Services,
             Swap(c, s) \/ \E ok \in BOOLEAN : Post(c, s, ok)
      PROVE  UNCHANGED cvars
  BY <1>5 DEF Swap, SwapTo, Post
<1> QED BY <1>1, <1>2, <1>3, <1>4, <1>5 DEF WNext

\* handleWatchReleases and the tools beside it implement the cached provider's
\* specification.
THEOREM ToolUsesProvider == WSpec => CSpec
<1>1. WInit => CInit
  BY DEF WInit
<1>2. [WNext]_<<cvars, wvars>> => [CNext]_cvars
  <2>1. CASE WNext
    BY <2>1, ToolStep
  <2>2. CASE UNCHANGED <<cvars, wvars>>
    BY <2>2
  <2> QED BY <2>1, <2>2
<1> QED BY <1>1, <1>2, PTL DEF WSpec, CSpec

\* No call of watch_releases, however many overlap, is answered with a release
\* that was replaced more than TTL and MaxLag ago.
THEOREM ToolAnswersAreFresh == WSpec => []AnswersFresh
  BY ToolUsesProvider, AnswersAreFresh, PTL

-----------------------------------------------------------------------------
(* Each change is posted once.                                              *)

ToolType ==
  /\ last \in [Services -> Nat]
  /\ work \in [Calls -> [Services -> [pc : {"none", "get", "swap", "post", "done"},
                                     tag : Nat, old : Nat]]]
  /\ changes \in [Services -> Seq(Nat \X Nat)]
  /\ posted \in [Services -> Seq(Nat \X Nat)]

\* Only a goroutine that waits for a release has a call in the provider.
InTurn == \A c \in Calls, s \in Services :
            call[Goroutine(c, s)].pc # "free" => work[c][s].pc = "get"

ToolInv == ToolType /\ InTurn /\ EachChangePostedOnce

Made(list, e) == {i \in DOMAIN list : list[i] = e}

\* A list with one more entry has it once more, and every other entry as before.
LEMMA MadeOnceMore ==
  ASSUME NEW S, NEW list \in Seq(S), NEW x \in S, NEW e
  PROVE  /\ Cardinality(Made(list, e)) \in Nat
         /\ Cardinality(Made(Append(list, x), e)) =
              Cardinality(Made(list, e)) + (IF x = e THEN 1 ELSE 0)
<1> DEFINE n   == Len(list) + 1
           new == Append(list, x)
<1>1. /\ Len(list) \in Nat /\ DOMAIN list = 1..Len(list) /\ DOMAIN new = 1..n
      /\ new[n] = x /\ n \notin 1..Len(list) /\ 1..n = 1..Len(list) \cup {n}
      /\ \A i \in 1..Len(list) : new[i] = list[i]
  OBVIOUS
<1> HIDE DEF n, new
<1>2. IsFiniteSet(Made(list, e)) /\ n \notin Made(list, e)
  <2>1. IsFiniteSet(1..Len(list))
    BY <1>1, FS_Interval
  <2>2. Made(list, e) \in SUBSET (1..Len(list))
    BY <1>1 DEF Made
  <2> QED BY <1>1, <2>1, <2>2, FS_Subset
<1>3. Made(new, e) = IF x = e THEN Made(list, e) \cup {n} ELSE Made(list, e)
  BY <1>1 DEF Made
<1>4. Cardinality(Made(list, e)) \in Nat
  BY <1>2, FS_CardinalityType
<1>5. Cardinality(Made(list, e) \cup {n}) = Cardinality(Made(list, e)) + 1
  BY <1>2, FS_AddElement
<1>6. Cardinality(Made(new, e)) = Cardinality(Made(list, e)) + (IF x = e THEN 1 ELSE 0)
  BY <1>3, <1>4, <1>5
<1> QED BY <1>4, <1>6 DEF new

\* The goroutines that owe e are finitely many; one more or less counts one.
LEMMA OwedFinite ==
  ASSUME NEW s, NEW e
  PROVE  IsFiniteSet(Owed(s, e)) /\ Cardinality(Owed(s, e)) \in Nat
<1>1. Owed(s, e) \in SUBSET Calls
  BY DEF Owed
<1>2. IsFiniteSet(Calls)
  BY WatchToolAssumption
<1> QED BY <1>1, <1>2, FS_Subset, FS_CardinalityType

\* The promise, as a sum of three counts.
Even(s, e) == Cardinality(Made(changes[s], e)) =
                Cardinality(Made(posted[s], e)) + Cardinality(Owed(s, e))

LEMMA PostedOnce == EachChangePostedOnce <=>
                      (Notifying => \A s \in Services, e \in Versions \X Versions : Even(s, e))
  BY DEF EachChangePostedOnce, Even, Made

\* A step that changes no list and moves no goroutine to or from its post.
LEMMA QuietWork ==
  ASSUME ToolInv, ToolType', InTurn', UNCHANGED <<changes, posted>>,
         \A c \in Calls, s \in Services :
           work'[c][s] = work[c][s] \/ (work[c][s].pc # "post" /\ work'[c][s].pc # "post")
  PROVE  ToolInv'
<1>1. \A s \in Services : \A e : Owed(s, e)' = Owed(s, e)
  BY DEF Owed
<1> QED BY <1>1 DEF ToolInv, EachChangePostedOnce

\* What goes on in the provider: only the caller's own call moves.
LEMMA OwnCall ==
  ASSUME CTypeOK, NEW c \in Callers, Serve(c) \/ \E k \in Keys : Lookup(c, k)
  PROVE  \A d \in Callers \ {c} : call'[d] = call[d]
BY DEF CTypeOK, Serve, Lookup, Judge, JudgeStep, Evict, Fetch, FetchError, SetEntry

\* A call that is not answered goes on; one that is answered is over, with a number.
LEMMA Answered ==
  ASSUME CTypeOK, NEW c \in Callers, Serve(c)
  PROVE  /\ call[c].pc # "free"
         /\ answer'.by # "none" => call'[c].pc = "free"
         /\ answer'.by = "call" => answer'.val \in Nat
<1>1. /\ call \in [Callers -> [pc : {"free", "judge", "evict", "fetch", "store"},
                               key : Keys \cup {"none"}, entry : Entry, val : Nat, at : Nat]]
      /\ Free.pc = "free"
  BY DEF CTypeOK, Free
<1>2. call[c].entry.val \in Nat /\ call[c].val \in Nat
  BY <1>1 DEF Entry, Absent
<1>3. CASE Judge(c)
  BY <1>1, <1>2, <1>3 DEF Judge, JudgeStep, Returned, NoAnswer
<1>4. CASE Evict(c)
  BY <1>1, <1>4 DEF Evict, NoAnswer
<1>5. CASE Fetch(c)
  BY <1>1, <1>5 DEF Fetch, NoAnswer
<1>6. CASE FetchError(c)
  BY <1>1, <1>6 DEF FetchError
<1>7. CASE SetEntry(c)
  BY <1>1, <1>2, <1>7 DEF SetEntry, Returned
<1> QED BY <1>3, <1>4, <1>5, <1>6, <1>7 DEF Serve

\* The goroutines of the tool are callers, each its own, and none of another tool.
LEMMA Goroutines ==
  /\ \A c \in Calls, s \in Services : Goroutine(c, s) \in Callers \ Others
  /\ \A c, d \in Calls, s, r \in Services : Goroutine(c, s) = Goroutine(d, r) => c = d /\ s = r
  /\ Others \subseteq Callers /\ Services = Keys
BY WatchToolAssumption DEF Goroutine

LEMMA ElsewhereStep ==
  ASSUME CTypeOK, ToolInv, Elsewhere
  PROVE  ToolInv'
<1>1. \A c \in Calls, s \in Services : call'[Goroutine(c, s)] = call[Goroutine(c, s)]
  <2>1. CASE call' = call
    BY <2>1
  <2>2. CASE \E o \in Others : Serve(o) \/ \E k \in Keys : Lookup(o, k)
    BY <2>2, OwnCall, Goroutines
  <2> QED BY <2>1, <2>2 DEF Elsewhere, Pass, NewValue
<1>2. UNCHANGED wvars
  BY DEF Elsewhere
<1>3. ToolType'
  BY <1>2 DEF wvars, ToolInv, ToolType
<1>4. InTurn'
  <2>1. work' = work
    BY <1>2 DEF wvars
  <2> QED BY <1>1, <2>1, Zenon DEF ToolInv, InTurn
<1>5. UNCHANGED <<work, changes, posted>>
  BY <1>2 DEF wvars
<1> QED BY <1>3, <1>4, <1>5, QuietWork

\* The beginning and the end of a call.
LEMMA CallSteps ==
  ASSUME ToolInv, NEW c \in Calls, Start(c) \/ Report(c)
  PROVE  ToolInv'
<1>1. PICK pc \in {"none", "get"} :
        /\ work' = [work EXCEPT ![c] = [s \in Services |-> [Rest EXCEPT !.pc = pc]]]
        /\ \A s \in Services : work[c][s].pc \in {"none", "done"}
  <2>1. Rest = [Rest EXCEPT !.pc = "none"]
    BY DEF Rest
  <2> QED BY <2>1 DEF Start, Report
<1>2. /\ [Rest EXCEPT !.pc = pc] \in [pc : {"none", "get", "swap", "post", "done"}, tag : Nat, old : Nat]
      /\ [Rest EXCEPT !.pc = pc].pc = pc
  BY DEF Rest
<1>3. UNCHANGED <<cvars, last, changes, posted>>
  BY DEF Start, Report
<1>4. ToolType'
  BY <1>1, <1>2, <1>3 DEF ToolInv, ToolType
<1>5. ASSUME NEW d \in Calls, NEW s \in Services
      PROVE  /\ work'[d][s] = IF d = c THEN [Rest EXCEPT !.pc = pc] ELSE work[d][s]
             /\ d = c => work[d][s].pc \in {"none", "done"}
  BY <1>1 DEF ToolInv, ToolType
<1>6. InTurn'
  BY <1>3, <1>5 DEF cvars, ToolInv, InTurn
<1>7. \A d \in Calls, s \in Services :
        work'[d][s] = work[d][s] \/ (work[d][s].pc # "post" /\ work'[d][s].pc # "post")
  BY <1>2, <1>5
<1> QED BY <1>3, <1>4, <1>6, <1>7, QuietWork

\* A step of the goroutine of c for s, to the state w.
LEMMA WorkStep ==
  ASSUME ToolInv, NEW c \in Calls, NEW s \in Services,
         NEW w \in [pc : {"none", "get", "swap", "post", "done"}, tag : Nat, old : Nat],
         GoesOn(c, s, w)
  PROVE  /\ work' \in [Calls -> [Services -> [pc : {"none", "get", "swap", "post", "done"},
                                             tag : Nat, old : Nat]]]
         /\ work'[c][s] = w
         /\ \A d \in Calls, r \in Services : d # c \/ r # s => work'[d][r] = work[d][r]
BY DEF GoesOn, ToolInv, ToolType

LEMMA AskStep ==
  ASSUME CTypeOK, ToolInv, NEW c \in Calls, NEW s \in Services, Ask(c, s)
  PROVE  ToolInv'
<1>1. /\ UNCHANGED wvars /\ work[c][s].pc = "get"
      /\ \A d \in Callers \ {Goroutine(c, s)} : call'[d] = call[d]
  BY OwnCall, Goroutines DEF Ask
<1>2. InTurn'
  <2> SUFFICES ASSUME NEW d \in Calls, NEW r \in Services, call'[Goroutine(d, r)].pc # "free"
               PROVE  work[d][r].pc = "get"
    BY <1>1 DEF wvars, InTurn
  <2>1. CASE d = c /\ r = s
    BY <1>1, <2>1
  <2>2. CASE d # c \/ r # s
    BY <1>1, <2>2, Goroutines DEF ToolInv, InTurn
  <2> QED BY <2>1, <2>2
<1>3. ToolType'
  BY <1>1 DEF wvars, ToolInv, ToolType
<1> QED BY <1>1, <1>2, <1>3, QuietWork DEF wvars

LEMMA ReceiveStep ==
  ASSUME CTypeOK, ToolInv, NEW c \in Calls, NEW s \in Services, Receive(c, s)
  PROVE  ToolInv'
<1> DEFINE g == Goroutine(c, s)
<1>0. g \in Callers /\ Serve(g)
  BY Goroutines DEF Receive
<1>1. /\ call[g].pc # "free" /\ (answer'.by # "none" => call'[g].pc = "free")
      /\ (answer'.by = "call" => answer'.val \in Nat)
      /\ \A d \in Callers \ {g} : call'[d] = call[d]
  <2> HIDE DEF g
  <2> QED BY <1>0, Answered, OwnCall
<1>2. work[c][s].pc = "get"
  BY <1>1 DEF ToolInv, InTurn
<1>3. UNCHANGED <<last, changes, posted>>
  BY DEF Receive
<1>4. CASE answer'.by = "none" /\ UNCHANGED work
  <2>1. ToolType'
    BY <1>3, <1>4 DEF ToolInv, ToolType
  <2>2. InTurn'
    BY <1>1, <1>2, <1>4, Goroutines DEF ToolInv, InTurn
  <2> QED BY <1>3, <1>4, <2>1, <2>2, QuietWork
<1>5. ASSUME NEW w \in [pc : {"swap", "done"}, tag : Nat, old : Nat],
             GoesOn(c, s, w), answer'.by # "none"
      PROVE  ToolInv'
  <2>1. /\ work' \in [Calls -> [Services -> [pc : {"none", "get", "swap", "post", "done"},
                                            tag : Nat, old : Nat]]]
        /\ work'[c][s] = w
        /\ \A d \in Calls, r \in Services : d # c \/ r # s => work'[d][r] = work[d][r]
    BY <1>5, WorkStep
  <2>2. ToolType'
    BY <1>3, <2>1 DEF ToolInv, ToolType
  <2>3. InTurn'
    BY <1>1, <1>5, <2>1, Goroutines DEF ToolInv, InTurn
  <2>4. \A d \in Calls, r \in Services :
          work'[d][r] = work[d][r] \/ (work[d][r].pc # "post" /\ work'[d][r].pc # "post")
    BY <1>2, <1>5, <2>1
  <2> QED BY <1>3, <2>2, <2>3, <2>4, QuietWork
<1>6. CASE answer'.by = "call" /\ GoesOn(c, s, [Rest EXCEPT !.pc = "swap", !.tag = answer'.val])
  <2>1. [Rest EXCEPT !.pc = "swap", !.tag = answer'.val] =
          [pc |-> "swap", tag |-> answer'.val, old |-> 0]
    <3> DEFINE one == [Rest EXCEPT !.pc = "swap"]
    <3>1. one = [pc |-> "swap", tag |-> 0, old |-> 0]
      BY DEF Rest
    <3>2. [Rest EXCEPT !.pc = "swap", !.tag = answer'.val] = [one EXCEPT !.tag = answer'.val]
      OBVIOUS
    <3> HIDE DEF one
    <3> QED BY <3>1, <3>2
  <2> QED BY <1>1, <1>5, <1>6, <2>1
<1>7. CASE answer'.by = "error" /\ GoesOn(c, s, [Rest EXCEPT !.pc = "done"])
  <2>1. [Rest EXCEPT !.pc = "done"] = [pc |-> "done", tag |-> 0, old |-> 0]
    BY DEF Rest
  <2> QED BY <1>5, <1>7, <2>1
<1> QED BY <1>4, <1>6, <1>7 DEF Receive

\* Where the goroutine of c for s takes a post, or leaves it, one more or one less owes
\* its change; nothing else is owed otherwise than before.
LEMMA OwedMoves ==
  ASSUME ToolInv, NEW c \in Calls, NEW s \in Services, NEW e,
         \A d \in Calls, r \in Services : d # c \/ r # s => work'[d][r] = work[d][r]
  PROVE  /\ \A r \in Services : r # s => Owed(r, e)' = Owed(r, e)
         /\ (c \in Owed(s, e) <=> c \in Owed(s, e)') => Owed(s, e)' = Owed(s, e)
         /\ c \notin Owed(s, e) /\ c \in Owed(s, e)' =>
              Cardinality(Owed(s, e)') = Cardinality(Owed(s, e)) + 1
         /\ c \in Owed(s, e) /\ c \notin Owed(s, e)' =>
              Cardinality(Owed(s, e)') = Cardinality(Owed(s, e)) - 1
<1>1. /\ IsFiniteSet(Owed(s, e)) /\ Cardinality(Owed(s, e)) \in Nat
      /\ Owed(s, e) \subseteq Calls /\ Owed(s, e)' \subseteq Calls
  <2>1. IsFiniteSet(Owed(s, e)) /\ Cardinality(Owed(s, e)) \in Nat
    BY OwedFinite
  <2>2. Owed(s, e) \subseteq Calls /\ Owed(s, e)' \subseteq Calls
    BY DEF Owed
  <2> QED BY <2>1, <2>2
<1>2. \A d \in Calls \ {c} : d \in Owed(s, e)' <=> d \in Owed(s, e)
  BY DEF Owed
<1>3. \A r \in Services : r # s => Owed(r, e)' = Owed(r, e)
  BY DEF Owed
<1>4. ASSUME c \notin Owed(s, e), c \in Owed(s, e)'
      PROVE  Cardinality(Owed(s, e)') = Cardinality(Owed(s, e)) + 1
  <2>1. Owed(s, e)' = Owed(s, e) \cup {c}
    <3>1. \A d : d \in Owed(s, e)' <=> d \in Owed(s, e) \/ d = c
      BY <1>1, <1>2, <1>4
    <3> QED BY <3>1
  <2>2. Cardinality(Owed(s, e) \cup {c}) = Cardinality(Owed(s, e)) + 1
    BY <1>1, <1>4, FS_AddElement
  <2> QED BY <2>1, <2>2
<1>5. ASSUME c \in Owed(s, e), c \notin Owed(s, e)'
      PROVE  Cardinality(Owed(s, e)') = Cardinality(Owed(s, e)) - 1
  <2>1. Owed(s, e)' = Owed(s, e) \ {c}
    BY <1>1, <1>2, <1>5
  <2> QED BY <1>1, <1>5, <2>1, FS_RemoveElement
<1> QED BY <1>1, <1>2, <1>3, <1>4, <1>5

LEMMA SwapStep ==
  ASSUME ToolInv, NEW c \in Calls, NEW s \in Services, Swap(c, s)
  PROVE  ToolInv'
<1> DEFINE w    == work[c][s]
           news == IsNews(last[s], w.tag)
           next == IF news /\ Notifying THEN [w EXCEPT !.pc = "post", !.old = last[s]]
                   ELSE [Rest EXCEPT !.pc = "done"]
           pair == <<last[s], w.tag>>
<1>0. /\ last \in [Services -> Nat] /\ changes \in [Services -> Seq(Nat \X Nat)]
      /\ w \in [pc : {"none", "get", "swap", "post", "done"}, tag : Nat, old : Nat]
      /\ pair \in Nat \X Nat
  BY DEF ToolInv, ToolType
<1>1. /\ w.pc = "swap" /\ last' = [last EXCEPT ![s] = w.tag] /\ GoesOn(c, s, next)
      /\ changes' = IF news THEN [changes EXCEPT ![s] = Append(changes[s], pair)] ELSE changes
      /\ UNCHANGED <<cvars, posted>>
  <2>1. last' = [last EXCEPT ![s] = w.tag]
    BY DEF Swap, SwapTo
  <2>2. news <=> last[s] \notin {0, last'[s]}
    BY <1>0, <2>1 DEF IsNews
  <2>3. last'[s] = w.tag
    BY <1>0, <2>1
  <2> QED BY <2>1, <2>2, <2>3 DEF Swap, SwapTo
<1>2. /\ next \in [pc : {"none", "get", "swap", "post", "done"}, tag : Nat, old : Nat]
      /\ news /\ Notifying => next.pc = "post" /\ <<next.old, next.tag>> = pair
      /\ ~(news /\ Notifying) => next.pc = "done"
  <2>1. CASE news /\ Notifying
    <3> DEFINE one == [w EXCEPT !.pc = "post"]
    <3>1. /\ one \in [pc : {"none", "get", "swap", "post", "done"}, tag : Nat, old : Nat]
          /\ one.pc = "post" /\ one.tag = w.tag
      BY <1>0
    <3>2. next = [one EXCEPT !.old = last[s]]
      BY <2>1
    <3> HIDE DEF one, next, news
    <3> QED BY <1>0, <2>1, <3>1, <3>2
  <2>2. CASE ~(news /\ Notifying)
    <3>1. next = [Rest EXCEPT !.pc = "done"]
      BY <2>2
    <3>2. [Rest EXCEPT !.pc = "done"] = [pc |-> "done", tag |-> 0, old |-> 0]
      BY DEF Rest
    <3> HIDE DEF next, news
    <3> QED BY <2>2, <3>1, <3>2
  <2> QED BY <2>1, <2>2
<1> HIDE DEF next, news
<1>3. /\ work' \in [Calls -> [Services -> [pc : {"none", "get", "swap", "post", "done"},
                                          tag : Nat, old : Nat]]]
      /\ work'[c][s] = next
      /\ \A d \in Calls, r \in Services : d # c \/ r # s => work'[d][r] = work[d][r]
  BY <1>1, <1>2, WorkStep
<1>4. ToolType'
  BY <1>0, <1>1, <1>3 DEF ToolInv, ToolType
<1>5. InTurn'
  <2> SUFFICES ASSUME NEW d \in Calls, NEW r \in Services, call'[Goroutine(d, r)].pc # "free"
               PROVE  work'[d][r].pc = "get"
    BY DEF InTurn
  <2>1. work[d][r].pc = "get"
    BY <1>1 DEF cvars, ToolInv, InTurn
  <2>2. d # c \/ r # s
    BY <1>1, <2>1
  <2> QED BY <1>3, <2>1, <2>2
<1>6. CASE ~(news /\ Notifying)
  <2>1. EachChangePostedOnce'
    <3>1. CASE ~Notifying
      BY <3>1 DEF EachChangePostedOnce
    <3>2. CASE ~news
      <4>1. UNCHANGED <<changes, posted>>
        BY <1>1, <3>2
      <4>2. \A d \in Calls, r \in Services :
              work'[d][r] = work[d][r] \/ (work[d][r].pc # "post" /\ work'[d][r].pc # "post")
        <5> TAKE d \in Calls, r \in Services
        <5>1. CASE d = c /\ r = s
          BY <1>1, <1>2, <1>3, <1>6, <5>1
        <5>2. CASE d # c \/ r # s
          BY <1>3, <5>2
        <5> QED BY <5>1, <5>2
      <4>3. ToolInv'
        BY <1>4, <1>5, <4>1, <4>2, QuietWork
      <4> QED BY <4>3 DEF ToolInv
    <3> QED BY <1>6, <3>1, <3>2
  <2> QED BY <1>4, <1>5, <2>1 DEF ToolInv
<1>7. CASE news /\ Notifying
  <2> SUFFICES ASSUME NEW r \in Services, NEW e \in Versions \X Versions
               PROVE  Even(r, e)'
    BY <1>4, <1>5 DEF ToolInv, EachChangePostedOnce, Even, Made
  <2>0. Even(r, e)
    BY <1>7, PostedOnce DEF ToolInv
  <2>1. changes' = [changes EXCEPT ![s] = Append(changes[s], pair)] /\ posted' = posted
    BY <1>1, <1>7
  <2>2. c \notin Owed(s, e) /\ (c \in Owed(s, e)' <=> pair = e)
    BY <1>1, <1>2, <1>3, <1>7 DEF Owed
  <2>3. CASE r # s
    <3>1. changes'[r] = changes[r]
      BY <1>0, <2>1, <2>3
    <3>2. Owed(r, e)' = Owed(r, e)
      BY <1>3, <2>3, OwedMoves
    <3> QED BY <2>0, <2>1, <3>1, <3>2 DEF Even
  <2>4. CASE r = s
    <3>1. changes'[s] = Append(changes[s], pair) /\ changes[s] \in Seq(Nat \X Nat)
      BY <1>0, <2>1
    <3>2. /\ Cardinality(Made(changes[s], e)) \in Nat
          /\ Cardinality(Made(changes'[s], e)) =
               Cardinality(Made(changes[s], e)) + (IF pair = e THEN 1 ELSE 0)
      <4> DEFINE pairs == Nat \X Nat
                 list  == changes[s]
      <4>1. pair \in pairs /\ list \in Seq(pairs) /\ changes'[s] = Append(list, pair)
        BY <1>0, <3>1
      <4> HIDE DEF pair, pairs, list
      <4>2. /\ Cardinality(Made(list, e)) \in Nat
            /\ Cardinality(Made(Append(list, pair), e)) =
                 Cardinality(Made(list, e)) + (IF pair = e THEN 1 ELSE 0)
        BY <4>1, MadeOnceMore
      <4> QED BY <4>1, <4>2 DEF list
    <3>3. Cardinality(Owed(s, e)') = Cardinality(Owed(s, e)) + (IF pair = e THEN 1 ELSE 0)
      <4>1. Cardinality(Owed(s, e)) \in Nat
        BY OwedFinite
      <4> QED BY <1>3, <2>2, <4>1, OwedMoves
    <3>4. /\ Cardinality(Made(posted[s], e)) \in Nat /\ Cardinality(Owed(s, e)) \in Nat
      <4> DEFINE pairs == Nat \X Nat
      <4>1. posted[s] \in Seq(pairs) /\ pair \in pairs
        BY <1>0 DEF ToolInv, ToolType
      <4> HIDE DEF pair, pairs
      <4> QED BY <4>1, MadeOnceMore, OwedFinite
    <3> QED BY <2>0, <2>1, <2>4, <3>2, <3>3, <3>4 DEF Even
  <2> QED BY <2>3, <2>4
<1> QED BY <1>6, <1>7

LEMMA PostStep ==
  ASSUME ToolInv, NEW c \in Calls, NEW s \in Services, NEW ok \in BOOLEAN, Post(c, s, ok)
  PROVE  ToolInv'
<1> DEFINE w     == work[c][s]
           over  == [Rest EXCEPT !.pc = "done"]
           entry == <<w.old, w.tag>>
           notes == Nat \X Nat
<1>0. /\ posted \in [Services -> Seq(notes)] /\ changes \in [Services -> Seq(Nat \X Nat)]
      /\ w \in [pc : {"none", "get", "swap", "post", "done"}, tag : Nat, old : Nat]
  BY DEF ToolInv, ToolType
<1>1. /\ w.pc = "post" /\ GoesOn(c, s, over)
      /\ posted' = [posted EXCEPT ![s] = Append(posted[s], entry)]
      /\ UNCHANGED <<cvars, last, changes>>
  BY DEF Post
<1>2. /\ over \in [pc : {"none", "get", "swap", "post", "done"}, tag : Nat, old : Nat]
      /\ over.pc = "done" /\ entry \in notes /\ entry = <<w.old, w.tag>>
  BY <1>0 DEF Rest
<1> HIDE DEF over, entry
<1>3. /\ work' \in [Calls -> [Services -> [pc : {"none", "get", "swap", "post", "done"},
                                          tag : Nat, old : Nat]]]
      /\ work'[c][s] = over
      /\ \A d \in Calls, r \in Services : d # c \/ r # s => work'[d][r] = work[d][r]
  BY <1>1, <1>2, WorkStep
<1>4. ToolType'
  <2>1. posted' \in [Services -> Seq(notes)]
    <3> HIDE DEF notes
    <3> QED BY <1>0, <1>1, <1>2
  <2> QED BY <1>1, <1>3, <2>1 DEF ToolInv, ToolType
<1>5. InTurn'
  <2> SUFFICES ASSUME NEW d \in Calls, NEW r \in Services, call'[Goroutine(d, r)].pc # "free"
               PROVE  work'[d][r].pc = "get"
    BY DEF InTurn
  <2>1. work[d][r].pc = "get"
    BY <1>1 DEF cvars, ToolInv, InTurn
  <2>2. d # c \/ r # s
    BY <1>1, <2>1
  <2> QED BY <1>3, <2>1, <2>2
<1>6. CASE ~Notifying
  BY <1>4, <1>5, <1>6 DEF ToolInv, EachChangePostedOnce
<1>7. CASE Notifying
  <2> SUFFICES ASSUME NEW r \in Services, NEW e \in Versions \X Versions
               PROVE  Even(r, e)'
    BY <1>4, <1>5 DEF ToolInv, EachChangePostedOnce, Even, Made
  <2>0. Even(r, e) /\ changes' = changes
    BY <1>1, <1>7, PostedOnce DEF ToolInv
  <2>1. /\ c \notin Owed(s, e)'
        /\ c \in Owed(s, e) <=> entry = e
    BY <1>1, <1>2, <1>3 DEF Owed
  <2>2. CASE r # s
    <3>1. posted'[r] = posted[r]
      BY <1>0, <1>1, <2>2
    <3>2. Owed(r, e)' = Owed(r, e)
      BY <1>3, <2>2, OwedMoves
    <3> QED BY <2>0, <3>1, <3>2 DEF Even
  <2>3. CASE r = s
    <3> DEFINE list == posted[s]
    <3>1. list \in Seq(notes) /\ posted'[s] = Append(list, entry)
      BY <1>0, <1>1
    <3>2. /\ Cardinality(Made(list, e)) \in Nat
          /\ Cardinality(Made(Append(list, entry), e)) =
               Cardinality(Made(list, e)) + (IF entry = e THEN 1 ELSE 0)
      <4>1. list \in Seq(notes) /\ entry \in notes
        BY <1>2, <3>1
      <4> HIDE DEF notes, list
      <4> QED BY <4>1, MadeOnceMore
    <3>3. /\ Cardinality(Owed(s, e)) \in Nat
          /\ Cardinality(Owed(s, e)') = Cardinality(Owed(s, e)) - (IF entry = e THEN 1 ELSE 0)
      <4>1. Cardinality(Owed(s, e)) \in Nat
        BY OwedFinite
      <4> QED BY <1>3, <2>1, <4>1, OwedMoves
    <3> QED BY <2>0, <2>3, <3>1, <3>2, <3>3 DEF Even
  <2> QED BY <2>2, <2>3
<1> QED BY <1>6, <1>7

\* At the start there is nothing to post.
LEMMA ToolInit ==
  ASSUME WInit
  PROVE  ToolInv
<1>1. ToolType
  BY DEF WInit, ToolType, Rest
<1>2. InTurn
  BY Goroutines DEF WInit, CInit, InTurn, Free
<1>3. EachChangePostedOnce
  <2> SUFFICES ASSUME NEW s \in Services, NEW e \in Versions \X Versions
               PROVE  Even(s, e)
    BY PostedOnce
  <2>1. /\ Made(changes[s], e) = {} /\ Made(posted[s], e) = {} /\ Owed(s, e) = {}
    BY DEF WInit, Made, Owed, Rest
  <2> QED BY <2>1, FS_EmptySet DEF Even
<1> QED BY <1>1, <1>2, <1>3 DEF ToolInv

\* Every step keeps the books of changes and posts even.
THEOREM ToolInvariance == WSpec => []ToolInv
<1>1. WInit => ToolInv
  BY ToolInit
<1>2. CTypeOK /\ ToolInv /\ [WNext]_<<cvars, wvars>> => ToolInv'
  <2> SUFFICES ASSUME CTypeOK, ToolInv, [WNext]_<<cvars, wvars>>
               PROVE  ToolInv'
    OBVIOUS
  <2>1. CASE Elsewhere
    BY <2>1, ElsewhereStep
  <2>2. ASSUME NEW c \in Calls, Start(c) \/ Report(c)
        PROVE  ToolInv'
    BY <2>2, CallSteps
  <2>3. ASSUME NEW c \in Calls, NEW s \in Services, Ask(c, s)
        PROVE  ToolInv'
    BY <2>3, AskStep
  <2>4. ASSUME NEW c \in Calls, NEW s \in Services, Receive(c, s)
        PROVE  ToolInv'
    BY <2>4, ReceiveStep
  <2>5. ASSUME NEW c \in Calls, NEW s \in Services, Swap(c, s)
        PROVE  ToolInv'
    BY <2>5, SwapStep
  <2>6. ASSUME NEW c \in Calls, NEW s \in Services, NEW ok \in BOOLEAN, Post(c, s, ok)
        PROVE  ToolInv'
    BY <2>6, PostStep
  <2>7. CASE UNCHANGED <<cvars, wvars>>
    <3>1. UNCHANGED <<call, work, last, changes, posted>>
      BY <2>7 DEF cvars, wvars
    <3>2. ToolType' /\ InTurn'
      BY <3>1 DEF ToolInv, ToolType, InTurn
    <3> QED BY <3>1, <3>2, QuietWork
  <2> QED BY <2>1, <2>2, <2>3, <2>4, <2>5, <2>6, <2>7 DEF WNext
<1>3. CacheInv => CTypeOK
  BY DEF CacheInv
<1> QED BY <1>1, <1>2, <1>3, ToolUsesProvider, CacheInvariance, PTL DEF WSpec

\* However many calls of watch_releases overlap, every change that lastKnownVersions
\* goes through is handed to the notifier by exactly one of them.
THEOREM ChangesArePostedOnce == WSpec => []EachChangePostedOnce
<1>1. ToolInv => EachChangePostedOnce
  BY DEF ToolInv
<1> QED BY <1>1, ToolInvariance, PTL

-----------------------------------------------------------------------------
(* With one call at a time the tool implements ReleaseAnnouncements.        *)

\* Every value that is passed on was published.
Published ==
  /\ \A k \in Keys : Len(pubs[k]) <= MaxPublish
  /\ \A k \in Keys : entries[k] # Absent => entries[k].val \in Versions
  /\ \A g \in Callers : /\ call[g].pc = "judge" => call[g].entry.val \in Versions
                        /\ call[g].pc = "store" => call[g].val \in Versions

Reported ==
  /\ \A s \in Services : last[s] \in Versions \cup {0}
  /\ \A c \in Calls, s \in Services : work[c][s].pc = "swap" => work[c][s].tag \in Versions

\* What a change that is still to be posted says is what last went through.
InOrder ==
  /\ \A c, d \in Calls, s \in Services :
       work[c][s].pc # "none" /\ work[d][s].pc # "none" => c = d
  /\ \A c \in Calls, s \in Services : work[c][s].pc = "post" =>
       /\ work[c][s].tag = last[s] /\ last[s] # 0
       /\ work[c][s].old \notin {0, last[s]}

OneByOne == alone => InOrder

AnnouncingInv == Published /\ Reported /\ OneByOne

LEMMA VersionsAre == Versions \subseteq Nat \ {0} /\ 0 \notin Versions /\ MaxPublish \in Nat \ {0}
BY CachedProviderAssumption DEF Versions

\* The provider passes on what was published.
LEMMA ProviderStep ==
  ASSUME CacheInv, Published, NEW g \in Callers, Serve(g) \/ \E k \in Keys : Lookup(g, k)
  PROVE  /\ Published'
         /\ Serve(g) /\ answer'.by = "call" => answer'.val \in Versions
<1>1. /\ call[g] \in [pc : {"free", "judge", "evict", "fetch", "store"}, key : Keys \cup {"none"},
                      entry : Entry, val : Nat, at : Nat]
      /\ call \in [Callers -> [pc : {"free", "judge", "evict", "fetch", "store"},
                               key : Keys \cup {"none"}, entry : Entry, val : Nat, at : Nat]]
      /\ entries \in [Keys -> Entry] /\ call[g].pc # "free" => call[g].key \in Keys
  BY DEF CacheInv, CTypeOK
<1>2. ASSUME NEW j, call' = [call EXCEPT ![g] = j], pubs' = pubs,
             \A k \in Keys : entries'[k] = entries[k] \/ entries'[k] = Absent
                             \/ entries'[k].val \in Versions,
             j.pc = "judge" => j.entry.val \in Versions,
             j.pc = "store" => j.val \in Versions
      PROVE  Published'
  <2>1. call'[g] = j /\ \A d \in Callers \ {g} : call'[d] = call[d]
    BY <1>1, <1>2
  <2>2. \A d \in Callers : /\ call'[d].pc = "judge" => call'[d].entry.val \in Versions
                           /\ call'[d].pc = "store" => call'[d].val \in Versions
    <3> TAKE d \in Callers
    <3>1. CASE d = g
      BY <1>2, <2>1, <3>1
    <3>2. CASE d # g
      BY <2>1, <3>2 DEF Published
    <3> QED BY <3>1, <3>2
  <2>3. \A k \in Keys : entries'[k] # Absent => entries'[k].val \in Versions
    BY <1>2 DEF Published
  <2>4. \A k \in Keys : Len(pubs'[k]) <= MaxPublish
    BY <1>2 DEF Published
  <2>5. Versions' = Versions /\ Absent' = Absent
    BY DEF Versions, Absent
  <2> QED BY <2>2, <2>3, <2>4, <2>5 DEF Published
<1>3. CASE \E k \in Keys : Lookup(g, k)
  <2>1. PICK k \in Keys : Lookup(g, k)
    BY <1>3
  <2> DEFINE j == [Free EXCEPT !.pc = IF entries[k] = Absent THEN "fetch" ELSE "judge",
                               !.key = k, !.entry = entries[k]]
  <2>2. call' = [call EXCEPT ![g] = j] /\ pubs' = pubs /\ entries' = entries /\ answer'.by = "none"
    BY <2>1 DEF Lookup, NoAnswer
  <2>3. /\ j.pc = IF entries[k] = Absent THEN "fetch" ELSE "judge"
        /\ j.entry = entries[k]
    BY DEF Free
  <2> HIDE DEF j
  <2>4. j.pc = "judge" => j.entry.val \in Versions
    BY <2>3 DEF Published
  <2> QED BY <1>2, <2>2, <2>3, <2>4
<1>4. CASE Judge(g)
  <2> DEFINE hit == now <= call[g].entry.expires
             j   == IF hit THEN Free ELSE [call[g] EXCEPT !.pc = "evict"]
  <2>1. /\ call[g].pc = "judge" /\ call' = [call EXCEPT ![g] = j] /\ pubs' = pubs
        /\ entries' = IF hit THEN [entries EXCEPT ![call[g].key] = entries[call[g].key]] ELSE entries
        /\ answer'.by = "call" => answer'.val = call[g].entry.val
    BY <1>4 DEF Judge, JudgeStep, Returned, NoAnswer
  <2>2. j.pc \notin {"judge", "store"}
    BY <1>1 DEF Free
  <2> HIDE DEF hit, j
  <2>3. \A k \in Keys : entries'[k] = entries[k]
    BY <1>1, <2>1
  <2>4. Published'
    BY <1>2, <2>1, <2>2, <2>3
  <2>5. call[g].entry.val \in Versions
    BY <2>1 DEF Published
  <2> QED BY <2>1, <2>4, <2>5
<1>5. CASE Evict(g)
  <2> DEFINE j == [call[g] EXCEPT !.pc = "fetch"]
  <2>1. /\ call' = [call EXCEPT ![g] = j] /\ pubs' = pubs
        /\ entries' = [entries EXCEPT ![call[g].key] = Absent] /\ answer'.by = "none"
    BY <1>1, <1>5 DEF Evict, NoAnswer
  <2>2. j.pc = "fetch"
    BY <1>1
  <2> HIDE DEF j
  <2>3. \A k \in Keys : entries'[k] = entries[k] \/ entries'[k] = Absent
    BY <1>1, <2>1
  <2> QED BY <1>2, <2>1, <2>2, <2>3
<1>6. CASE Fetch(g)
  <2> DEFINE j == [call[g] EXCEPT !.pc = "store", !.val = Len(pubs[call[g].key]), !.at = now]
  <2>1. /\ call' = [call EXCEPT ![g] = j] /\ UNCHANGED <<pubs, entries>> /\ answer'.by = "none"
        /\ call[g].pc = "fetch"
    BY <1>6 DEF Fetch, NoAnswer
  <2>2. j.pc = "store" /\ j.val = Len(pubs[call[g].key])
    BY <1>1
  <2> HIDE DEF j
  <2>3. Len(pubs[call[g].key]) \in Versions
    <3>1. /\ call[g].key \in Keys /\ Len(pubs[call[g].key]) <= MaxPublish
          /\ pubs[call[g].key] # <<>> /\ pubs[call[g].key] \in Seq(0..MaxTime)
      BY <1>1, <2>1 DEF CacheInv, CTypeOK, Published
    <3>2. Len(pubs[call[g].key]) \in Nat /\ Len(pubs[call[g].key]) # 0
      BY <3>1, EmptySeq, LenProperties
    <3> QED BY <3>1, <3>2, VersionsAre DEF Versions
  <2> QED BY <1>2, <2>1, <2>2, <2>3
<1>7. CASE FetchError(g)
  <2>1. /\ call' = [call EXCEPT ![g] = Free] /\ UNCHANGED <<pubs, entries>> /\ answer'.by = "error"
        /\ Free.pc = "free"
    BY <1>7 DEF FetchError, Free
  <2> QED BY <1>2, <2>1
<1>8. CASE SetEntry(g)
  <2> DEFINE e == [val |-> call[g].val, expires |-> now + TTL]
  <2>1. /\ call' = [call EXCEPT ![g] = Free] /\ pubs' = pubs /\ Free.pc = "free"
        /\ entries' = [entries EXCEPT ![call[g].key] = e]
        /\ answer'.val = call[g].val /\ call[g].pc = "store"
    BY <1>8 DEF SetEntry, Free, Returned
  <2>2. call[g].val \in Versions /\ e.val = call[g].val
    BY <2>1 DEF Published
  <2> HIDE DEF e
  <2>3. \A k \in Keys : entries'[k] = entries[k] \/ entries'[k].val \in Versions
    BY <1>1, <2>1, <2>2
  <2>4. Published'
    BY <1>2, <2>1, <2>3
  <2> QED BY <2>1, <2>2, <2>4
<1> QED BY <1>3, <1>4, <1>5, <1>6, <1>7, <1>8 DEF Serve

LEMMA PublicationStep ==
  ASSUME CacheInv, Published, Pass \/ \E k \in Keys : NewValue(k)
  PROVE  Published'
<1>1. CASE Pass
  BY <1>1 DEF Pass, Published, Versions
<1>2. ASSUME NEW k \in Keys, NewValue(k)
      PROVE  Published'
  <2>1. /\ pubs' = [pubs EXCEPT ![k] = Append(pubs[k], now)] /\ UNCHANGED <<entries, call>>
        /\ Len(pubs[k]) < MaxPublish /\ pubs \in [Keys -> Seq(0..MaxTime)] /\ now \in 0..MaxTime
    BY <1>2 DEF NewValue, CacheInv, CTypeOK
  <2>2. /\ pubs'[k] = Append(pubs[k], now) /\ Len(pubs'[k]) = Len(pubs[k]) + 1
        /\ \A r \in Keys \ {k} : pubs'[r] = pubs[r]
    BY <2>1
  <2>3. Len(pubs[k]) \in Nat
    BY <2>1
  <2>4. \A r \in Keys : Len(pubs'[r]) <= MaxPublish
    BY <2>1, <2>2, <2>3, VersionsAre DEF Published
  <2> QED BY <2>1, <2>4 DEF Published, Versions
<1> QED BY <1>1, <1>2

\* A step that moves no goroutine to "swap" or "post".
LEMMA QuietNews ==
  ASSUME Published', Reported, OneByOne, UNCHANGED <<alone, last>>,
         \A c \in Calls, s \in Services :
           /\ work'[c][s] = work[c][s] \/ work'[c][s].pc \notin {"swap", "post"}
           /\ alone /\ work'[c][s].pc # "none" =>
                \/ work[c][s].pc # "none"
                \/ \A d \in Calls : d # c => work'[d][s].pc = "none"
  PROVE  AnnouncingInv'
<1>1. Reported'
  BY DEF Reported, Versions
<1>2. OneByOne'
  <2> SUFFICES ASSUME alone
               PROVE  /\ \A c, d \in Calls, s \in Services :
                           work'[c][s].pc # "none" /\ work'[d][s].pc # "none" => c = d
                      /\ \A c \in Calls, s \in Services : work'[c][s].pc = "post" =>
                           /\ work'[c][s].tag = last[s] /\ last[s] # 0
                           /\ work'[c][s].old \notin {0, last[s]}
    BY DEF OneByOne, InOrder
  <2>1. \A c, d \in Calls, s \in Services :
          work'[c][s].pc # "none" /\ work'[d][s].pc # "none" => c = d
    BY DEF OneByOne, InOrder
  <2>2. \A c \in Calls, s \in Services : work'[c][s].pc = "post" => work'[c][s] = work[c][s]
    OBVIOUS
  <2> QED BY <2>1, <2>2 DEF OneByOne, InOrder
<1> QED BY <1>1, <1>2 DEF AnnouncingInv

\* What Swap and Post do to the goroutine that takes them.
LEMMA SwapMoves ==
  ASSUME ToolType, NEW c \in Calls, NEW s \in Services, Swap(c, s)
  PROVE  /\ work[c][s].pc = "swap" /\ last' = [last EXCEPT ![s] = work[c][s].tag]
         /\ last'[s] = work[c][s].tag /\ \A r \in Services : r # s => last'[r] = last[r]
         /\ work'[c][s].pc = IF IsNews(last[s], work[c][s].tag) /\ Notifying THEN "post" ELSE "done"
         /\ work'[c][s].pc = "post" => work'[c][s].tag = work[c][s].tag /\ work'[c][s].old = last[s]
         /\ work'[c][s].pc \in {"post", "done"}
         /\ work'[c][s].pc = "post" => IsNews(last[s], work[c][s].tag)
         /\ \A d \in Calls, r \in Services : d # c \/ r # s => work'[d][r] = work[d][r]
         /\ alone' = alone /\ UNCHANGED cvars /\ taken' = taken
<1> DEFINE w    == work[c][s]
           news == IsNews(last[s], w.tag) /\ Notifying
           one  == [w EXCEPT !.pc = "post"]
           owes == [one EXCEPT !.old = last[s]]
           over == [Rest EXCEPT !.pc = "done"]
           next == IF news THEN owes ELSE over
<1>1. /\ w.pc = "swap" /\ last' = [last EXCEPT ![s] = w.tag] /\ GoesOn(c, s, next)
      /\ alone' = alone /\ UNCHANGED cvars /\ taken' = taken
  BY DEF Swap, SwapTo
<1>2. /\ w \in [pc : {"none", "get", "swap", "post", "done"}, tag : Nat, old : Nat]
      /\ last \in [Services -> Nat]
  BY DEF ToolType
<1>3. over.pc = "done"
  BY DEF Rest
<1>4. one.pc = "post" /\ one.tag = w.tag
      /\ one \in [pc : {"none", "get", "swap", "post", "done"}, tag : Nat, old : Nat]
  BY <1>2
<1> HIDE DEF one, over
<1>5. owes.pc = "post" /\ owes.tag = w.tag /\ owes.old = last[s]
  BY <1>4
<1> HIDE DEF next
<1>6. work'[c][s] = next /\ \A d \in Calls, r \in Services : d # c \/ r # s => work'[d][r] = work[d][r]
  BY <1>1 DEF GoesOn, ToolType
<1>7. /\ last'[s] = w.tag /\ \A r \in Services : r # s => last'[r] = last[r]
  BY <1>1, <1>2
<1> HIDE DEF owes
<1>8. CASE news
  <2>1. next = owes
    BY <1>8 DEF next
  <2> QED BY <1>1, <1>5, <1>6, <1>7, <1>8, <2>1
<1>9. CASE ~news
  <2>1. next = over
    BY <1>9 DEF next
  <2> QED BY <1>1, <1>3, <1>6, <1>7, <1>9, <2>1
<1> QED BY <1>8, <1>9

LEMMA PostMoves ==
  ASSUME ToolType, NEW c \in Calls, NEW s \in Services, NEW ok \in BOOLEAN, Post(c, s, ok)
  PROVE  /\ work[c][s].pc = "post" /\ work'[c][s].pc = "done"
         /\ \A d \in Calls, r \in Services : d # c \/ r # s => work'[d][r] = work[d][r]
         /\ alone' = alone /\ UNCHANGED cvars /\ last' = last
<1> DEFINE over == [Rest EXCEPT !.pc = "done"]
<1>1. over.pc = "done"
  BY DEF Rest
<1>2. GoesOn(c, s, over)
  BY DEF Post
<1> HIDE DEF over
<1>3. work'[c][s] = over /\ \A d \in Calls, r \in Services : d # c \/ r # s => work'[d][r] = work[d][r]
  BY <1>2 DEF GoesOn, ToolType
<1> QED BY <1>1, <1>3 DEF Post

LEMMA AnnouncingStep ==
  ASSUME CacheInv, ToolInv, AnnouncingInv, WNext
  PROVE  AnnouncingInv'
<1>0. /\ Published /\ Reported /\ OneByOne /\ CTypeOK /\ ToolType
  BY DEF AnnouncingInv, CacheInv, ToolInv
<1>1. UNCHANGED cvars => Published'
  BY <1>0 DEF cvars, Published, Versions
<1>2. CASE Elsewhere
  <2>1. Published'
    BY <1>0, <1>2, ProviderStep, PublicationStep, Goroutines DEF Elsewhere
  <2>2. UNCHANGED <<alone, last, work>>
    BY <1>2 DEF Elsewhere, wvars
  <2> QED BY <1>0, <2>1, <2>2, QuietNews
<1>3. ASSUME NEW c \in Calls, Start(c)
      PROVE  AnnouncingInv'
  <2> DEFINE w == [Rest EXCEPT !.pc = "get"]
  <2>1. /\ work' = [work EXCEPT ![c] = [s \in Services |-> w]]
        /\ alone => work = [d \in Calls |-> [s \in Services |-> Rest]]
        /\ UNCHANGED <<cvars, alone, last>>
    BY <1>3 DEF Start
  <2>2. w.pc = "get" /\ Rest.pc = "none"
    BY DEF Rest
  <2> HIDE DEF w
  <2>3. ASSUME NEW d \in Calls, NEW s \in Services
        PROVE  work'[d][s] = IF d = c THEN w ELSE work[d][s]
    BY <1>0, <2>1 DEF ToolType
  <2>4. ASSUME NEW d \in Calls, NEW s \in Services, alone
        PROVE  work[d][s].pc = "none"
    BY <2>1, <2>2, <2>4
  <2>5. ASSUME NEW d \in Calls, NEW s \in Services
        PROVE  /\ work'[d][s] = work[d][s] \/ work'[d][s].pc \notin {"swap", "post"}
               /\ alone /\ work'[d][s].pc # "none" =>
                    \/ work[d][s].pc # "none"
                    \/ \A e \in Calls : e # d => work'[e][s].pc = "none"
    <3>1. work'[d][s] = work[d][s] \/ work'[d][s].pc \notin {"swap", "post"}
      BY <2>2, <2>3
    <3>2. ASSUME alone, work'[d][s].pc # "none"
          PROVE  \A e \in Calls : e # d => work'[e][s].pc = "none"
      BY <2>3, <2>4, <3>2
    <3> QED BY <3>1, <3>2
  <2> QED BY <1>0, <1>1, <2>1, <2>5, QuietNews
<1>4. ASSUME NEW c \in Calls, Report(c)
      PROVE  AnnouncingInv'
  <2>1. /\ work' = [work EXCEPT ![c] = [s \in Services |-> Rest]]
        /\ UNCHANGED <<cvars, alone, last>> /\ Rest.pc = "none"
    BY <1>4 DEF Report, Rest
  <2>2. ASSUME NEW d \in Calls, NEW s \in Services
        PROVE  work'[d][s] = IF d = c THEN Rest ELSE work[d][s]
    BY <1>0, <2>1 DEF ToolType
  <2> QED BY <1>0, <1>1, <2>1, <2>2, QuietNews
<1>5. ASSUME NEW c \in Calls, NEW s \in Services, Ask(c, s)
      PROVE  AnnouncingInv'
  <2>1. Published'
    BY <1>0, <1>5, ProviderStep, Goroutines DEF Ask
  <2>2. UNCHANGED <<alone, last, work>>
    BY <1>5 DEF Ask, wvars
  <2> QED BY <1>0, <2>1, <2>2, QuietNews
<1>6. ASSUME NEW c \in Calls, NEW s \in Services, Receive(c, s)
      PROVE  AnnouncingInv'
  <2>0. Goroutine(c, s) \in Callers /\ Serve(Goroutine(c, s))
    BY <1>6, Goroutines DEF Receive
  <2>1. /\ Published' /\ (answer'.by = "call" => answer'.val \in Versions)
        /\ UNCHANGED <<alone, last>> /\ work[c][s].pc = "get"
    <3>1. work[c][s].pc = "get"
      BY <1>0, <2>0, Answered DEF ToolInv, InTurn
    <3> QED BY <1>0, <1>6, <2>0, <3>1, ProviderStep DEF Receive
  <2>2. CASE UNCHANGED work
    BY <1>0, <2>1, <2>2, QuietNews
  <2>3. ASSUME NEW w, GoesOn(c, s, w), w.pc \in {"swap", "done"}, w.pc = "swap" => w.tag \in Versions
        PROVE  AnnouncingInv'
    <3>1. work'[c][s] = w /\ \A d \in Calls, r \in Services : d # c \/ r # s => work'[d][r] = work[d][r]
      BY <1>0, <2>3 DEF GoesOn, ToolType
    <3>2. Reported'
      <4>1. ASSUME NEW d \in Calls, NEW r \in Services, work'[d][r].pc = "swap"
            PROVE  work'[d][r].tag \in Versions
        <5>1. CASE d = c /\ r = s
          BY <2>3, <3>1, <4>1, <5>1
        <5>2. CASE d # c \/ r # s
          BY <1>0, <3>1, <4>1, <5>2 DEF Reported
        <5> QED BY <5>1, <5>2
      <4> QED BY <1>0, <2>1, <4>1 DEF Reported, Versions
    <3>3. OneByOne'
      <4>1. ASSUME NEW d \in Calls, NEW r \in Services
            PROVE  /\ work'[d][r].pc # "none" => work[d][r].pc # "none"
                   /\ work'[d][r].pc = "post" => work'[d][r] = work[d][r]
        <5>1. CASE d = c /\ r = s
          BY <2>1, <2>3, <3>1, <5>1
        <5>2. CASE d # c \/ r # s
          BY <3>1, <5>2
        <5> QED BY <5>1, <5>2
      <4>2. \A d, e \in Calls, r \in Services : alone /\
              work'[d][r].pc # "none" /\ work'[e][r].pc # "none" => d = e
        BY <1>0, <4>1 DEF OneByOne, InOrder
      <4>3. \A d \in Calls, r \in Services : alone /\ work'[d][r].pc = "post" =>
              /\ work'[d][r].tag = last[r] /\ last[r] # 0
              /\ work'[d][r].old \notin {0, last[r]}
        BY <1>0, <4>1 DEF OneByOne, InOrder
      <4> QED BY <2>1, <4>2, <4>3 DEF OneByOne, InOrder
    <3> QED BY <2>1, <3>2, <3>3 DEF AnnouncingInv
  <2>4. CASE answer'.by = "call" /\ GoesOn(c, s, [Rest EXCEPT !.pc = "swap", !.tag = answer'.val])
    <3> DEFINE one == [Rest EXCEPT !.pc = "swap"]
               w   == [one EXCEPT !.tag = answer'.val]
    <3>1. one = [pc |-> "swap", tag |-> 0, old |-> 0]
      BY DEF Rest
    <3>2. GoesOn(c, s, w)
      BY <2>4
    <3> HIDE DEF one
    <3>3. w.pc = "swap" /\ w.tag = answer'.val
      BY <3>1
    <3> HIDE DEF w
    <3> QED BY <2>1, <2>3, <2>4, <3>2, <3>3
  <2>5. CASE answer'.by = "error" /\ GoesOn(c, s, [Rest EXCEPT !.pc = "done"])
    <3>1. [Rest EXCEPT !.pc = "done"] = [pc |-> "done", tag |-> 0, old |-> 0]
      BY DEF Rest
    <3> QED BY <2>3, <2>5, <3>1
  <2> QED BY <1>6, <2>2, <2>4, <2>5 DEF Receive
<1>7. ASSUME NEW c \in Calls, NEW s \in Services, Swap(c, s)
      PROVE  AnnouncingInv'
  <2> DEFINE next == work'[c][s]
             tag  == work[c][s].tag
  <2>1. /\ tag \in Versions /\ work[c][s].pc = "swap" /\ last'[s] = tag
        /\ \A r \in Services : r # s => last'[r] = last[r]
        /\ next.pc \in {"post", "done"}
        /\ next.pc = "post" => next.tag = tag /\ next.old = last[s] /\ IsNews(last[s], tag)
        /\ \A d \in Calls, r \in Services : d # c \/ r # s => work'[d][r] = work[d][r]
        /\ UNCHANGED <<cvars, alone>>
    BY <1>0, <1>7, SwapMoves DEF Reported
  <2> HIDE DEF next, tag
  <2>2. Reported'
    <3>1. ASSUME NEW d \in Calls, NEW r \in Services, work'[d][r].pc = "swap"
          PROVE  work'[d][r].tag \in Versions
      <4>1. d # c \/ r # s
        BY <2>1, <3>1 DEF next
      <4> QED BY <1>0, <2>1, <3>1, <4>1 DEF Reported
    <3>2. \A r \in Services : last'[r] \in Versions \cup {0}
      BY <1>0, <2>1 DEF Reported
    <3> QED BY <3>1, <3>2 DEF Reported, Versions
  <2>3. OneByOne'
    <3> SUFFICES ASSUME alone PROVE OneByOne'
      BY <2>1 DEF OneByOne, InOrder
    <3>0. \A d \in Calls : d # c => work[d][s].pc = "none"
      BY <1>0, <2>1 DEF OneByOne, InOrder
    <3>1. \A d, e \in Calls, r \in Services :
            work'[d][r].pc # "none" /\ work'[e][r].pc # "none" => d = e
      <4> TAKE d, e \in Calls, r \in Services
      <4>1. CASE r = s
        BY <2>1, <3>0, <4>1
      <4>2. CASE r # s
        BY <1>0, <2>1, <4>2 DEF OneByOne, InOrder
      <4> QED BY <4>1, <4>2
    <3>2. ASSUME NEW d \in Calls, NEW r \in Services, work'[d][r].pc = "post"
          PROVE  /\ work'[d][r].tag = last'[r] /\ last'[r] # 0
                 /\ work'[d][r].old \notin {0, last'[r]}
      <4>1. CASE r # s
        BY <1>0, <2>1, <3>2, <4>1 DEF OneByOne, InOrder
      <4>2. CASE r = s /\ d = c
        <5>1. next.pc = "post"
          BY <3>2, <4>2 DEF next
        <5>2. tag # 0
          BY <2>1, VersionsAre
        <5>3. last[s] # 0 /\ last[s] # tag
          BY <2>1, <5>1 DEF IsNews
        <5> QED BY <2>1, <4>2, <5>1, <5>2, <5>3 DEF next
      <4>3. CASE r = s /\ d # c
        BY <2>1, <3>0, <3>2, <4>3
      <4> QED BY <4>1, <4>2, <4>3
    <3> QED BY <3>1, <3>2 DEF OneByOne, InOrder
  <2> QED BY <1>1, <2>1, <2>2, <2>3 DEF AnnouncingInv
<1>8. ASSUME NEW c \in Calls, NEW s \in Services, NEW ok \in BOOLEAN, Post(c, s, ok)
      PROVE  AnnouncingInv'
  <2>1. /\ work[c][s].pc = "post" /\ work'[c][s].pc = "done"
        /\ \A d \in Calls, r \in Services : d # c \/ r # s => work'[d][r] = work[d][r]
        /\ UNCHANGED <<cvars, alone, last>>
    BY <1>0, <1>8, PostMoves
  <2>2. ASSUME NEW d \in Calls, NEW r \in Services
        PROVE  /\ work'[d][r] = work[d][r] \/ work'[d][r].pc \notin {"swap", "post"}
               /\ work'[d][r].pc # "none" => work[d][r].pc # "none"
    BY <2>1
  <2> QED BY <1>0, <1>1, <2>1, <2>2, QuietNews
<1> QED BY <1>2, <1>3, <1>4, <1>5, <1>6, <1>7, <1>8 DEF WNext

\* The old version is read before anything is known, so the first release is no news.
THEOREM AnnouncingInvariance == WSpec => []AnnouncingInv
<1>1. WInit => AnnouncingInv
  <2> SUFFICES ASSUME WInit PROVE AnnouncingInv
    OBVIOUS
  <2>1. Published
    <3>1. \A k \in Keys : Len(pubs[k]) = 1
      BY DEF WInit, CInit
    <3>2. \A k \in Keys : Len(pubs[k]) <= MaxPublish
      <4>1. 1 <= MaxPublish
        BY VersionsAre
      <4> QED BY <3>1, <4>1
    <3>3. /\ \A k \in Keys : entries[k] = Absent
          /\ \A g \in Callers : call[g].pc = "free"
      BY DEF WInit, CInit, Free
    <3> QED BY <3>2, <3>3 DEF Published
  <2>2. \A c \in Calls, s \in Services : work[c][s].pc = "none" /\ last[s] = 0
    BY DEF WInit, Rest
  <2>3. \A s \in Services : last[s] = 0
    BY DEF WInit
  <2> QED BY <2>1, <2>2, <2>3 DEF AnnouncingInv, Reported, OneByOne, InOrder
<1>2. CacheInv /\ ToolInv /\ AnnouncingInv /\ [WNext]_<<cvars, wvars>> => AnnouncingInv'
  <2> SUFFICES ASSUME CacheInv, ToolInv, AnnouncingInv, UNCHANGED <<cvars, wvars>>
               PROVE  AnnouncingInv'
    BY AnnouncingStep
  <2> QED BY DEF cvars, wvars, AnnouncingInv, Published, Reported, OneByOne, InOrder, Versions
<1> QED BY <1>1, <1>2, ToolUsesProvider, CacheInvariance, ToolInvariance, PTL DEF WSpec

\* The release the channel has been brought up to.
UpTo(pending, newest) == IF pending = {} THEN newest ELSE CHOOSE old \in pending : TRUE
Base == [s \in Services |-> UpTo(Pending(s), last[s])]

LEMMA AlonePending ==
  ASSUME InOrder, NEW c \in Calls, NEW s \in Services, work[c][s].pc # "none"
  PROVE  Pending(s) = IF work[c][s].pc = "post" THEN {work[c][s].old} ELSE {}
BY DEF InOrder, Pending

\* Only what is pending tells how far the channel is.
LEMMA BaseOf ==
  /\ \A s \in Services : Base[s] = UpTo(Pending(s), last[s])
  /\ \A s \in Services : Base'[s] = UpTo(Pending(s)', last'[s])
BY DEF Base

LEMMA QuietChannel ==
  ASSUME UNCHANGED <<last, taken>>,
         \A c \in Calls, s \in Services :
           work'[c][s] = work[c][s] \/ (work[c][s].pc # "post" /\ work'[c][s].pc # "post")
  PROVE  UNCHANGED Announcements!avars
<1>1. \A s \in Services : Pending(s)' = Pending(s)
  BY DEF Pending
<1>2. Base' = Base
  BY <1>1 DEF Base
<1> QED BY <1>2 DEF Announcements!avars, Base, UpTo

\* What the goroutine of c for s does at its swap is learnt, observed or overlooked.
LEMMA SwapAnnounces ==
  ASSUME ToolType, Reported, InOrder, NEW c \in Calls, NEW s \in Services, Swap(c, s)
  PROVE  [Announcements!ANext]_(Announcements!avars)
<1> DEFINE tag == work[c][s].tag
<1>1. /\ work[c][s].pc = "swap" /\ last' = [last EXCEPT ![s] = tag]
      /\ last'[s] = tag /\ \A r \in Services : r # s => last'[r] = last[r]
      /\ work'[c][s].pc = IF IsNews(last[s], tag) /\ Notifying THEN "post" ELSE "done"
      /\ work'[c][s].pc = "post" => work'[c][s].old = last[s]
      /\ \A d \in Calls, r \in Services : d # c \/ r # s => work'[d][r] = work[d][r]
      /\ taken' = taken
  BY SwapMoves
<1> HIDE DEF tag
<1>2. PICK new \in Versions : new = tag
  BY <1>1 DEF Reported, tag
<1>4. \A r \in Services : r # s => Pending(r)' = Pending(r)
  BY <1>1 DEF Pending
<1>5. Pending(s) = {}
  BY <1>1, AlonePending
<1>6. \A d \in Calls : d # c => work'[d][s].pc # "post"
  BY <1>1 DEF InOrder
<1>7. Pending(s)' = IF work'[c][s].pc = "post" THEN {last[s]} ELSE {}
  BY <1>1, <1>6 DEF Pending
<1>8. /\ Base[s] = last[s]
      /\ Base'[s] = IF work'[c][s].pc = "post" THEN last[s] ELSE tag
      /\ \A r \in Services : r # s => Base'[r] = Base[r]
  <2>1. UpTo({last[s]}, tag) = last[s] /\ \A t : UpTo({}, t) = t
    BY DEF UpTo
  <2>2. \A r \in Services : r # s => Base'[r] = Base[r]
    <3> SUFFICES ASSUME NEW r \in Services, r # s PROVE Base'[r] = Base[r]
      OBVIOUS
    <3>1. Pending(r)' = Pending(r) /\ last'[r] = last[r]
      BY <1>1, <1>4
    <3>2. Base[r] = UpTo(Pending(r), last[r]) /\ Base'[r] = UpTo(Pending(r)', last'[r])
      BY BaseOf
    <3> QED BY <3>1, <3>2
  <2>3. Base[s] = UpTo({}, last[s])
    BY <1>5, BaseOf
  <2>4. Base'[s] = UpTo(IF work'[c][s].pc = "post" THEN {last[s]} ELSE {}, tag)
    BY <1>1, <1>7, BaseOf
  <2> QED BY <2>1, <2>2, <2>3, <2>4
<1>9. /\ work'[c][s].pc = "post" => Base' = Base
      /\ work'[c][s].pc # "post" => Base' = [Base EXCEPT ![s] = tag]
  BY <1>8 DEF Base
<1>10. CASE last[s] = 0
  <2>1. work'[c][s].pc # "post"
    BY <1>1, <1>10 DEF IsNews
  <2>2. Announcements!Learn(s, new)
    BY <1>1, <1>2, <1>9, <1>10, <2>1 DEF Announcements!Learn, Base, UpTo
  <2> QED BY <2>2 DEF Announcements!ANext
<1>11. CASE last[s] = tag /\ last[s] # 0
  <2>1. work'[c][s].pc # "post"
    BY <1>1, <1>11 DEF IsNews
  <2>2. last' = last
    BY <1>1, <1>11 DEF ToolType
  <2> QED BY <1>1, <1>11, <2>1, <2>2, QuietChannel
<1>12. CASE last[s] \notin {0, tag} /\ Notifying
  <2>1. work'[c][s].pc = "post"
    BY <1>1, <1>12 DEF IsNews
  <2>2. Announcements!Observe(s, new)
    BY <1>1, <1>2, <1>8, <1>9, <1>12, <2>1 DEF Announcements!Observe, Base, UpTo
  <2> QED BY <2>2 DEF Announcements!ANext
<1>13. CASE last[s] \notin {0, tag} /\ ~Notifying
  <2>1. work'[c][s].pc # "post"
    BY <1>1, <1>13
  <2>2. Announcements!Overlook(s, new)
    BY <1>1, <1>2, <1>8, <1>9, <1>13, <2>1 DEF Announcements!Overlook, Base, UpTo
  <2> QED BY <2>2 DEF Announcements!ANext
<1> QED BY <1>10, <1>11, <1>12, <1>13

\* What it does at its post is announced or lost.
LEMMA PostAnnounces ==
  ASSUME ToolType, Reported, InOrder, NEW c \in Calls, NEW s \in Services,
         NEW ok \in BOOLEAN, Post(c, s, ok)
  PROVE  [Announcements!ANext]_(Announcements!avars)
<1> DEFINE w == work[c][s]
<1>1. /\ w.pc = "post" /\ work'[c][s].pc = "done"
      /\ \A d \in Calls, r \in Services : d # c \/ r # s => work'[d][r] = work[d][r]
      /\ last' = last
  BY PostMoves
<1>3. w.tag = last[s] /\ w.old # last[s]
  BY <1>1 DEF InOrder
<1> HIDE DEF w
<1>4. \A r \in Services : r # s => Pending(r)' = Pending(r)
  BY <1>1 DEF Pending
<1>5. Pending(s) = {w.old}
  BY <1>1, AlonePending DEF w
<1>6. \A d \in Calls : work'[d][s].pc # "post"
  BY <1>1 DEF InOrder, w
<1>7. Pending(s)' = {}
  BY <1>6 DEF Pending
<1>8. /\ Base[s] = w.old /\ Base'[s] = last[s]
      /\ \A r \in Services : r # s => Base'[r] = Base[r]
  <2>1. UpTo({w.old}, last[s]) = w.old /\ \A t : UpTo({}, t) = t
    BY DEF UpTo
  <2>2. Base[s] = UpTo({w.old}, last[s])
    BY <1>5, BaseOf
  <2>3. Base'[s] = UpTo({}, last[s])
    BY <1>1, <1>7, BaseOf
  <2>4. \A r \in Services : r # s => Base'[r] = Base[r]
    <3> SUFFICES ASSUME NEW r \in Services, r # s PROVE Base'[r] = Base[r]
      OBVIOUS
    <3>1. Pending(r)' = Pending(r) /\ last'[r] = last[r]
      BY <1>1, <1>4
    <3>2. Base[r] = UpTo(Pending(r), last[r]) /\ Base'[r] = UpTo(Pending(r)', last'[r])
      BY BaseOf
    <3> QED BY <3>1, <3>2
  <2> QED BY <2>1, <2>2, <2>3, <2>4
<1>9. /\ Base' = [Base EXCEPT ![s] = last[s]]
      /\ Base' = [r \in Services |-> IF r \in {s} THEN last[r] ELSE Base[r]]
  BY <1>8 DEF Base
<1>10. CASE ok
  <2>1. taken' = [taken EXCEPT ![s] = Append(@, [old |-> Base[s], new |-> last[s]])]
    <3>1. taken' = [taken EXCEPT ![s] = Append(@, [old |-> w.old, new |-> w.tag])]
      BY <1>10 DEF Post, w
    <3> QED BY <1>3, <1>8, <3>1
  <2>2. Announcements!Announce(s)
    BY <1>1, <1>3, <1>8, <1>9, <2>1 DEF Announcements!Announce, Base, UpTo
  <2> QED BY <2>2 DEF Announcements!ANext
<1>11. CASE ~ok
  <2>1. MayFail /\ taken' = taken
    BY <1>11 DEF Post
  <2>2. Announcements!Miss({s})
    BY <1>1, <1>9, <2>1 DEF Announcements!Miss, Base, UpTo
  <2>3. {s} \in SUBSET Services
    OBVIOUS
  <2> QED BY <2>2, <2>3 DEF Announcements!ANext
<1> QED BY <1>10, <1>11

\* With one call at a time the tool keeps the promise of ReleaseAnnouncements: each
\* release is learnt, or is told to the channel once, in order and as a link of one chain.
THEOREM CallsAnnounce == WSpec => WatchAnnounces
<1>1. WInit => Announcements!AInit
  <2> SUFFICES ASSUME WInit PROVE Announcements!AInit
    OBVIOUS
  <2>1. /\ last = [s \in Services |-> 0] /\ taken = [s \in Services |-> <<>>]
        /\ \A s \in Services : Pending(s) = {}
    BY DEF WInit, Pending, Rest
  <2>2. Base = [s \in Services |-> 0]
    BY <2>1 DEF Base, UpTo
  <2> QED BY <2>1, <2>2 DEF Announcements!AInit, Base, UpTo
<1>2. ToolInv /\ CacheInv /\ AnnouncingInv /\ [WNext]_<<cvars, wvars>>
        => [alone => [Announcements!ANext]_(Announcements!avars)]_<<cvars, wvars>>
  <2> SUFFICES ASSUME ToolInv, CacheInv, AnnouncingInv, WNext, alone
               PROVE  [Announcements!ANext]_(Announcements!avars)
    OBVIOUS
  <2>0. ToolType /\ CTypeOK /\ Reported /\ InOrder
    BY DEF ToolInv, CacheInv, AnnouncingInv, OneByOne
  <2>1. ASSUME UNCHANGED <<last, work, taken>>
        PROVE  [Announcements!ANext]_(Announcements!avars)
    BY <2>1, QuietChannel
  <2>2. ASSUME NEW c \in Calls, Start(c) \/ Report(c)
        PROVE  [Announcements!ANext]_(Announcements!avars)
    <3>1. PICK pc \in {"none", "get"} :
            /\ work' = [work EXCEPT ![c] = [s \in Services |-> [Rest EXCEPT !.pc = pc]]]
            /\ \A s \in Services : work[c][s].pc \in {"none", "done"}
      <4>1. Rest = [Rest EXCEPT !.pc = "none"]
        BY DEF Rest
      <4> QED BY <2>2, <4>1 DEF Start, Report
    <3>2. [Rest EXCEPT !.pc = pc].pc = pc
      BY DEF Rest
    <3>3. UNCHANGED <<last, taken>>
      BY <2>2 DEF Start, Report
    <3>4. ASSUME NEW d \in Calls, NEW s \in Services
          PROVE  work'[d][s] = work[d][s] \/ (work[d][s].pc # "post" /\ work'[d][s].pc # "post")
      BY <2>0, <3>1, <3>2 DEF ToolType
    <3> QED BY <3>3, <3>4, QuietChannel
  <2>3. ASSUME NEW c \in Calls, NEW s \in Services, Receive(c, s)
        PROVE  [Announcements!ANext]_(Announcements!avars)
    <3>1. work[c][s].pc = "get"
      BY <2>0, <2>3, Answered, Goroutines DEF Receive, ToolInv, InTurn
    <3>2. UNCHANGED <<last, taken>>
      BY <2>3 DEF Receive
    <3>3. CASE UNCHANGED work
      BY <2>1, <3>2, <3>3
    <3>4. ASSUME NEW w, GoesOn(c, s, w), w.pc # "post"
          PROVE  [Announcements!ANext]_(Announcements!avars)
      <4>1. work'[c][s] = w /\ \A d \in Calls, r \in Services : d # c \/ r # s => work'[d][r] = work[d][r]
        BY <2>0, <3>4 DEF GoesOn, ToolType
      <4>2. ASSUME NEW d \in Calls, NEW r \in Services
            PROVE  work'[d][r] = work[d][r] \/ (work[d][r].pc # "post" /\ work'[d][r].pc # "post")
        BY <3>1, <3>4, <4>1
      <4> QED BY <3>2, <4>2, QuietChannel
    <3>5. CASE answer'.by = "call" /\ GoesOn(c, s, [Rest EXCEPT !.pc = "swap", !.tag = answer'.val])
      <4> DEFINE one == [Rest EXCEPT !.pc = "swap"]
                 w   == [one EXCEPT !.tag = answer'.val]
      <4>1. one = [pc |-> "swap", tag |-> 0, old |-> 0]
        BY DEF Rest
      <4>2. GoesOn(c, s, w)
        BY <3>5
      <4> HIDE DEF one
      <4>3. w.pc = "swap"
        BY <4>1
      <4> HIDE DEF w
      <4> QED BY <3>4, <4>2, <4>3
    <3>6. CASE answer'.by = "error" /\ GoesOn(c, s, [Rest EXCEPT !.pc = "done"])
      <4>1. [Rest EXCEPT !.pc = "done"].pc = "done"
        BY DEF Rest
      <4> QED BY <3>4, <3>6, <4>1
    <3> QED BY <2>3, <3>3, <3>5, <3>6 DEF Receive
  <2>4. ASSUME NEW c \in Calls, NEW s \in Services, Swap(c, s)
        PROVE  [Announcements!ANext]_(Announcements!avars)
    BY <2>0, <2>4, SwapAnnounces
  <2>5. ASSUME NEW c \in Calls, NEW s \in Services, NEW ok \in BOOLEAN, Post(c, s, ok)
        PROVE  [Announcements!ANext]_(Announcements!avars)
    BY <2>0, <2>5, PostAnnounces
  <2>6. ASSUME Elsewhere \/ \E c \in Calls, s \in Services : Ask(c, s)
        PROVE  UNCHANGED <<last, work, taken>>
    BY <2>6 DEF Elsewhere, Ask, wvars
  <2> QED BY <2>1, <2>2, <2>3, <2>4, <2>5, <2>6 DEF WNext
<1> QED BY <1>1, <1>2, ToolUsesProvider, CacheInvariance, ToolInvariance, AnnouncingInvariance, PTL
        DEF WSpec, WatchAnnounces
=============================================================================
