--------------------------- MODULE CachedProvider ---------------------------
(* internal/provider/cached.go over internal/cache/cache.go: a call looks   *)
(* the key up, judges the entry by the clock, and on a miss asks the        *)
(* upstream and stores the answer.  Nothing joins calls that miss together, *)
(* and no lock spans two of these steps.  The four cached methods differ in *)
(* the key and the type of the value only.                                  *)
EXTENDS Integers, Sequences

CONSTANTS
  Callers,     \* goroutines that may call the provider
  Keys,        \* cache keys
  TTL,         \* the time an entry lives
  MaxLag,      \* bound: from the upstream's reading of a value to Set
  MaxTime,     \* bound: the clock
  MaxPublish   \* bound: values published for a key

ASSUME CachedProviderAssumption ==
  /\ TTL \in Nat /\ MaxLag \in Nat /\ MaxTime \in Nat
  /\ MaxPublish \in Nat \ {0}

VARIABLES
  now,      \* the clock
  pubs,     \* pubs[k][v]: when value v of k became the upstream's
  entries,  \* c.entries: the value and its expiry, or Absent
  call,     \* call[c]: the call that c is in
  answer    \* what a call returned in the last step, if one did

cvars == <<now, pubs, entries, call, answer>>

Absent == [val |-> 0, expires |-> 0]

\* entry: the copy that Get read; val and at: the value fetched and when it was
\* the upstream's.
Free == [pc |-> "free", key |-> "none", entry |-> Absent, val |-> 0, at |-> 0]
NoAnswer == [by |-> "none"]
Returned(c, k, v) == [by |-> "call", caller |-> c, key |-> k, val |-> v]

CInit ==
  /\ now = 0
  /\ pubs = [k \in Keys |-> <<0>>]
  /\ entries = [k \in Keys |-> Absent]
  /\ call = [c \in Callers |-> Free]
  /\ answer = NoAnswer

-----------------------------------------------------------------------------
\* Time passes, but not while a value fetched MaxLag ago is still to be stored.
Pass ==
  /\ now < MaxTime
  /\ \A c \in Callers : call[c].pc = "store" => now < call[c].at + MaxLag
  /\ now' = now + 1 /\ answer' = NoAnswer
  /\ UNCHANGED <<pubs, entries, call>>

NewValue(k) ==
  /\ Len(pubs[k]) < MaxPublish
  /\ pubs' = [pubs EXCEPT ![k] = Append(@, now)] /\ answer' = NoAnswer
  /\ UNCHANGED <<now, entries, call>>

\* Cache.Get, under the read lock: copy the entry.
Lookup(c, k) ==
  /\ call[c].pc = "free"
  /\ call' = [call EXCEPT ![c] =
       [Free EXCEPT !.pc = IF entries[k] = Absent THEN "fetch" ELSE "judge",
                    !.key = k, !.entry = entries[k]]]
  /\ answer' = NoAnswer
  /\ UNCHANGED <<now, pubs, entries>>

\* Cache.Get, after the lock: the copy is served, or the key is to be deleted.
JudgeStep(c, hit, onHit) ==
  LET j == call[c] IN
  /\ j.pc = "judge"
  /\ call' = [call EXCEPT ![c] = IF hit THEN Free ELSE [j EXCEPT !.pc = "evict"]]
  /\ answer' = IF hit THEN Returned(c, j.key, j.entry.val) ELSE NoAnswer
  /\ entries' = IF hit THEN [entries EXCEPT ![j.key] = onHit] ELSE entries
  /\ UNCHANGED <<now, pubs>>

\* Seeded fault: a hit renews the entry.
Judge_Renews(c) == JudgeStep(c, now <= call[c].entry.expires,
                             [call[c].entry EXCEPT !.expires = now + TTL])

Judge(c) == JudgeStep(c, now <= call[c].entry.expires, entries[call[c].key])

\* Cache.Delete: of whatever the key holds by now.
Evict(c) ==
  /\ call[c].pc = "evict"
  /\ entries' = [entries EXCEPT ![call[c].key] = Absent]
  /\ call' = [call EXCEPT ![c].pc = "fetch"]
  /\ answer' = NoAnswer
  /\ UNCHANGED <<now, pubs>>

\* The inner provider's answer leaves the upstream.
Fetch(c) ==
  /\ call[c].pc = "fetch"
  /\ call' = [call EXCEPT ![c] =
       [call[c] EXCEPT !.pc = "store", !.val = Len(pubs[call[c].key]), !.at = now]]
  /\ answer' = NoAnswer
  /\ UNCHANGED <<now, pubs, entries>>

\* The error of the inner provider is returned; nothing is stored.
FetchError(c) ==
  /\ call[c].pc = "fetch"
  /\ call' = [call EXCEPT ![c] = Free]
  /\ answer' = [by |-> "error", caller |-> c, key |-> call[c].key]
  /\ UNCHANGED <<now, pubs, entries>>

\* Cache.Set, and the call returns.
SetEntry(c) ==
  LET j == call[c] IN
  /\ j.pc = "store"
  /\ entries' = [entries EXCEPT ![j.key] = [val |-> j.val, expires |-> now + TTL]]
  /\ call' = [call EXCEPT ![c] = Free]
  /\ answer' = Returned(c, j.key, j.val)
  /\ UNCHANGED <<now, pubs>>

Serve(c) == Judge(c) \/ Evict(c) \/ Fetch(c) \/ FetchError(c) \/ SetEntry(c)

CNext ==
  \/ Pass
  \/ \E k \in Keys : NewValue(k)
  \/ \E c \in Callers : Serve(c) \/ \E k \in Keys : Lookup(c, k)

CSpec == CInit /\ [][CNext]_cvars

-----------------------------------------------------------------------------
Entry == {Absent} \cup [val : Nat \ {0}, expires : Nat]

CTypeOK ==
  /\ now \in 0..MaxTime
  /\ pubs \in [Keys -> Seq(0..MaxTime)]
  /\ entries \in [Keys -> Entry]
  /\ call \in [Callers -> [pc : {"free", "judge", "evict", "fetch", "store"}, key : Keys \cup {"none"},
                           entry : Entry, val : Nat, at : Nat]]

\* Value v of k was not replaced before time t.
CurrentAt(k, v, t) == v < Len(pubs[k]) => pubs[k][v + 1] >= t

\* What a call returns was the upstream's at most TTL and MaxLag ago: expired
\* entries are never served, hits do not prolong an entry's life, and overlapping
\* misses do not pass a value on from one to the other (Cache.Get judges the copy
\* it read by the clock it reads after; Set dates an entry once).
AnswersFresh ==
  answer.by = "call" => CurrentAt(answer.key, answer.val, now - TTL - MaxLag)

\* Why: every value is dated when it is fetched and again when it is stored.
EntryOK(k, e) == e # Absent => /\ e.expires <= now + TTL
                              /\ CurrentAt(k, e.val, e.expires - TTL - MaxLag)

CacheInv ==
  /\ CTypeOK
  /\ \A k \in Keys :
       /\ pubs[k] # <<>> /\ \A v \in 1..Len(pubs[k]) : pubs[k][v] <= now
       /\ EntryOK(k, entries[k])
  /\ \A c \in Callers :
       /\ call[c].pc # "free" => call[c].key \in Keys
       /\ call[c].pc = "judge" => /\ call[c].entry # Absent
                                  /\ EntryOK(call[c].key, call[c].entry)
       /\ call[c].pc = "store" =>
            /\ call[c].val \in 1..Len(pubs[call[c].key])
            /\ call[c].at <= now /\ now <= call[c].at + MaxLag
            /\ CurrentAt(call[c].key, call[c].val, call[c].at)
  /\ AnswersFresh
=============================================================================
