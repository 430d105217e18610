---------------------------- MODULE WatchCommand ----------------------------
(* `releasewave watch`: a check asks for every service at once, each in a   *)
(* goroutine of its own, through the provider of its platform and that      *)
(* provider's token bucket; between checks the command waits for the ticker *)
(* or a signal.  Time is counted in ticks, in each of which a bucket gains  *)
(* Rate tokens; goroutines and locks take none.                             *)
EXTENDS Integers, Sequences, FiniteSets

CONSTANTS
  Services, Tags, Platforms, NoTag,
  Rate, Burst,   \* of the token bucket: cfg.RateLimit and 10
  Deadline,      \* of the context of a check: 60 s
  Window,        \* bound: ticks over which requests are counted
  MaxPublish     \* bound: releases published upstream

ASSUME WatchAssumption ==
  /\ Rate \in Nat \ {0} /\ Burst \in Nat \ {0} /\ Window \in Nat \ {0}
  /\ Deadline \in Nat /\ MaxPublish \in Nat
  /\ IsFiniteSet(Services) /\ NoTag \notin Tags \cup Services

VARIABLES
  platform,   \* platform[s]: where the repo of s lives
  upstream, published,
  tokens,     \* tokens[p]: in the bucket; below zero, what is promised
  sent,       \* sent[p][k]: requests sent in this tick and the k - 1 before it
  once, first, known,
  phase,      \* "off", "check", "select", "stopped" or "killed"
  left,       \* ticks left to the check's context
  job,        \* job[s]: the goroutine of the check
  mu,         \* the service whose goroutine holds mu, or NoTag
  tick,       \* ticker.C holds a tick
  signal,     \* sigCh holds a signal
  printed     \* printed[s]: the changes announced for s

world     == <<platform, upstream, published>>
control   == <<once, first, phase, tick, signal>>
bucket    == <<tokens, sent, left>>
memory    == <<known, mu, printed>>
watchVars == <<world, control, bucket, memory, job>>

NoGoroutine == [pc |-> "none", wait |-> 0, tag |-> NoTag, old |-> NoTag]
Goroutine   == [NoGoroutine EXCEPT !.pc = "start"]

WatchInit ==
  /\ platform \in [Services -> Platforms] /\ upstream \in [Services -> Tags] /\ published = 0
  /\ tokens = [p \in Platforms |-> Burst]
  /\ sent = [p \in Platforms |-> [k \in 1..Window |-> 0]]
  /\ once \in BOOLEAN /\ first = TRUE /\ known = [s \in Services |-> NoTag]
  /\ phase = "off" /\ left = 0 /\ job = [s \in Services |-> NoGoroutine]
  /\ mu = NoTag /\ tick = FALSE /\ signal = FALSE
  /\ printed = [s \in Services |-> <<>>]

-----------------------------------------------------------------------------
(* A goroutine: ratelimit.Wait, doRequest, and the comparison under mu.     *)

\* Seeded fault: one limiter for both platforms.
Limiter_Shared(s) == CHOOSE p \in Platforms : TRUE

Limiter(s) == platform[s]

At(s, state) == job' = [job EXCEPT ![s] = state] /\ UNCHANGED <<world, control>>

\* The ticks until a token is there, each promise before this one kept.
Delay(p) == IF tokens[p] > 0 THEN 0 ELSE (Rate - tokens[p]) \div Rate

\* Seeded fault: a limiter of its own for every request.
Wait_Own(s) ==
  /\ job[s].pc = "start" /\ UNCHANGED <<bucket, memory>>
  /\ At(s, [job[s] EXCEPT !.pc = "wait"])

\* A wait that would outlast the context is refused at once, and takes no token.
Wait(s) ==
  LET p == Limiter(s) IN
  /\ job[s].pc = "start" /\ UNCHANGED <<sent, left, memory>>
  /\ IF Delay(p) > left THEN At(s, [job[s] EXCEPT !.pc = "refused"]) /\ UNCHANGED tokens
     ELSE /\ At(s, [job[s] EXCEPT !.pc = "wait", !.wait = Delay(p)])
          /\ tokens' = [tokens EXCEPT ![p] = @ - 1]

Send(s) ==
  /\ job[s].pc = "wait" /\ job[s].wait = 0 /\ UNCHANGED <<tokens, left, memory>>
  /\ At(s, [job[s] EXCEPT !.pc = "sent"])
  /\ sent' = [sent EXCEPT ![platform[s]] = [k \in 1..Window |-> @[k] + 1]]

Reply(s) == /\ job[s].pc = "sent" /\ UNCHANGED <<bucket, memory>>
            /\ At(s, [job[s] EXCEPT !.pc = "swap", !.tag = upstream[s]])

\* Another status than 200, no answer in time, no release: the service is passed over.
Fail(s) == /\ job[s].pc = "sent" /\ UNCHANGED <<bucket, memory>>
           /\ At(s, [job[s] EXCEPT !.pc = "done"])

\* Seeded fault: a service missed by the first check is news when it answers.
IsNews_Unseen(s) == ~first /\ known[s] # job[s].tag

IsNews(s) == ~first /\ known[s] \notin {NoTag, job[s].tag}

\* known[svc.Name] = release.Tag, and a line of the listing or none; a change is
\* printed with mu held.
Swap(s) ==
  /\ job[s].pc = "swap" /\ mu = NoTag /\ UNCHANGED <<bucket, printed>>
  /\ known' = [known EXCEPT ![s] = job[s].tag]
  /\ IF IsNews(s) THEN mu' = s /\ At(s, [job[s] EXCEPT !.pc = "print", !.old = known[s]])
                  ELSE mu' = mu /\ At(s, [job[s] EXCEPT !.pc = "done"])

PrintNew(s) ==
  /\ job[s].pc = "print" /\ UNCHANGED <<bucket, known>>
  /\ printed' = [printed EXCEPT ![s] = Append(@, [old |-> job[s].old, new |-> job[s].tag])]
  /\ mu' = NoTag /\ At(s, [job[s] EXCEPT !.pc = "done"])

-----------------------------------------------------------------------------
(* The command.                                                             *)

Check == phase' = "check" /\ left' = Deadline /\ job' = [s \in Services |-> Goroutine]

Launch == /\ phase = "off" /\ Check
          /\ UNCHANGED <<world, memory, tokens, sent, once, first, tick, signal>>

\* Seeded fault: wg.Done is not reached where the limiter refuses.
Returned_NotRefused(s) == job[s].pc = "done"

Returned(s) == job[s].pc \in {"done", "refused"}

\* wg.Wait; after the first check: once, or signal.Notify and the ticker.
CheckDone ==
  /\ phase = "check" /\ \A s \in Services : Returned(s)
  /\ phase' = IF once THEN "stopped" ELSE "select"
  /\ first' = FALSE /\ left' = 0 /\ job' = [s \in Services |-> NoGoroutine]
  /\ UNCHANGED <<world, memory, tokens, sent, once, tick, signal>>

SelectTick == /\ phase = "select" /\ tick /\ tick' = FALSE /\ Check
              /\ UNCHANGED <<world, memory, tokens, sent, once, first, signal>>

SelectStop == /\ phase = "select" /\ signal /\ signal' = FALSE /\ phase' = "stopped"
              /\ UNCHANGED <<world, memory, bucket, job, once, first, tick>>

-----------------------------------------------------------------------------
(* What happens around it.                                                  *)

Publish(s, t) ==
  /\ published < MaxPublish /\ published' = published + 1
  /\ t # upstream[s] /\ upstream' = [upstream EXCEPT ![s] = t]
  /\ phase # "off" /\ UNCHANGED <<platform, control, bucket, memory, job>>

\* A tick that finds ticker.C full is dropped.
TickerFires == /\ phase \in {"check", "select"} /\ ~first /\ ~tick /\ tick' = TRUE
               /\ UNCHANGED <<world, memory, bucket, job, once, first, phase, signal>>

\* Before signal.Notify it ends the process; a second one finds sigCh full.
Signal ==
  /\ phase \in {"check", "select"} /\ ~signal
  /\ IF first THEN phase' = "killed" /\ UNCHANGED signal ELSE signal' = TRUE /\ UNCHANGED phase
  /\ UNCHANGED <<world, memory, bucket, job, once, first, tick>>

\* Nothing waits longer than it must, and no goroutine longer than its context.
Clock ==
  /\ phase \in {"check", "select"}
  /\ \A s \in Services : /\ job[s].pc \notin {"start", "swap", "print"}
                         /\ job[s].pc = "wait" => job[s].wait > 0
                         /\ job[s].pc \in {"wait", "sent"} => left > 0
  /\ left' = IF left > 0 THEN left - 1 ELSE 0
  /\ tokens' = [p \in Platforms |-> IF tokens[p] + Rate > Burst THEN Burst ELSE tokens[p] + Rate]
  /\ sent' = [p \in Platforms |-> [k \in 1..Window |-> IF k = 1 THEN 0 ELSE sent[p][k - 1]]]
  /\ job' = [s \in Services |-> IF job[s].pc = "wait" THEN [job[s] EXCEPT !.wait = @ - 1] ELSE job[s]]
  /\ UNCHANGED <<world, control, memory>>

Goroutines(s) == Wait(s) \/ Send(s) \/ Reply(s) \/ Fail(s) \/ Swap(s) \/ PrintNew(s)

WatchNext == \/ Launch \/ CheckDone \/ SelectTick \/ SelectStop \/ TickerFires \/ Signal \/ Clock
             \/ \E s \in Services : (phase = "check" /\ Goroutines(s)) \/ \E t \in Tags : Publish(s, t)

\* Goroutines are scheduled, time passes, and a select that finds both channels
\* ready again and again does not always pass over the signal.
WatchFairness == /\ \A s \in Services : WF_watchVars(phase = "check" /\ Goroutines(s))
                 /\ WF_watchVars(CheckDone) /\ WF_watchVars(Clock) /\ SF_watchVars(SelectStop)

WatchSpec == WatchInit /\ [][WatchNext]_watchVars /\ WatchFairness

-----------------------------------------------------------------------------
\* Whatever the checks and the services, a platform gets no more requests in any span
\* of time than the bucket allows: Rate for each tick and, at once, what it holds or what
\* a tick brings, if that is more (doRequest waits before it sends, and the clients of a
\* command share one limiter per platform).
RateRespected ==
  \A p \in Platforms, k \in 1..Window :
    sent[p][k] <= (IF Rate > Burst THEN Rate ELSE Burst) + Rate * (k - 1)

\* A service is passed over by the limiter only where a check has more services of
\* its platform than tokens come in before its context ends: no check eats into the
\* next one's, and no platform into another's (rate.Limiter.Wait, watch.go).
RefusedIsOverload ==
  \A s \in Services : job[s].pc = "refused" =>
    Cardinality({r \in Services : platform[r] = platform[s]}) > Rate * Deadline

Printing == INSTANCE ReleaseAnnouncements WITH
  MayMiss <- FALSE, None <- NoTag, latest <- known, events <- printed,
  base <- [s \in Services |-> IF job[s].pc = "print" THEN job[s].old ELSE known[s]]

\* Every change of a service between two of its answers is printed once, in order, and
\* no first answer is taken for a change, however the goroutines of a check interleave
\* and whichever checks a service missed (the comparison under mu).
ChangesPrinted == Printing!ASpec

\* A signal stops the command, whatever the check in progress waits for and however
\* often the ticker is ready too (select, after wg.Wait).
SignalStops == signal ~> phase = "stopped"
=============================================================================
