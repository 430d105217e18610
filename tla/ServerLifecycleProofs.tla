------------------------ MODULE ServerLifecycleProofs -----------------------
(* The store outlives the requests, for any number of requests and services.*)
EXTENDS ServerLifecycle, TLAPS

\* Nothing is claimed of a server that was told to stop before it was built, nor once
\* the five seconds are over.
Orderly == ~late /\ ~TooEarly

\* The routes that lead to a stream and to a tool; no more histories than asked for.
RouteOK == \A r \in Requests : /\ req[r].pc = "stream" => req[r].route = "sse"
                               /\ req[r].pc = "tool" => req[r].route = "message"
                               /\ req[r].rows <= req[r].asked

\* The store is closed last, and after the wait of Shutdown no connection is open.
ClosedLast == store = "closed" => stopper = "done"
DrainedOK  == Orderly /\ http = "shut" /\ stopper \in {"sse", "store", "done"} =>
                \A r \in Requests : ~Open(r)

\* A timeline has every history it has asked for.
NoHoles == Orderly => \A r \in Requests :
             /\ ~Harmed(r)
             /\ req[r].pc = "handle" => req[r].rows = req[r].asked

LifeInv == TypeOK /\ RouteOK /\ ClosedLast /\ DrainedOK /\ NoHoles

\* Where the store is closed in good order, no connection is open.
LEMMA ClosedMeansDrained ==
  ASSUME LifeInv, Orderly, store = "closed"
  PROVE  \A r \in Requests : ~Open(r)
BY DEF LifeInv, ClosedLast, DrainedOK, Orderly, TooEarly

\* A step that leaves the requests alone, or cuts them off, and does not undo a shutdown.
LEMMA ServerStep ==
  ASSUME LifeInv, TypeOK', ClosedLast', Orderly' => Orderly,
         \A r \in Requests : req'[r] = req[r] \/ req'[r] = [req[r] EXCEPT !.pc = "cut"],
         Orderly' /\ http' = "shut" /\ stopper' \in {"sse", "store", "done"} =>
            \/ http = "shut" /\ stopper \in {"sse", "store", "done"}
            \/ \A r \in Requests : ~Open(r)
  PROVE  LifeInv'
<1>1. ASSUME NEW r \in Requests
      PROVE  /\ req[r].pc = req'[r].pc \/ req'[r].pc = "cut"
             /\ req'[r].route = req[r].route /\ req'[r].rows = req[r].rows
             /\ req'[r].asked = req[r].asked /\ req'[r].status = req[r].status
  BY DEF LifeInv, TypeOK
<1>2. RouteOK'
  BY <1>1 DEF LifeInv, RouteOK
<1>3. DrainedOK'
  BY <1>1 DEF LifeInv, DrainedOK, Open
<1>4. NoHoles'
  BY <1>1 DEF LifeInv, NoHoles, Harmed
<1> QED BY <1>2, <1>3, <1>4 DEF LifeInv

\* Every action of the server's own.
LEMMA ServerGoes ==
  ASSUME LifeInv, Main \/ Signal \/ Stopper
  PROVE  LifeInv'
<1>1. CASE BuildSSE
  BY <1>1, ServerStep DEF BuildSSE, MainGoes, LifeInv, TypeOK, ClosedLast, Orderly, TooEarly
<1>2. CASE BuildHTTP
  BY <1>2, ServerStep DEF BuildHTTP, MainGoes, LifeInv, TypeOK, ClosedLast, Orderly, TooEarly
<1>3. CASE Listen
  BY <1>3, ServerStep DEF Listen, MainGoes, LifeInv, TypeOK, ClosedLast, Orderly, TooEarly
<1>4. CASE ServeEnds
  BY <1>4, ServerStep DEF ServeEnds, MainGoes, LifeInv, TypeOK, ClosedLast, Orderly, TooEarly
<1>5. CASE RunEReturns
  BY <1>5, ServerStep DEF RunEReturns, MainGoes, LifeInv, TypeOK, ClosedLast, Orderly, TooEarly
<1>6. CASE Exit
  <2>1. \A r \in Requests : req'[r] = req[r] \/ req'[r] = [req[r] EXCEPT !.pc = "cut"]
    BY <1>6 DEF Exit
  <2>2. TypeOK'
    BY <1>6 DEF Exit, MainGoes, LifeInv, TypeOK
  <2> QED BY <1>6, <2>1, <2>2, ServerStep DEF Exit, MainGoes, LifeInv, ClosedLast, Orderly, TooEarly
<1>7. CASE Signal
  BY <1>7, ServerStep DEF Signal, LifeInv, TypeOK, ClosedLast, Orderly, TooEarly
<1>8. CASE Wake
  BY <1>8, ServerStep DEF Wake, StopperGoes, LifeInv, TypeOK, ClosedLast, Orderly, TooEarly
<1>9. CASE HTTPShutdown
  BY <1>9, ServerStep DEF HTTPShutdown, StopperGoes, LifeInv, TypeOK, ClosedLast, Orderly, TooEarly
<1>10. CASE Drained
  BY <1>10, ServerStep DEF Drained, StopperGoes, LifeInv, TypeOK, ClosedLast, Orderly, TooEarly
<1>11. CASE DrainTimesOut
  BY <1>11, ServerStep DEF DrainTimesOut, StopperGoes, LifeInv, TypeOK, ClosedLast, Orderly, TooEarly
<1>12. CASE SSEShutdown
  BY <1>12, ServerStep DEF SSEShutdown, StopperGoes, LifeInv, TypeOK, ClosedLast, Orderly, TooEarly
<1>13. CASE CloseStore
  BY <1>13, ServerStep DEF CloseStore, StopperGoes, LifeInv, TypeOK, ClosedLast, Orderly, TooEarly
<1> QED BY <1>1, <1>2, <1>3, <1>4, <1>5, <1>6, <1>7, <1>8, <1>9, <1>10, <1>11, <1>12, <1>13
        DEF Main, Stopper

\* What the new record of a request r must be like.
RequestRecords == [pc : {"idle", "handle", "stream", "tool", "answered", "lost", "cut"},
                   route : Routes, status : {0, 200, 202, 401, 500, 503},
                   asked : 0..NumServices, rows : 0..NumServices]

Fits(r, record) ==
  /\ record \in RequestRecords /\ record.rows <= record.asked
  /\ record.pc = "stream" => record.route = "sse"
  /\ record.pc = "tool" => record.route = "message"
  /\ record.pc \in {"handle", "stream"} => Open(r) \/ http = "open"
  /\ Orderly => /\ record.pc = "handle" => record.rows = record.asked
                /\ record.pc = "answered" =>
                     /\ record.status # 500
                     /\ record.route = "timeline" /\ record.status = 200 =>
                          record.rows = NumServices

\* A step of one request.
LEMMA RequestStep ==
  ASSUME LifeInv, NEW r \in Requests, NEW from, NEW record,
         RequestGoes(r, from, record), Fits(r, record)
  PROVE  LifeInv'
<1> USE DEF Fits, RequestRecords
<1>1. /\ req'[r] = record /\ \A q \in Requests \ {r} : req'[q] = req[q]
      /\ UNCHANGED <<main, http, sse, store, ctxDone, stopper, late>>
  BY DEF RequestGoes, LifeInv, TypeOK
<1>2. TypeOK'
  BY DEF RequestGoes, LifeInv, TypeOK
<1>3. RouteOK'
  BY <1>1 DEF LifeInv, RouteOK
<1>4. ClosedLast' /\ (Orderly' <=> Orderly)
  BY <1>1 DEF LifeInv, ClosedLast, Orderly, TooEarly
<1>5. DrainedOK'
  BY <1>1, <1>4 DEF LifeInv, DrainedOK, Open
<1>6. NoHoles'
  BY <1>1, <1>2, <1>4, ServerAssumption DEF LifeInv, NoHoles, Harmed, TypeOK
<1> QED BY <1>2, <1>3, <1>4, <1>5, <1>6 DEF LifeInv

\* A request that moves on and is given a status.
PCs == {"idle", "handle", "stream", "tool", "answered", "lost", "cut"}
Statuses == {0, 200, 202, 401, 500, 503}

Moved(q, pc, status) == [q EXCEPT !.pc = pc, !.status = status]

LEMMA MovedFields ==
  ASSUME NEW q \in RequestRecords, NEW pc \in PCs, NEW status \in Statuses
  PROVE  /\ Moved(q, pc, status) \in RequestRecords
         /\ Moved(q, pc, status).pc = pc /\ Moved(q, pc, status).status = status
         /\ Moved(q, pc, status).route = q.route /\ Moved(q, pc, status).asked = q.asked
         /\ Moved(q, pc, status).rows = q.rows
<1> DEFINE m == [q EXCEPT !.pc = pc]
<1>1. /\ m \in RequestRecords
      /\ m.pc = pc /\ m.route = q.route /\ m.asked = q.asked /\ m.rows = q.rows
  BY DEF RequestRecords, PCs
<1>2. Moved(q, pc, status) = [m EXCEPT !.status = status]
  BY DEF Moved
<1> HIDE DEF m
<1> QED BY <1>1, <1>2 DEF RequestRecords, Statuses

\* Pages, streams, and requests that come or leave.
LEMMA ConnectionSteps ==
  ASSUME LifeInv, NEW r \in Requests,
         \/ Page(r) \/ Stream(r) \/ Message(r) \/ Leave(r)
         \/ \E route \in Routes, bearer, header \in Keys : Accept(r, route, Presented(bearer, header))
  PROVE  LifeInv'
<1> USE DEF Answers, Open
<1>0. /\ req[r] \in RequestRecords
      /\ RouteOK
      /\ 0 \in 0..NumServices
  BY ServerAssumption DEF LifeInv, TypeOK, RequestRecords
<1>1. CASE Page(r)
  <2> DEFINE record == Moved(req[r], "answered", 200)
  <2>1. RequestGoes(r, "handle", record) /\ req[r].pc = "handle" /\ req[r].route # "timeline"
    BY <1>1 DEF Moved, Page, RequestGoes
  <2>2. /\ record \in RequestRecords /\ record.pc = "answered" /\ record.status = 200
        /\ record.route = req[r].route /\ record.asked = req[r].asked /\ record.rows = req[r].rows
    BY <1>0, MovedFields DEF PCs, Statuses
  <2> HIDE DEF record
  <2>3. Fits(r, record)
    BY <1>0, <2>1, <2>2 DEF Fits, RouteOK
  <2> QED BY <2>1, <2>3, RequestStep
<1>2. CASE Stream(r)
  <2> DEFINE record == [req[r] EXCEPT !.pc = "stream"]
  <2>1. RequestGoes(r, "handle", record) /\ req[r].pc = "handle" /\ req[r].route = "sse"
    BY <1>2 DEF Stream, RequestGoes
  <2>2. Fits(r, record)
    BY <1>0, <2>1 DEF Fits, RequestRecords, RouteOK
  <2> HIDE DEF record
  <2> QED BY <2>1, <2>2, RequestStep
<1>3. CASE Message(r)
  <2> DEFINE record == Moved(req[r], "tool", 202)
  <2>1. RequestGoes(r, "handle", record) /\ req[r].pc = "handle" /\ req[r].route = "message"
    BY <1>3 DEF Moved, Message, RequestGoes
  <2>2. /\ record \in RequestRecords /\ record.pc = "tool" /\ record.status = 202
        /\ record.route = req[r].route /\ record.asked = req[r].asked /\ record.rows = req[r].rows
    BY <1>0, MovedFields DEF PCs, Statuses
  <2> HIDE DEF record
  <2>3. Fits(r, record)
    BY <1>0, <2>1, <2>2 DEF Fits, RouteOK
  <2> QED BY <2>1, <2>3, RequestStep
<1>4. CASE Leave(r)
  <2> DEFINE record == Moved(req[r], "answered", 200)
  <2>1. RequestGoes(r, "stream", record) /\ req[r].pc = "stream" /\ req[r].route = "sse"
    BY <1>0, <1>4 DEF Moved, Leave, RequestGoes, RouteOK
  <2>2. /\ record \in RequestRecords /\ record.pc = "answered" /\ record.status = 200
        /\ record.route = req[r].route /\ record.asked = req[r].asked /\ record.rows = req[r].rows
    BY <1>0, MovedFields DEF PCs, Statuses
  <2> HIDE DEF record
  <2>3. Fits(r, record)
    BY <1>0, <2>1, <2>2 DEF Fits, RouteOK
  <2> QED BY <2>1, <2>3, RequestStep
<1>5. ASSUME NEW route \in Routes, NEW key, Accept(r, route, key)
      PROVE  LifeInv'
  <2>0. /\ Idle \in RequestRecords /\ Idle.status = 0 /\ Idle.asked = 0 /\ Idle.rows = 0
    BY <1>0 DEF Idle, Routes, RequestRecords
  <2>1. CASE Admitted(route, key)
    <3> DEFINE come   == [Idle EXCEPT !.pc = "handle"]
               record == [Idle EXCEPT !.pc = "handle", !.route = route]
    <3>1. RequestGoes(r, "idle", record) /\ http = "open"
      BY <1>5, <2>1 DEF Accept
    <3>2. come \in RequestRecords /\ come.pc = "handle" /\ come.asked = 0 /\ come.rows = 0
      BY <2>0 DEF RequestRecords
    <3>3. record = [come EXCEPT !.route = route]
      OBVIOUS
    <3> HIDE DEF come, record
    <3>4. record \in RequestRecords /\ record.pc = "handle" /\ record.asked = 0 /\ record.rows = 0
      BY <3>2, <3>3 DEF RequestRecords
    <3>5. Fits(r, record)
      BY <3>1, <3>4 DEF Fits
    <3> QED BY <3>1, <3>5, RequestStep
  <2>2. CASE ~Admitted(route, key)
    <3> DEFINE come   == [Idle EXCEPT !.pc = "answered"]
               named  == [Idle EXCEPT !.pc = "answered", !.route = route]
               record == [Idle EXCEPT !.pc = "answered", !.route = route, !.status = 401]
    <3>1. RequestGoes(r, "idle", record)
      BY <1>5, <2>2 DEF Accept
    <3>2. come \in RequestRecords /\ come.pc = "answered" /\ come.asked = 0 /\ come.rows = 0
      BY <2>0 DEF RequestRecords
    <3>3. named = [come EXCEPT !.route = route] /\ record = [named EXCEPT !.status = 401]
      OBVIOUS
    <3> HIDE DEF come, named, record
    <3>4. named \in RequestRecords /\ named.pc = "answered" /\ named.asked = 0 /\ named.rows = 0
      BY <3>2, <3>3 DEF RequestRecords
    <3>5. /\ record \in RequestRecords /\ record.pc = "answered" /\ record.status = 401
          /\ record.asked = 0 /\ record.rows = 0
      <4>1. record = [named EXCEPT !.status = 401] /\ 401 \in Statuses
        BY <3>3 DEF Statuses
      <4> QED BY <3>4, <4>1 DEF RequestRecords, Statuses
    <3>6. Fits(r, record)
      BY <3>1, <3>5 DEF Fits
    <3> QED BY <3>1, <3>6, RequestStep
  <2> QED BY <2>1, <2>2
<1> QED BY <1>1, <1>2, <1>3, <1>4, <1>5

\* Requests and tools that read the store.
LEMMA HistorySteps ==
  ASSUME LifeInv, NEW r \in Requests,
         \/ GetServiceReleases(r) \/ Timeline(r) \/ TimelineEnd(r) \/ ReleaseHistory(r)
         \/ \E k \in 1..NumServices : TimelineRow(r, k)
  PROVE  LifeInv'
<1>0. /\ req[r] \in RequestRecords
      /\ store \in {"none", "open", "closed"}
      /\ RouteOK
      /\ Orderly /\ (\E q \in Requests : Open(q)) => store # "closed"
      /\ Orderly /\ req[r].pc = "handle" => req[r].rows = req[r].asked
      /\ NumServices \in Nat
  BY ServerAssumption, ClosedMeansDrained DEF LifeInv, TypeOK, NoHoles, RequestRecords
<1>1. /\ HistoryStatus \in {200, 500, 503}
      /\ HistoryStatus = 500 => store = "closed"
  BY <1>0 DEF HistoryStatus
<1>2. CASE GetServiceReleases(r)
  <2> DEFINE record == Moved(req[r], "answered", HistoryStatus)
  <2>1. RequestGoes(r, "handle", record) /\ Open(r) /\ req[r].route = "releases"
    BY <1>2 DEF Moved, GetServiceReleases, Answers, RequestGoes, Open
  <2> HIDE DEF HistoryStatus
  <2>2. /\ record \in RequestRecords /\ record.pc = "answered" /\ record.status = HistoryStatus
        /\ record.route = req[r].route /\ record.asked = req[r].asked /\ record.rows = req[r].rows
    BY <1>0, <1>1, MovedFields DEF PCs, Statuses
  <2> HIDE DEF record
  <2>3. Fits(r, record)
    BY <1>0, <1>1, <2>1, <2>2 DEF Fits, RouteOK
  <2> QED BY <2>1, <2>3, RequestStep
<1>3. CASE Timeline(r)
  <2> DEFINE record == Moved(req[r], "answered", 503)
  <2>1. RequestGoes(r, "handle", record)
    BY <1>3 DEF Moved, Timeline, Answers
  <2>2. /\ record \in RequestRecords /\ record.pc = "answered" /\ record.status = 503
        /\ record.route = req[r].route /\ record.asked = req[r].asked /\ record.rows = req[r].rows
    BY <1>0, MovedFields DEF PCs, Statuses
  <2> HIDE DEF record
  <2>3. Fits(r, record)
    BY <1>0, <2>1, <2>2 DEF Fits, RouteOK
  <2> QED BY <2>1, <2>3, RequestStep
<1>4. CASE TimelineEnd(r)
  <2> DEFINE record == Moved(req[r], "answered", 200)
  <2>1. RequestGoes(r, "handle", record) /\ req[r].pc = "handle" /\ req[r].asked = NumServices
    BY <1>4 DEF Moved, TimelineEnd, Answers, RequestGoes
  <2>2. /\ record \in RequestRecords /\ record.pc = "answered" /\ record.status = 200
        /\ record.route = req[r].route /\ record.asked = req[r].asked /\ record.rows = req[r].rows
    BY <1>0, MovedFields DEF PCs, Statuses
  <2> HIDE DEF record
  <2>3. Fits(r, record)
    BY <1>0, <2>1, <2>2 DEF Fits, RouteOK
  <2> QED BY <2>1, <2>3, RequestStep
<1>5. CASE ReleaseHistory(r)
  <2>0. req[r].pc = "tool" /\ req[r].route = "message"
    BY <1>0, <1>5 DEF ReleaseHistory, RequestGoes, RouteOK
  <2>1. CASE \E q \in Requests : req[q].pc = "stream"
    <3> DEFINE record == Moved(req[r], "answered", HistoryStatus)
    <3>1. RequestGoes(r, "tool", record) /\ \E q \in Requests : Open(q)
      BY <1>5, <2>1 DEF Moved, ReleaseHistory, Open
    <3>2. /\ record \in RequestRecords /\ record.pc = "answered" /\ record.status = HistoryStatus
          /\ record.route = req[r].route /\ record.asked = req[r].asked /\ record.rows = req[r].rows
      BY <1>0, <1>1, MovedFields DEF PCs, Statuses
    <3> HIDE DEF record
    <3>3. Fits(r, record)
      BY <1>0, <1>1, <2>0, <3>1, <3>2 DEF Fits, RouteOK
    <3> QED BY <3>1, <3>3, RequestStep
  <2>2. CASE ~\E q \in Requests : req[q].pc = "stream"
    <3> DEFINE record == [req[r] EXCEPT !.pc = "lost"]
    <3>1. RequestGoes(r, "tool", record)
      BY <1>5, <2>2 DEF ReleaseHistory
    <3>2. Fits(r, record)
      BY <1>0, <3>1 DEF Fits, RequestRecords, RouteOK
    <3> HIDE DEF record
    <3> QED BY <3>1, <3>2, RequestStep
  <2> QED BY <2>1, <2>2
<1>6. ASSUME NEW k \in 1..NumServices, TimelineRow(r, k)
      PROVE  LifeInv'
  <2> DEFINE got    == IF store = "open" THEN req[r].rows + 1 ELSE req[r].rows
             asking == [req[r] EXCEPT !.asked = k]
             record == [req[r] EXCEPT !.asked = k, !.rows = got]
  <2>1. /\ RequestGoes(r, "handle", record) /\ Open(r) /\ req[r].pc = "handle"
        /\ store # "none" /\ req[r].asked = k - 1
    BY <1>6 DEF TimelineRow, ReadRow, RequestGoes, Open
  <2>2. /\ req[r].rows \in Nat /\ req[r].asked \in Nat /\ req[r].rows <= req[r].asked
        /\ k \in 1..NumServices
    BY <1>0 DEF RouteOK, RequestRecords
  <2>3. got \in 0..NumServices /\ got <= k /\ (Orderly => got = k)
    BY <1>0, <2>1, <2>2
  <2>4. /\ asking \in RequestRecords
        /\ asking.pc = "handle" /\ asking.asked = k
    BY <1>0, <2>1, <2>2 DEF RequestRecords
  <2>5. record = [asking EXCEPT !.rows = got]
    OBVIOUS
  <2> HIDE DEF got, asking, record
  <2>6. /\ record \in RequestRecords
        /\ record.pc = "handle" /\ record.asked = k /\ record.rows = got
    BY <2>3, <2>4, <2>5 DEF RequestRecords
  <2>7. Fits(r, record)
    BY <2>1, <2>3, <2>6 DEF Fits
  <2> QED BY <2>1, <2>7, RequestStep
<1> QED BY <1>2, <1>3, <1>4, <1>5, <1>6

-----------------------------------------------------------------------------
\* What a stop of the server does, step by step, keeps the store open under the requests
\* (Server.Shutdown); the invariant behind it.
THEOREM LifeInvariance == Spec => []LifeInv
<1>1. Init => LifeInv
  <2> SUFFICES ASSUME Init PROVE LifeInv
    OBVIOUS
  <2>1. \A r \in Requests : req[r] = Idle
    BY DEF Init
  <2>2. TypeOK
    <3>1. 0 \in 0..NumServices
      BY ServerAssumption
    <3>2. Idle \in RequestRecords
      BY <3>1 DEF Idle, Routes, RequestRecords
    <3>3. req \in [Requests -> RequestRecords]
      BY <3>2 DEF Init
    <3>4. {sse, ctxDone, late} \subseteq BOOLEAN
      BY DEF Init
    <3> QED BY <3>3, <3>4 DEF Init, TypeOK, RequestRecords
  <2>3. RouteOK /\ NoHoles
    BY <2>1 DEF Idle, RouteOK, NoHoles, Harmed
  <2> QED BY <2>2, <2>3 DEF Init, LifeInv, ClosedLast, DrainedOK
<1>2. LifeInv /\ [Next]_vars => LifeInv'
  <2> SUFFICES ASSUME LifeInv, [Next]_vars PROVE LifeInv'
    OBVIOUS
  <2>1. CASE Main \/ Signal \/ Stopper
    BY <2>1, ServerGoes
  <2>2. CASE \E r \in Requests : \/ Handling(r) \/ Leave(r)
                                 \/ \E route \in Routes, bearer, header \in Keys :
                                      Accept(r, route, Presented(bearer, header))
    BY <2>2, ConnectionSteps, HistorySteps DEF Handling
  <2>3. CASE UNCHANGED vars
    BY <2>3 DEF vars, LifeInv, TypeOK, RouteOK, ClosedLast, DrainedOK, NoHoles, Harmed, Orderly,
                TooEarly, Open
  <2> QED BY <2>1, <2>2, <2>3 DEF Next
<1> QED BY <1>1, <1>2, PTL DEF Spec

\* Every state of the server and its requests is one the type invariant describes
\* (server.go, serve.go).
THEOREM ServerTypeCorrect == Spec => []TypeOK
<1>1. LifeInv => TypeOK
  BY DEF LifeInv
<1> QED BY <1>1, LifeInvariance, PTL

\* No client of any number is told that the history cannot be read, nor given a timeline
\* with holes, unless the server was stopped before it was built or past its five
\* seconds (Server.Shutdown closes the store last).
THEOREM StoreIsKeptForRequests == Spec => []StoreOutlivesRequests
<1>1. LifeInv => StoreOutlivesRequests
  BY DEF LifeInv, NoHoles, Orderly, StoreOutlivesRequests
<1> QED BY <1>1, LifeInvariance, PTL
=============================================================================
