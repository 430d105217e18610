--------------------------- MODULE ServerLifecycle ---------------------------
(* `releasewave serve --transport=sse`, from the first line after the signal*)
(* handler to os.Exit: the main goroutine builds the server and listens, a  *)
(* goroutine waits for the signal and runs Server.Shutdown, and requests    *)
(* come in through the API-key check to handlers, two of which and a tool   *)
(* read the store that Shutdown closes.                                     *)
EXTENDS Naturals, FiniteSets

CONSTANTS
  Requests,    \* bound: the HTTP requests of a behaviour
  NumServices, \* services the timeline asks the store about
  Protected    \* cfg.Server.APIKey # ""

ASSUME ServerAssumption ==
  /\ NumServices \in Nat /\ Protected \in BOOLEAN

VARIABLES
  main,     \* "building", "listen", "serving", "returned", "exiting", "exited"
  http,     \* s.httpServer: "unset", "set", "open" (listening), "shut"
  sse,      \* s.sse # nil
  store,    \* s.store: "none" (cfg.Storage.Path is empty), "open", "closed"
  ctxDone,  \* ctx of NotifyContext: a signal came, or RunE has returned
  stopper,  \* the goroutine that shuts down: "waiting", then the part of Shutdown it is at
  late,     \* shutdownCtx is past its five seconds
  req       \* req[r]: a request

vars == <<main, http, sse, store, ctxDone, stopper, late, req>>

Routes == {"health", "metrics", "dashboard", "releases", "timeline", "sse", "message"}
Keys   == {"none", "wrong", "right"}

Idle == [pc |-> "idle", route |-> "health", status |-> 0, asked |-> 0, rows |-> 0]

Init ==
  /\ main = "building" /\ http = "unset" /\ sse = FALSE
  /\ store \in {"none", "open"}
  /\ ctxDone = FALSE /\ stopper = "waiting" /\ late = FALSE
  /\ req = [r \in Requests |-> Idle]

Running == main # "exited"

-----------------------------------------------------------------------------
(* The main goroutine: RunE, StartWithHandlers, main.                       *)

MainGoes(to) == main' = to /\ UNCHANGED <<store, stopper, late>>

\* s.sse = ..., while the handlers are put together.
BuildSSE == /\ main = "building" /\ ~sse
            /\ sse' = TRUE /\ MainGoes("building") /\ UNCHANGED <<http, ctxDone, req>>

\* s.httpServer = ...
BuildHTTP == /\ main = "building" /\ sse
             /\ http' = "set" /\ MainGoes("listen") /\ UNCHANGED <<sse, ctxDone, req>>

\* ListenAndServe: ErrServerClosed at once after a Shutdown; the port may be taken.
Listen ==
  /\ main = "listen" /\ UNCHANGED <<sse, ctxDone, req>>
  /\ \/ http = "set" /\ http' = "open" /\ MainGoes("serving")
     \/ MainGoes("returned") /\ UNCHANGED http

\* ListenAndServe returns as soon as Shutdown begins.
ServeEnds == /\ main = "serving" /\ http = "shut"
             /\ MainGoes("returned") /\ UNCHANGED <<http, sse, ctxDone, req>>

\* RunE returns the error: the deferred stop() cancels ctx.
RunEReturns == /\ main = "returned" /\ ctxDone' = TRUE
               /\ MainGoes("exiting") /\ UNCHANGED <<http, sse, req>>

Open(r) == req[r].pc \in {"handle", "stream"}     \* a connection Shutdown waits for
Unfinished(r) == Open(r) \/ req[r].pc = "tool"

\* os.Exit(1): every error of RunE ends here, ErrServerClosed too.
Exit == /\ main = "exiting" /\ MainGoes("exited")
        /\ req' = [r \in Requests |-> IF Unfinished(r) THEN [req[r] EXCEPT !.pc = "cut"]
                                                       ELSE req[r]]
        /\ UNCHANGED <<http, sse, ctxDone>>

-----------------------------------------------------------------------------
(* The signal, and the goroutine that waits for it.                         *)

\* SIGINT or SIGTERM; a second one finds ctx done and changes nothing.
Signal == /\ Running /\ ~ctxDone /\ ctxDone' = TRUE
          /\ UNCHANGED <<main, http, sse, store, stopper, late, req>>

StopperGoes(from, to) == /\ Running /\ stopper = from /\ stopper' = to
                         /\ UNCHANGED <<main, sse, ctxDone, req>>

Wake == ctxDone /\ StopperGoes("waiting", "http") /\ UNCHANGED <<http, store, late>>

\* Seeded fault: Shutdown stops only the SSE server.
HTTPShutdown_SSEOnly == StopperGoes("http", "sse") /\ UNCHANGED <<http, store, late>>

\* s.httpServer.Shutdown closes the listener and waits; nil is passed over.
HTTPShutdown ==
  /\ UNCHANGED <<store, late>>
  /\ \/ http = "unset" /\ StopperGoes("http", "sse") /\ UNCHANGED http
     \/ http # "unset" /\ StopperGoes("http", "drain") /\ http' = "shut"

\* Seeded fault: Close in the place of Shutdown's wait.
Drained_NoWait == StopperGoes("drain", "sse") /\ UNCHANGED <<http, store, late>>

\* No connection is active any more.
Drained == /\ \A r \in Requests : ~Open(r)
           /\ StopperGoes("drain", "sse") /\ UNCHANGED <<http, store, late>>

\* Five seconds are over.
DrainTimesOut == StopperGoes("drain", "sse") /\ late' = TRUE /\ UNCHANGED <<http, store>>

\* s.sse.Shutdown: the SSE server was never started on its own, so nothing to stop.
SSEShutdown == StopperGoes("sse", "store") /\ UNCHANGED <<http, store, late>>

CloseStore == /\ StopperGoes("store", "done") /\ UNCHANGED <<http, late>>
              /\ store' = IF store = "open" THEN "closed" ELSE store

-----------------------------------------------------------------------------
(* Requests.                                                                *)

RequestGoes(r, from, record) ==
  /\ Running /\ req[r].pc = from /\ req' = [req EXCEPT ![r] = record]
  /\ UNCHANGED <<main, http, sse, store, ctxDone, stopper, late>>

\* APIKeyAuth: the bearer token counts, X-API-Key only where there is none.
Presented(bearer, header) == IF bearer # "none" THEN bearer ELSE header

\* /health and /metrics need no key.
Admitted(route, key) == ~Protected \/ route \in {"health", "metrics"} \/ key = "right"

\* A connection is accepted and its request passes APIKeyAuth, or gets a 401.
Accept(r, route, key) ==
  /\ http = "open"
  /\ RequestGoes(r, "idle",
       IF Admitted(route, key) THEN [Idle EXCEPT !.pc = "handle", !.route = route]
       ELSE [Idle EXCEPT !.pc = "answered", !.route = route, !.status = 401])

Answers(r, from, status) ==
  RequestGoes(r, from, [req[r] EXCEPT !.pc = "answered", !.status = status])

\* Pages that do not read the store; an SSE stream stays open until the client leaves.
Page(r) == req[r].route \in {"health", "metrics", "dashboard"} /\ Answers(r, "handle", 200)
Stream(r) == /\ req[r].route = "sse"
             /\ RequestGoes(r, "handle", [req[r] EXCEPT !.pc = "stream"])
Leave(r) == Answers(r, "stream", 200)

HistoryStatus == CASE store = "none" -> 503 [] store = "open" -> 200 [] store = "closed" -> 500

GetServiceReleases(r) == req[r].route = "releases" /\ Answers(r, "handle", HistoryStatus)

\* getTimeline: the services one after the other; an error of the store is skipped.
\* rows counts the histories that were read.
Timeline(r) == req[r].route = "timeline" /\ store = "none" /\ Answers(r, "handle", 503)
ReadRow(r, k, rows) ==
  /\ req[r].route = "timeline" /\ store # "none" /\ req[r].asked = k - 1
  /\ RequestGoes(r, "handle", [req[r] EXCEPT !.asked = k,
       !.rows = IF store = "open" THEN @ + rows ELSE @])

\* Seeded fault: a history is appended twice.
TimelineRow_Twice(r, k) == ReadRow(r, k, 2)

TimelineRow(r, k) == ReadRow(r, k, 1)

TimelineEnd(r) == /\ req[r].route = "timeline" /\ store # "none" /\ req[r].asked = NumServices
                  /\ Answers(r, "handle", 200)

\* The SSE server accepts a message and runs the tool in a goroutine that no
\* connection waits for; the reply goes over an open stream, or nowhere.
Message(r) == /\ req[r].route = "message"
              /\ RequestGoes(r, "handle", [req[r] EXCEPT !.pc = "tool", !.status = 202])
ReleaseHistory(r) ==
  RequestGoes(r, "tool",
    IF \E q \in Requests : req[q].pc = "stream"
    THEN [req[r] EXCEPT !.pc = "answered", !.status = HistoryStatus]
    ELSE [req[r] EXCEPT !.pc = "lost"])

Handling(r) == \/ Page(r) \/ Stream(r) \/ GetServiceReleases(r) \/ Timeline(r)
               \/ (\E k \in 1..NumServices : TimelineRow(r, k)) \/ TimelineEnd(r)
               \/ Message(r) \/ ReleaseHistory(r)

-----------------------------------------------------------------------------
Main == BuildSSE \/ BuildHTTP \/ Listen \/ ServeEnds \/ RunEReturns \/ Exit
Stopper == Wake \/ HTTPShutdown \/ Drained \/ DrainTimesOut \/ SSEShutdown \/ CloseStore

Next == \/ Main \/ Signal \/ Stopper
        \/ \E r \in Requests : \/ Handling(r) \/ Leave(r)
                               \/ \E route \in Routes, bearer, header \in Keys :
                                    Accept(r, route, Presented(bearer, header))

Spec == Init /\ [][Next]_vars

\* Both goroutines run, and five seconds pass.  Nobody has to come, leave or signal.
FairSpec == Spec /\ WF_vars(Main) /\ WF_vars(Stopper) /\ \A r \in Requests : WF_vars(Handling(r))

-----------------------------------------------------------------------------
TypeOK ==
  /\ main \in {"building", "listen", "serving", "returned", "exiting", "exited"}
  /\ http \in {"unset", "set", "open", "shut"}
  /\ store \in {"none", "open", "closed"}
  /\ {sse, ctxDone, late} \subseteq BOOLEAN
  /\ stopper \in {"waiting", "http", "drain", "sse", "store", "done"}
  /\ req \in [Requests -> [pc : {"idle", "handle", "stream", "tool", "answered", "lost", "cut"},
                            route : Routes, status : {0, 200, 202, 401, 500, 503},
                            asked : 0..NumServices, rows : 0..NumServices]]

\* A client told that the history cannot be read, or given a timeline with holes.
Harmed(r) == /\ req[r].pc = "answered"
             /\ \/ req[r].status = 500
                \/ req[r].route = "timeline" /\ req[r].status = 200 /\ req[r].rows < NumServices

\* The signal came before s.httpServer was set: Shutdown passes the HTTP server over, and
\* the server that is then started lives on without a store.
TooEarly == stopper \in {"sse", "store", "done"} /\ http # "shut"

\* Shutdown closes the store under no request: unless the signal came before the server
\* was built or the five seconds ran out, every history that a client is given was read
\* from an open store, also by tools that no connection waits for (Server.Shutdown:
\* HTTP first, the store last).
StoreOutlivesRequests == (\E r \in Requests : Harmed(r)) => late \/ TooEarly

\* A signal that finds the server serving ends the process, whatever streams are open
\* (the five seconds of shutdownCtx; ListenAndServe returns on Shutdown).
SignalEndsProcess ==
  ctxDone /\ main = "serving" /\ stopper = "waiting" ~> main = "exited"

\* "Shutdown gracefully stops the HTTP and SSE servers" (server.go:392), and the signal
\* handling is such "that deferred cleanup runs" (docs/adr): a process that ends after
\* serving has at least done one of the two, waited for the requests at work or closed
\* the store.
GracefulExit ==
  main = "exited" /\ http = "shut" /\ ~late =>
    store # "open" \/ \A r \in Requests : req[r].pc # "cut"
=============================================================================
