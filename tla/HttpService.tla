------------------------------ MODULE HttpService ------------------------------
(***************************************************************************)
(* yellowbox.extras.http_server: a standard library HTTPServer in a thread *)
(* of its own, whose routes test threads patch in and out.                 *)
(*                                                                         *)
(* The server takes one connection at a time, so its progress is that of   *)
(* the current request.  Test threads change the routes between any two    *)
(* steps of it; start() and stop() hold the thread that calls them, and    *)
(* may be called by two.  A connection is accepted by the kernel as soon   *)
(* as the service is constructed, and waits in the backlog.                *)
(***************************************************************************)
EXTENDS Retry, Sequences, FiniteSets

CONSTANTS
  Clients,       \* the requests clients send, one connection each
  Probe,         \* the GET /health of start(), sent again by each attempt
  UserHandlers,  \* the RoutedHandlers of the contexts of the test
  Health,        \* the RoutedHandler of start() for GET /health
  Serves,        \* Serves[r]: the handlers whose method and route match request r
  Outcomes       \* Outcomes[h]: how the side effect of h may end: see Effects

Requests == Clients \cup {Probe}
Handlers == UserHandlers \cup {Health}
\* route_match, and the method whose set the handler is in.
RouteMatch(h, r) == h \in Serves[r]
\* An int; str or bytes; the handler itself; any other value, or a str that is not
\* ascii; an exception.
Effects == {"code", "text", "handled", "unsendable", "raises"}

ASSUME HttpAssumption ==
  /\ Probe \notin Clients /\ Health \notin UserHandlers
  /\ Serves \in [Requests -> SUBSET Handlers] /\ Health \in Serves[Probe]
  /\ Outcomes \in [Handlers -> SUBSET Effects] /\ Outcomes[Health] = {"code"}
  /\ \A h \in Handlers : Outcomes[h] # {}
  /\ Handlers \cap {"notfound", "ambiguous"} = {} /\ None \notin Handlers
  /\ None \notin Requests \cup {"notfound", "ambiguous"}

VARIABLES
  (* the service and its test threads *)
  routes,      \* routes_by_method, of all methods
  starting,    \* start(): "no", "launch", "probe" or "leave"
  stopping,    \* stop(): a thread waits for the server to shut down
  (* the server thread *)
  serve,       \* "unstarted", "polling", "handling" or "exited"
  shutdown,    \* __shutdown_request
  backlog,     \* the connections not yet accepted
  current,     \* the request in service
  candidates,  \* the copy of the routes it is matched against
  untested,    \* the candidates still to be matched
  matched,     \* matched_candidates
  (* the requests *)
  rstep,       \* "new", "queued", "reading", "lookup", "matching", "calling" or "done"
  routed,      \* what _do made of it: "notfound", "ambiguous" or the handler
  status       \* what the client got

testVars == <<routes, starting, stopping>>
matchVars == <<candidates, untested, matched>>
serverVars == <<serve, shutdown, backlog, current, matchVars>>
requestVars == <<rstep, routed, status>>
vars == <<testVars, serverVars, requestVars, retryVars>>

Init ==
  /\ routes = {} /\ starting = "no" /\ stopping = FALSE
  /\ serve = "unstarted" /\ shutdown = FALSE /\ backlog = <<>> /\ current = None
  /\ candidates = {} /\ untested = {} /\ matched = {}
  /\ rstep = [r \in Requests |-> "new"]
  /\ routed = [r \in Requests |-> None]
  /\ status = [r \in Requests |-> "none"]
  /\ RetryInit

--------------------------------------------------------------------------------
(* Test threads and clients. *)

\* Entry to patch_route: a RoutedHandler of its own, added under the lock.
Patch(h) ==
  /\ h \notin routes
  /\ routes' = routes \cup {h}
  /\ UNCHANGED <<starting, stopping, serverVars, requestVars, retryVars>>

\* ... and its exit.
Unpatch(h) ==
  /\ h \in routes
  /\ routes' = routes \ {h}
  /\ UNCHANGED <<starting, stopping, serverVars, requestVars, retryVars>>

Enqueue(r) ==
  /\ rstep[r] = "new"
  /\ backlog' = Append(backlog, r)
  /\ rstep' = [rstep EXCEPT ![r] = "queued"]
  /\ UNCHANGED <<serve, shutdown, current, matchVars, routed, status>>

Connect(r) == Enqueue(r) /\ UNCHANGED <<testVars, retryVars>>

--------------------------------------------------------------------------------
(* start(): within a patch of GET /health. *)

CallStart ==
  /\ starting = "no"
  /\ routes' = routes \cup {Health}
  /\ starting' = "launch"
  /\ UNCHANGED <<stopping, serverVars, requestVars, retryVars>>

\* (a defective variant: the patch ends with the start of the thread)
LaunchUnpatched ==
  /\ starting = "launch" /\ serve = "unstarted"
  /\ serve' = "polling" /\ starting' = "probe"
  /\ routes' = routes \ {Health}
  /\ BeginRetry
  /\ UNCHANGED <<stopping, shutdown, backlog, current, matchVars, requestVars>>

\* (a defective variant: a shutdown asked for before the start is forgotten)
LaunchForgetsStop ==
  /\ starting = "launch"
  /\ IF serve = "unstarted"
     THEN serve' = "polling" /\ shutdown' = FALSE /\ starting' = "probe" /\ BeginRetry
     ELSE starting' = "leave" /\ UNCHANGED <<serve, shutdown, retryVars>>
  /\ UNCHANGED <<routes, stopping, backlog, current, matchVars, requestVars>>

\* A thread that runs or has run cannot be started: the RuntimeError ends the patch.
Launch ==
  /\ starting = "launch"
  /\ IF serve = "unstarted"
     THEN serve' = "polling" /\ starting' = "probe" /\ BeginRetry
     ELSE starting' = "leave" /\ UNCHANGED <<serve, retryVars>>
  /\ UNCHANGED <<routes, stopping, shutdown, backlog, current, matchVars, requestVars>>

SendProbe ==
  /\ starting = "probe" /\ retrying = "attempt"
  /\ Enqueue(Probe)
  /\ UNCHANGED <<testVars, retryVars>>

\* requests.get returns; an answer that is not the 200 of /health is an HTTPError.
TakeProbe ==
  /\ starting = "probe" /\ retrying = "attempt" /\ rstep[Probe] = "done"
  /\ IF routed[Probe] = Health THEN TrySucceeds ELSE TryFails
  /\ rstep' = [rstep EXCEPT ![Probe] = "new"]
  /\ routed' = [routed EXCEPT ![Probe] = None]
  /\ status' = [status EXCEPT ![Probe] = "none"]
  /\ UNCHANGED <<testVars, serverVars>>

SleepOn == starting = "probe" /\ Sleep /\ UNCHANGED <<testVars, serverVars, requestVars>>

\* The exit of the patch, by the return of retry or by what it raises.
LeaveStart ==
  /\ starting = "leave" \/ (starting = "probe" /\ retrying \in {"returned", "raised"})
  /\ routes' = routes \ {Health}
  /\ starting' = "no"
  /\ EndRetry
  /\ UNCHANGED <<stopping, serverVars, requestVars>>

StepStart == Launch \/ SendProbe \/ TakeProbe \/ SleepOn \/ LeaveStart

--------------------------------------------------------------------------------
(* stop(). *)

\* server.shutdown(), up to its wait.
CallStop ==
  /\ ~stopping
  /\ stopping' = TRUE /\ shutdown' = TRUE
  /\ UNCHANGED <<routes, starting, serve, backlog, current, matchVars, requestVars, retryVars>>

\* The event it waits for is set by serve_forever only, as it ends; the join follows.
StopDone ==
  /\ stopping /\ serve = "exited"
  /\ stopping' = FALSE
  /\ UNCHANGED <<routes, starting, serverVars, requestVars, retryVars>>

--------------------------------------------------------------------------------
(* The server thread. *)

Advance(r, step) == rstep' = [rstep EXCEPT ![r] = step]
\* The connection is closed, and the thread is back in its loop.
Close(r, got) ==
  /\ Advance(r, "done")
  /\ status' = [status EXCEPT ![r] = got]
  /\ serve' = "polling" /\ current' = None

\* serve_forever looks at the request to shut down once more after its select.
ServeEnds ==
  /\ serve = "polling" /\ shutdown
  /\ serve' = "exited" /\ shutdown' = FALSE
  /\ UNCHANGED <<testVars, backlog, current, matchVars, requestVars, retryVars>>

Accept ==
  /\ serve = "polling" /\ ~shutdown /\ backlog # <<>>
  /\ serve' = "handling" /\ current' = Head(backlog) /\ backlog' = Tail(backlog)
  /\ Advance(Head(backlog), "reading")
  /\ UNCHANGED <<testVars, shutdown, matchVars, routed, status, retryVars>>

\* The request comes in ...
ReadRequest(r) ==
  /\ current = r /\ rstep[r] = "reading"
  /\ Advance(r, "lookup")
  /\ UNCHANGED <<testVars, serverVars, routed, status, retryVars>>

\* ... or its client hangs up before; that of start() waits without a timeout.
HangUp(r) ==
  /\ r \in Clients /\ current = r /\ rstep[r] = "reading"
  /\ Close(r, "none")
  /\ UNCHANGED <<testVars, shutdown, backlog, matchVars, routed, retryVars>>

\* _do: tuple(...) copies the set of the method in one go.
Copy(r) ==
  /\ current = r /\ rstep[r] = "lookup"
  /\ candidates' = routes /\ untested' = routes /\ matched' = {}
  /\ Advance(r, "matching")
  /\ UNCHANGED <<testVars, serve, shutdown, backlog, current, routed, status, retryVars>>

\* (a defective variant: a candidate is matched only while it is still routed)
MatchNextRouted(r) ==
  /\ current = r /\ rstep[r] = "matching"
  /\ \E h \in untested :
       /\ untested' = untested \ {h}
       /\ matched' = IF RouteMatch(h, r) /\ h \in routes THEN matched \cup {h} ELSE matched
  /\ UNCHANGED <<testVars, serve, shutdown, backlog, current, candidates, requestVars, retryVars>>

\* route_match of one candidate after the other, in an order nothing fixes.
MatchNext(r) ==
  /\ current = r /\ rstep[r] = "matching"
  /\ \E h \in untested :
       /\ untested' = untested \ {h}
       /\ matched' = IF RouteMatch(h, r) THEN matched \cup {h} ELSE matched
  /\ UNCHANGED <<testVars, serve, shutdown, backlog, current, candidates, requestVars, retryVars>>

\* The error is sent, or the one match called.
Dispatch(r) ==
  /\ current = r /\ rstep[r] = "matching" /\ untested = {}
  /\ \/ /\ matched = {}
        /\ routed' = [routed EXCEPT ![r] = "notfound"]
        /\ Close(r, "error")
     \/ /\ \E g, h \in matched : g # h
        /\ routed' = [routed EXCEPT ![r] = "ambiguous"]
        /\ Close(r, "error")
     \/ \E h \in matched :
          /\ matched = {h}
          /\ routed' = [routed EXCEPT ![r] = h]
          /\ Advance(r, "calling")
          /\ UNCHANGED <<status, serve, current>>
  /\ candidates' = {} /\ matched' = {}
  /\ UNCHANGED <<testVars, shutdown, backlog, untested, retryVars>>

\* What the client gets: the status line is sent before the value is looked at, so one
\* that cannot be sent leaves an empty 200, and an exception of the side effect nothing.
Got(effect) ==
  CASE effect = "unsendable" -> "empty"
    [] effect = "raises"     -> "none"
    [] OTHER                 -> effect

\* (a defective variant: an exception of a side effect ends serve_forever)
SideEffectEndsThread(r) ==
  /\ current = r /\ rstep[r] = "calling"
  /\ \E effect \in Outcomes[routed[r]] :
       IF effect = "raises"
       THEN /\ Advance(r, "done") /\ serve' = "exited" /\ current' = None
            /\ UNCHANGED status
       ELSE Close(r, Got(effect))
  /\ UNCHANGED <<testVars, shutdown, backlog, matchVars, routed, retryVars>>

\* The callback: the side effect ends, and what it returned is sent.  Whatever it raises,
\* the server reports it and goes on.
SideEffectEnds(r) ==
  /\ current = r /\ rstep[r] = "calling"
  /\ \E effect \in Outcomes[routed[r]] : Close(r, Got(effect))
  /\ UNCHANGED <<testVars, shutdown, backlog, matchVars, routed, retryVars>>

StepServer ==
  \/ ServeEnds \/ Accept
  \/ \E r \in Requests : Copy(r) \/ MatchNext(r) \/ Dispatch(r)
\* What takes a client, or the side effect of a test, to happen.
Completes(r) == ReadRequest(r) \/ HangUp(r) \/ SideEffectEnds(r)

Next ==
  \/ \E h \in UserHandlers : Patch(h) \/ Unpatch(h)
  \/ \E r \in Clients : Connect(r)
  \/ CallStart \/ StepStart \/ CallStop \/ StopDone
  \/ StepServer \/ \E r \in Requests : Completes(r)

Spec == Init /\ [][Next]_vars

\* CPython schedules the server thread and the threads in start() and stop().
FairSpec == Spec /\ WF_vars(StepServer) /\ WF_vars(StepStart) /\ WF_vars(StopDone)

\* What a test may hope for besides: clients send what they connected for, and side
\* effects end.  No timeout stands in for either.
Completion == \A r \in Requests : WF_vars(Completes(r))

--------------------------------------------------------------------------------
(***************************************************************************)
(* Properties                                                              *)
(***************************************************************************)

\* The server implements a RouteTable: although it matches its candidates one by one
\* while contexts are entered and left, each request is answered by the routes of one
\* moment, never by a mixture of the routes before and after a change.
Table == INSTANCE RouteTable WITH
  decided <- [r \in Requests |-> IF rstep[r] = "matching" THEN {candidates \cap Serves[r]} ELSE {}]
AnsweredByTable == Table!Spec

\* The probe of start() finds its own route whatever the test patches meanwhile: start()
\* gives up only because a route of the test answers /health as well.
ProbeFindsHealth == rstep[Probe] = "done" => routed[Probe] \in {Health, "ambiguous"}

\* start() ends, however often its probe fails, unless the server is stopped meanwhile;
\* given that the clients before the probe in the backlog send their requests.
StartEnds ==
  Completion => (starting # "no" /\ serve # "exited" ~> starting = "no" \/ stopping)

\* stop() of a service that was started returns once the request in service is through.
StopReturns == Completion => (stopping /\ serve # "unstarted" ~> ~stopping)

\* A connection is served in the end, behind side effects that raise and clients that
\* hang up, unless a test stops the server: what is in the backlog then is never answered.
RequestsAnswered ==
  Completion => \A r \in Clients :
    rstep[r] = "queued" /\ serve \in {"polling", "handling"} ~> rstep[r] = "done" \/ stopping
================================================================================
