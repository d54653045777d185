------------------------------ MODULE WebServer ------------------------------
(***************************************************************************)
(* yellowbox.extras.webserver: a starlette application served by a uvicorn *)
(* thread while test threads add, remove, patch and capture its endpoints. *)
(*                                                                         *)
(* Two kinds of actors share the state.  A test thread runs one method     *)
(* call at a time; the call is a record in call[t] whose field "step" is   *)
(* the next piece of the method to run.  The serve thread runs one asyncio *)
(* task per request; "loop" is the task that holds the event loop, None    *)
(* while every task is suspended in an await.  A test thread may run       *)
(* between any two steps of a task, another task only when loop = None.    *)
(*                                                                         *)
(* The endpoints of the test are MockHTTPEndpoints and MockWSEndpoints:    *)
(* add, remove, patch and capture_calls make the same steps for both, on   *)
(* one list of routes.  The tasks are those of HTTP requests, which no     *)
(* websocket endpoint serves; module Websocket has the connections.        *)
(***************************************************************************)
EXTENDS Naturals, Sequences, FiniteSets, SequencesExt

CONSTANTS
  Threads,         \* the threads of the test program
  Requests,        \* HTTP requests; each arrives at most once
  UserEndpoints,   \* MockHTTPEndpoint and MockWSEndpoint objects the test builds itself
  ClassEndpoints,  \* endpoints declared in the body of a WebServer subclass
  Ping,            \* the endpoint start() adds at /__yellowbox/ping
  AutoRead,        \* the endpoints built with auto_read_body=True, and all of websockets
  Captures,        \* the RecordedHTTPRequests lists capture_calls can make
  SideEffects,     \* side effects: static Responses and async callables
  StaticEffects,   \* those that are a starlette Response
  Patches,         \* the side effects the test patches in
  InitialEffect,   \* the side effect each endpoint is built with
  Serves,          \* Serves[r]: the endpoints whose route matches request r
  MaxDepth,        \* bound on the contexts a thread has open at once
  None

Endpoints == UserEndpoints \cup ClassEndpoints \cup {Ping}

ASSUME ConstantsAssumption ==
  /\ Ping \notin UserEndpoints \cup ClassEndpoints
  /\ UserEndpoints \cap ClassEndpoints = {}
  /\ AutoRead \subseteq Endpoints
  /\ StaticEffects \subseteq SideEffects
  /\ Patches \subseteq SideEffects
  /\ InitialEffect \in [Endpoints -> SideEffects]
  /\ Serves \in [Requests -> SUBSET Endpoints]
  /\ MaxDepth \in Nat
  /\ None \notin Endpoints \cup Requests \cup Captures \cup SideEffects

VARIABLES
  (* WebServer *)
  routes,      \* _app.router.routes, which the router scans without the lock
  pending,     \* pending_exception, named by the request whose handler raised
  serve,       \* the serve thread: "unstarted", "running" or "exited"
  shouldExit,  \* _server.should_exit
  (* MockHTTPEndpoint *)
  owner,       \* owner[e]: e.owner is this server (otherwise it is None)
  effect,      \* side_effect
  captures,    \* _request_captures
  recorded,    \* the requests in each RecordedHTTPRequests list
  (* the test threads *)
  call,        \* the method call in progress
  caught,      \* the exception raise_from_pending has read but not yet cleared
  contexts,    \* the context managers the thread is inside of
  (* the event loop *)
  loop, rstep,
  scanAt,      \* the index the router's iterator is at; 1 outside the scan
  target,      \* the endpoint whose get() the request was routed to
  status,      \* how the request was answered
  (* history: what the properties are about, read by no action *)
  reported,    \* the requests whose error a test thread has been given
  overlap,     \* overlap[r]: the requests that were in flight together with r
  arrived,     \* the requests in the order they arrived
  openedOn,    \* openedOn[c]: the endpoint capture c was opened on
  openAt,      \* openAt[r]: the captures that were open when r arrived
  steady,      \* steady[r]: the endpoints routed since r arrived, while the scan finds none
  shifted      \* the requests during whose scan, fruitless so far, a route was popped

serverVars == <<routes, pending, serve, shouldExit>>
endpointVars == <<owner, effect, captures, recorded>>
threadVars == <<call, caught, contexts>>
loopVars == <<loop, rstep, scanAt, target, status>>
historyVars == <<reported, overlap, arrived, openedOn, openAt, steady, shifted>>
vars == <<serverVars, endpointVars, threadVars, loopVars, historyVars>>

(***************************************************************************)
(* Test threads: calls and their steps                                     *)
(***************************************************************************)
AddOps == {"add", "patchRoute", "pingAdd", "classAdd"}
RemoveOps == {"remove", "exitRoute", "pingRemove", "pingAbort"}
\* Methods of an endpoint: they reach raise_from_pending through self.owner.
EndpointOps == {"patchEffect", "exitEffect", "capture", "exitCapture"}

Call(op, e, arg, step) == [op |-> op, ep |-> e, arg |-> arg, step |-> step]
Idle == Call("idle", None, None, "none")
Context(kind, e, arg) == [kind |-> kind, ep |-> e, arg |-> arg]

IsOpen(c) == \E e \in Endpoints : c \in Range(captures[e])
InFlight == {r \in Requests : rstep[r] \notin {"new", "done"}}

Init ==
  /\ routes = <<>>
  /\ pending = None
  /\ serve = "unstarted"
  /\ shouldExit = FALSE
  /\ owner = [e \in Endpoints |-> FALSE]
  /\ effect = InitialEffect
  /\ captures = [e \in Endpoints |-> <<>>]
  /\ recorded = [c \in Captures |-> <<>>]
  /\ call = [t \in Threads |-> Idle]
  /\ caught = [t \in Threads |-> None]
  /\ contexts = [t \in Threads |-> <<>>]
  /\ loop = None
  /\ rstep = [r \in Requests |-> "new"]
  /\ scanAt = [r \in Requests |-> 1]
  /\ target = [r \in Requests |-> None]
  /\ status = [r \in Requests |-> "none"]
  /\ reported = {}
  /\ overlap = [r \in Requests |-> {}]
  /\ arrived = <<>>
  /\ openedOn = [c \in Captures |-> None]
  /\ openAt = [r \in Requests |-> {}]
  /\ steady = [r \in Requests |-> {}]
  /\ shifted = {}

Goto(t, step) == call' = [call EXCEPT ![t].step = step]
Raise(t) == call' = [call EXCEPT ![t] = Idle]
Begin(t, c) == call[t] = Idle /\ call' = [call EXCEPT ![t] = c]
Enter(t, context) == contexts' = [contexts EXCEPT ![t] = Append(@, context)]

\* The class endpoints start() still has to add; the last call to add one ends it.
NextClassEndpoint(done) ==
  LET left == {e \in ClassEndpoints : ~owner[e]} \ {done}
  IN IF left = {} THEN Idle ELSE Call("classAdd", CHOOSE e \in left : TRUE, None, "check")

\* What the thread runs once the call on its endpoint is through.
After(t) ==
  CASE call[t].op = "pingAdd"    -> Call("ping", Ping, None, "ping")
    [] call[t].op = "pingRemove" -> NextClassEndpoint(None)
    [] call[t].op = "classAdd"   -> NextClassEndpoint(call[t].ep)
    [] OTHER                     -> Idle
Return(t) == call' = [call EXCEPT ![t] = After(t)]

--------------------------------------------------------------------------------
(* The calls a test makes. *)

\* add_http_endpoint or add_ws_endpoint, or entry to patch_http_endpoint or patch_ws_endpoint
CallAdd(t, e, op) ==
  /\ op = "patchRoute" => Len(contexts[t]) < MaxDepth
  /\ Begin(t, Call(op, e, None, "check"))
  /\ UNCHANGED <<serverVars, endpointVars, caught, contexts, loopVars, historyVars>>

CallRemove(t, e) ==
  /\ Begin(t, Call("remove", e, None, "check"))
  /\ UNCHANGED <<serverVars, endpointVars, caught, contexts, loopVars, historyVars>>

CallPatch(t, e, x) ==
  /\ Len(contexts[t]) < MaxDepth
  /\ Begin(t, Call("patchEffect", e, x, "check"))
  /\ UNCHANGED <<serverVars, endpointVars, caught, contexts, loopVars, historyVars>>

\* A capture list is new: no call holds it and none was opened with it.
CallCapture(t, e, c) ==
  /\ Len(contexts[t]) < MaxDepth
  /\ openedOn[c] = None
  /\ \A u \in Threads : call[u].arg # c
  /\ Begin(t, Call("capture", e, c, "check"))
  /\ UNCHANGED <<serverVars, endpointVars, caught, contexts, loopVars, historyVars>>

\* __exit__ of the innermost context of the thread.
ExitContext(t) ==
  /\ contexts[t] # <<>>
  /\ LET context == Last(contexts[t])
     IN \/ context.kind = "route" /\ Begin(t, Call("exitRoute", context.ep, None, "check"))
        \/ context.kind = "effect" /\ Begin(t, Call("exitEffect", context.ep, context.arg, "restore"))
        \/ context.kind = "capture" /\ Begin(t, Call("exitCapture", context.ep, context.arg, "close"))
  /\ contexts' = [contexts EXCEPT ![t] = Front(@)]
  /\ UNCHANGED <<serverVars, endpointVars, caught, loopVars, historyVars>>

CallIsAlive(t) ==
  /\ Begin(t, Call("isAlive", None, None, "check"))
  /\ UNCHANGED <<serverVars, endpointVars, caught, contexts, loopVars, historyVars>>

\* start(): a thread that is running or has run raises RuntimeError and changes nothing.
\* A uvicorn that was told to exit before it ran binds its port and ends.
CallStart(t) ==
  /\ serve = "unstarted"
  /\ Begin(t, Call("pingAdd", Ping, None, "check"))
  /\ serve' = IF shouldExit THEN "exited" ELSE "running"
  /\ UNCHANGED <<routes, pending, shouldExit, endpointVars, caught, contexts, loopVars, historyVars>>

\* stop(): joining a thread that was never started raises, with should_exit already set.
CallStop(t) ==
  /\ shouldExit' = TRUE
  /\ IF serve = "unstarted"
     THEN call[t] = Idle /\ UNCHANGED call
     ELSE Begin(t, Call("stop", None, None, "join"))
  /\ UNCHANGED <<routes, pending, serve, endpointVars, caught, contexts, loopVars, historyVars>>

--------------------------------------------------------------------------------
(* The steps of a call. *)

At(t, step) == call[t].step = step

AfterCheck(op) ==
  CASE op \in AddOps \cup RemoveOps -> "test"
    [] op = "patchEffect"           -> "install"
    [] op = "capture"               -> "open"

\* raise_from_pending: the test of pending_exception ...
CheckPending(t) ==
  /\ At(t, "check")
  /\ IF call[t].op \in EndpointOps /\ ~owner[call[t].ep]
     THEN Raise(t) /\ UNCHANGED caught             \* None has no raise_from_pending
     ELSE IF pending # None
     THEN Goto(t, "clear") /\ caught' = [caught EXCEPT ![t] = pending]
     ELSE /\ IF call[t].op \in AddOps \cup RemoveOps \cup {"patchEffect", "capture"}
             THEN Goto(t, AfterCheck(call[t].op))
             ELSE Return(t)
          /\ UNCHANGED caught
  /\ UNCHANGED <<serverVars, endpointVars, contexts, loopVars, historyVars>>

\* (a defective variant: the error is raised and stays pending)
ClearPendingForgotten(t) ==
  /\ At(t, "clear")
  /\ reported' = reported \cup {caught[t]}
  /\ caught' = [caught EXCEPT ![t] = None]
  /\ Raise(t)
  /\ UNCHANGED <<serverVars, endpointVars, contexts, loopVars,
                 overlap, arrived, openedOn, openAt, steady, shifted>>

\* ... and, later, the assignment that clears it and the raise.
ClearPending(t) ==
  /\ At(t, "clear")
  /\ pending' = None
  /\ reported' = reported \cup {caught[t]}
  /\ caught' = [caught EXCEPT ![t] = None]
  /\ Raise(t)
  /\ UNCHANGED <<routes, serve, shouldExit, endpointVars, contexts, loopVars,
                 overlap, arrived, openedOn, openAt, steady, shifted>>

\* The test of endpoint.owner, made before the route lock is taken.
TestOwner(t) ==
  /\ At(t, "test")
  /\ IF call[t].op \in AddOps
     THEN IF owner[call[t].ep] THEN Raise(t) ELSE Goto(t, "append")
     ELSE IF owner[call[t].ep] THEN Goto(t, "pop") ELSE Raise(t)
  /\ UNCHANGED <<serverVars, endpointVars, caught, contexts, loopVars, historyVars>>

AppendRoute(t) ==
  /\ At(t, "append")
  /\ routes' = Append(routes, call[t].ep)
  /\ Goto(t, "own")
  /\ UNCHANGED <<pending, serve, shouldExit, endpointVars, caught, contexts, loopVars, historyVars>>

SetOwner(t) ==
  /\ At(t, "own")
  /\ owner' = [owner EXCEPT ![call[t].ep] = TRUE]
  /\ Return(t)
  /\ IF call[t].op = "patchRoute"
     THEN Enter(t, Context("route", call[t].ep, None))
     ELSE UNCHANGED contexts
  /\ UNCHANGED <<serverVars, effect, captures, recorded, caught, loopVars, historyVars>>

FirstIndex(e) == CHOOSE i \in DOMAIN routes : routes[i] = e /\ \A j \in 1..(i-1) : routes[j] # e

\* (a defective variant: the owner is not reset)
PopRouteKeepingOwner(t) ==
  /\ At(t, "pop")
  /\ IF call[t].ep \in Range(routes)
     THEN routes' = RemoveAt(routes, FirstIndex(call[t].ep)) /\ Return(t)
     ELSE Raise(t) /\ UNCHANGED routes
  /\ UNCHANGED <<pending, serve, shouldExit, endpointVars, caught, contexts, loopVars, historyVars>>

\* The critical section of remove_http_endpoint.  Test threads change routes only
\* under the lock, so it is one step for them; for the router, which takes no lock,
\* the one visible change is the pop.
PopRoute(t) ==
  /\ At(t, "pop")
  /\ LET e == call[t].ep
         scanning == {r \in Requests : rstep[r] = "scan"}
     IN IF e \in Range(routes)
        THEN /\ routes' = RemoveAt(routes, FirstIndex(e))
             /\ owner' = [owner EXCEPT ![e] = FALSE]
             /\ Return(t)
             /\ steady' = [r \in Requests |-> IF r \in scanning THEN steady[r] \ {e} ELSE steady[r]]
             /\ shifted' = shifted \cup scanning
        ELSE Raise(t) /\ UNCHANGED <<routes, owner, steady, shifted>>
  /\ UNCHANGED <<pending, serve, shouldExit, effect, captures, recorded, caught, contexts,
                 loopVars, reported, overlap, arrived, openedOn, openAt>>

\* patch(): saves the side effect and replaces it.
InstallEffect(t) ==
  /\ At(t, "install")
  /\ Enter(t, Context("effect", call[t].ep, effect[call[t].ep]))
  /\ effect' = [effect EXCEPT ![call[t].ep] = call[t].arg]
  /\ Return(t)
  /\ UNCHANGED <<serverVars, owner, captures, recorded, caught, loopVars, historyVars>>

\* (a defective variant: a pending error is raised before the side effect is put back)
RestoreEffectAfterCheck(t) ==
  /\ At(t, "restore")
  /\ effect' = IF pending # None THEN effect ELSE [effect EXCEPT ![call[t].ep] = call[t].arg]
  /\ Goto(t, "check")
  /\ UNCHANGED <<serverVars, owner, captures, recorded, caught, contexts, loopVars, historyVars>>

RestoreEffect(t) ==
  /\ At(t, "restore")
  /\ effect' = [effect EXCEPT ![call[t].ep] = call[t].arg]
  /\ Goto(t, "check")
  /\ UNCHANGED <<serverVars, owner, captures, recorded, caught, contexts, loopVars, historyVars>>

OpenCapture(t) ==
  /\ At(t, "open")
  /\ Return(t)
  /\ IF call[t].ep \in AutoRead
     THEN /\ captures' = [captures EXCEPT ![call[t].ep] = Append(@, call[t].arg)]
          /\ openedOn' = [openedOn EXCEPT ![call[t].arg] = call[t].ep]
          /\ Enter(t, Context("capture", call[t].ep, call[t].arg))
     ELSE UNCHANGED <<captures, openedOn, contexts>>    \* RuntimeError
  /\ UNCHANGED <<serverVars, owner, effect, recorded, caught, loopVars,
                 reported, overlap, arrived, openAt, steady, shifted>>

\* Only the capture opened last on the endpoint can be closed; any other exit
\* raises and leaves its list where it is.
CloseCapture(t) ==
  /\ At(t, "close")
  /\ LET open == captures[call[t].ep]
     IN IF open # <<>> /\ Last(open) = call[t].arg
        THEN captures' = [captures EXCEPT ![call[t].ep] = Front(@)] /\ Goto(t, "check")
        ELSE Raise(t) /\ UNCHANGED captures
  /\ UNCHANGED <<serverVars, owner, effect, recorded, caught, contexts, loopVars, historyVars>>

\* start(): a ping got its 200 ...
PingAnswered(t) ==
  /\ At(t, "ping")
  /\ serve = "running"
  /\ pending = None /\ owner[Ping] /\ Ping \in Range(routes)
  /\ call' = [call EXCEPT ![t] = Call("pingRemove", Ping, None, "check")]
  /\ UNCHANGED <<serverVars, endpointVars, caught, contexts, loopVars, historyVars>>

\* ... or none did within 5 seconds, or the thread bound no port within one: start() raises,
\* after leaving patch_http_endpoint.
PingTimesOut(t) ==
  /\ At(t, "ping")
  /\ call' = [call EXCEPT ![t] = Call("pingAbort", Ping, None, "check")]
  /\ UNCHANGED <<serverVars, endpointVars, caught, contexts, loopVars, historyVars>>

\* (defective variants: a join without its timeout; a stop that never looks for an error)
JoinForever(t) ==
  /\ At(t, "join")
  /\ serve = "exited"
  /\ Goto(t, "check")
  /\ UNCHANGED <<serverVars, endpointVars, caught, contexts, loopVars, historyVars>>
JoinWithoutCheck(t) ==
  /\ At(t, "join")
  /\ Return(t)
  /\ UNCHANGED <<serverVars, endpointVars, caught, contexts, loopVars, historyVars>>

\* stop(): join returns when the serve thread has exited or 5 seconds have passed,
\* whichever is first, so nothing is known of serve afterwards.
JoinServeThread(t) ==
  /\ At(t, "join")
  /\ Goto(t, "check")
  /\ UNCHANGED <<serverVars, endpointVars, caught, contexts, loopVars, historyVars>>

StepCall(t) ==
  \/ CheckPending(t) \/ ClearPending(t)
  \/ TestOwner(t) \/ AppendRoute(t) \/ SetOwner(t) \/ PopRoute(t)
  \/ InstallEffect(t) \/ RestoreEffect(t) \/ OpenCapture(t) \/ CloseCapture(t)
  \/ PingAnswered(t) \/ PingTimesOut(t) \/ JoinServeThread(t)

--------------------------------------------------------------------------------
(***************************************************************************)
(* The event loop: one task per request                                    *)
(***************************************************************************)
Move(r, step) == rstep' = [rstep EXCEPT ![r] = step]
\* The task is over: the response is with uvicorn.
Respond(r, outcome) ==
  /\ Move(r, "done")
  /\ status' = [status EXCEPT ![r] = outcome]
  /\ loop' = None

\* uvicorn hands the request to the application, which starts at the first route.  It
\* looks at should_exit ten times a second, so requests still come in after stop().
Arrive(r) ==
  /\ serve = "running"
  /\ rstep[r] = "new" /\ loop = None
  /\ loop' = r
  /\ Move(r, "scan")
  /\ overlap' = [q \in Requests |-> IF q = r THEN InFlight
                                    ELSE IF q \in InFlight THEN overlap[q] \cup {r}
                                    ELSE overlap[q]]
  /\ arrived' = Append(arrived, r)
  /\ steady' = [steady EXCEPT ![r] = Range(routes)]
  /\ openAt' = [openAt EXCEPT ![r] = {c \in Captures : IsOpen(c)}]
  /\ UNCHANGED <<serverVars, endpointVars, threadVars, scanAt, target, status,
                 reported, openedOn, shifted>>

\* (a defective variant: the last route is never tried)
ScanRouteShort(r) ==
  /\ rstep[r] = "scan" /\ loop = r
  /\ \/ /\ scanAt[r] >= Len(routes)
        /\ Respond(r, "notfound")
        /\ UNCHANGED <<scanAt, target>>
     \/ /\ scanAt[r] < Len(routes)
        /\ routes[scanAt[r]] \notin Serves[r]
        /\ scanAt' = [scanAt EXCEPT ![r] = @ + 1]
        /\ UNCHANGED <<loop, rstep, status, target>>
     \/ /\ scanAt[r] < Len(routes)
        /\ routes[scanAt[r]] \in Serves[r]
        /\ target' = [target EXCEPT ![r] = routes[scanAt[r]]]
        /\ Move(r, "guard")
        /\ UNCHANGED <<loop, scanAt, status>>
  /\ UNCHANGED <<serverVars, endpointVars, threadVars, historyVars>>

\* One step of the router's "for route in self.routes": the list iterator is an
\* index into a list that the test threads append to and pop from.
ScanRoute(r) ==
  /\ rstep[r] = "scan" /\ loop = r
  /\ \/ /\ scanAt[r] > Len(routes)
        /\ Respond(r, "notfound")
        /\ scanAt' = [scanAt EXCEPT ![r] = 1]
        /\ UNCHANGED <<target, steady, shifted>>
     \/ /\ scanAt[r] <= Len(routes)
        /\ routes[scanAt[r]] \notin Serves[r]
        /\ scanAt' = [scanAt EXCEPT ![r] = @ + 1]
        /\ UNCHANGED <<loop, rstep, status, target, steady, shifted>>
     \/ /\ scanAt[r] <= Len(routes)
        /\ routes[scanAt[r]] \in Serves[r]
        /\ target' = [target EXCEPT ![r] = routes[scanAt[r]]]
        /\ Move(r, "guard")
        /\ scanAt' = [scanAt EXCEPT ![r] = 1]
        /\ steady' = [steady EXCEPT ![r] = {}]
        /\ shifted' = shifted \ {r}
        /\ UNCHANGED <<loop, status>>
  /\ UNCHANGED <<serverVars, endpointVars, threadVars, reported, overlap, arrived, openedOn, openAt>>

\* (defective variants: no look at the pending error; waiting for it to be raised)
GuardRequestOwnerOnly(r) ==
  /\ rstep[r] = "guard" /\ loop = r
  /\ \/ ~owner[target[r]] /\ Respond(r, "unowned")
     \/ owner[target[r]] /\ Move(r, "read") /\ UNCHANGED <<loop, status>>
  /\ UNCHANGED <<serverVars, endpointVars, threadVars, scanAt, target, historyVars>>
GuardRequestWaiting(r) ==
  /\ rstep[r] = "guard" /\ loop = r
  /\ \/ ~owner[target[r]] /\ Respond(r, "unowned")
     \/ owner[target[r]] /\ pending = None /\ Move(r, "read") /\ UNCHANGED <<loop, status>>
  /\ UNCHANGED <<serverVars, endpointVars, threadVars, scanAt, target, historyVars>>

\* The two tests at the head of get().
GuardRequest(r) ==
  /\ rstep[r] = "guard" /\ loop = r
  /\ \/ ~owner[target[r]] /\ Respond(r, "unowned")
     \/ owner[target[r]] /\ pending # None /\ Respond(r, "refused")
     \/ owner[target[r]] /\ pending = None /\ Move(r, "read") /\ UNCHANGED <<loop, status>>
  /\ UNCHANGED <<serverVars, endpointVars, threadVars, scanAt, target, historyVars>>

\* isinstance(self.side_effect, Response): the first of two reads of side_effect.
ReadSideEffect(r) ==
  /\ rstep[r] = "read" /\ loop = r
  /\ Move(r, IF effect[target[r]] \in StaticEffects THEN "static" ELSE "callable")
  /\ UNCHANGED <<serverVars, endpointVars, threadVars, loop, scanAt, target, status, historyVars>>

\* (a defective variant: the endpoint is stored in place of its error)
HandlerRaisedEndpoint(r) ==
  IF owner[target[r]]
  THEN pending' = target[r] /\ Respond(r, "failed")
  ELSE Respond(r, "dropped") /\ UNCHANGED pending

\* The handler's except clause.  It reads self.owner again, and an endpoint removed
\* meanwhile has none: AttributeError, and the handler's error is stored nowhere.
HandlerRaised(r) ==
  IF owner[target[r]]
  THEN pending' = r /\ Respond(r, "failed")
  ELSE Respond(r, "dropped") /\ UNCHANGED pending

\* ret = self.side_effect: the second read.  A callable patched in since the first
\* is returned as if it were a response, which starlette cannot send ("broken").
UseStaticEffect(r) ==
  /\ rstep[r] = "static" /\ loop = r
  /\ Move(r, "body")
  /\ loop' = None
  /\ status' = IF effect[target[r]] \in StaticEffects THEN status
               ELSE [status EXCEPT ![r] = "broken"]
  /\ UNCHANGED <<serverVars, endpointVars, threadVars, scanAt, target, historyVars>>

\* ret = await self.side_effect(request): a Response patched in since the first
\* read is called with the wrong arguments and raises TypeError.
CallSideEffect(r) ==
  /\ rstep[r] = "callable" /\ loop = r
  /\ IF effect[target[r]] \in StaticEffects
     THEN HandlerRaised(r)
     ELSE Move(r, "running") /\ loop' = None /\ UNCHANGED <<status, pending>>
  /\ UNCHANGED <<routes, serve, shouldExit, endpointVars, threadVars, scanAt, target, historyVars>>

SideEffectReturns(r) ==
  /\ rstep[r] = "running" /\ loop = None
  /\ Move(r, "body")
  /\ UNCHANGED <<serverVars, endpointVars, threadVars, loop, scanAt, target, status, historyVars>>

\* (a defective variant: the request is recorded as in a finally clause)
SideEffectRaisesRecorded(r) ==
  /\ rstep[r] = "running" /\ loop = None
  /\ HandlerRaised(r)
  /\ recorded' = [c \in Captures |-> IF c \in Range(captures[target[r]])
                                     THEN Append(recorded[c], r) ELSE recorded[c]]
  /\ UNCHANGED <<routes, serve, shouldExit, owner, effect, captures, threadVars, scanAt, target,
                 historyVars>>

SideEffectRaises(r) ==
  /\ rstep[r] = "running" /\ loop = None
  /\ HandlerRaised(r)
  /\ UNCHANGED <<routes, serve, shouldExit, endpointVars, threadVars, scanAt, target, historyVars>>

\* await request.body() raises ClientDisconnect outside the try: nothing is recorded.
ClientDisconnects(r) ==
  /\ rstep[r] = "body" /\ loop = None
  /\ target[r] \in AutoRead
  /\ Respond(r, "disconnected")
  /\ UNCHANGED <<serverVars, endpointVars, threadVars, scanAt, target, historyVars>>

\* (defective variants: the innermost capture alone gets the request; newest first)
RecordInnermost(r) ==
  /\ rstep[r] = "body" /\ loop = None
  /\ LET open == captures[target[r]]
     IN recorded' = IF open = <<>> THEN recorded
                    ELSE [recorded EXCEPT ![Last(open)] = Append(@, r)]
  /\ Respond(r, IF status[r] = "broken" THEN "broken" ELSE "ok")
  /\ UNCHANGED <<serverVars, owner, effect, captures, threadVars, scanAt, target, historyVars>>
RecordNewestFirst(r) ==
  /\ rstep[r] = "body" /\ loop = None
  /\ recorded' = [c \in Captures |-> IF c \in Range(captures[target[r]])
                                     THEN <<r>> \o recorded[c] ELSE recorded[c]]
  /\ Respond(r, IF status[r] = "broken" THEN "broken" ELSE "ok")
  /\ UNCHANGED <<serverVars, owner, effect, captures, threadVars, scanAt, target, historyVars>>

\* The body is in: append the request to every capture list, then return the
\* response.  Lists are only pushed and popped at the end of _request_captures, so
\* the loop over it, which a test thread can interleave, is one step.
RecordAndRespond(r) ==
  /\ rstep[r] = "body" /\ loop = None
  /\ recorded' = [c \in Captures |-> IF c \in Range(captures[target[r]])
                                     THEN Append(recorded[c], r) ELSE recorded[c]]
  /\ Respond(r, IF status[r] = "broken" THEN "broken" ELSE "ok")
  /\ UNCHANGED <<serverVars, owner, effect, captures, threadVars, scanAt, target, historyVars>>

\* uvicorn leaves its main loop once should_exit is set and no request is in flight.
ServeThreadExits ==
  /\ serve = "running" /\ shouldExit /\ InFlight = {}
  /\ serve' = "exited"
  /\ UNCHANGED <<routes, pending, shouldExit, endpointVars, threadVars, loopVars, historyVars>>

\* The steps that need no one outside the process ...
StepTask(r) ==
  \/ ScanRoute(r) \/ GuardRequest(r) \/ ReadSideEffect(r)
  \/ UseStaticEffect(r) \/ CallSideEffect(r)
\* ... and those the user's coroutine or the client's body completes.
CompleteTask(r) ==
  \/ SideEffectReturns(r) \/ SideEffectRaises(r)
  \/ ClientDisconnects(r) \/ RecordAndRespond(r)

--------------------------------------------------------------------------------
\* A class endpoint is an attribute of the server once start() has added it.
Reachable(e) == e \in UserEndpoints \/ (e \in ClassEndpoints /\ owner[e])

MakeCall(t) ==
  \/ \E e \in UserEndpoints, op \in {"add", "patchRoute"} : CallAdd(t, e, op)
  \/ \E e \in UserEndpoints \cup ClassEndpoints :
       /\ Reachable(e)
       /\ \/ CallRemove(t, e)
          \/ \E x \in Patches : CallPatch(t, e, x)
          \/ \E c \in Captures : CallCapture(t, e, c)
  \/ ExitContext(t) \/ CallIsAlive(t) \/ CallStart(t) \/ CallStop(t)

Next ==
  \/ \E t \in Threads : MakeCall(t) \/ StepCall(t)
  \/ \E r \in Requests : Arrive(r) \/ StepTask(r) \/ CompleteTask(r)
  \/ ServeThreadExits

Spec == Init /\ [][Next]_vars

\* CPython schedules both threads, and the event loop every task that is ready; a
\* side effect and a client may take for ever.
Fairness ==
  /\ \A t \in Threads : WF_vars(StepCall(t))
  /\ \A r \in Requests : WF_vars(StepTask(r))
FairSpec == Spec /\ Fairness

\* What a test may hope for besides: its side effects and its clients' bodies end.
Completion ==
  /\ \A r \in Requests : WF_vars(CompleteTask(r))
  /\ WF_vars(ServeThreadExits)

--------------------------------------------------------------------------------
(***************************************************************************)
(* Properties                                                              *)
(***************************************************************************)
Statuses == {"none", "ok", "refused", "unowned", "notfound", "failed", "dropped",
             "disconnected", "broken"}
\* The shapes a call in progress can have: its operation, arguments and next step.
CallsOf(ops, eps, args, steps) == [op : ops, ep : eps, arg : args, step : steps]
Calls ==
  {Idle}
  \cup CallsOf(AddOps, Endpoints, {None}, {"check", "clear", "test", "append", "own"})
  \cup CallsOf(RemoveOps, Endpoints, {None}, {"check", "clear", "test", "pop"})
  \cup CallsOf({"patchEffect"}, Endpoints, SideEffects, {"check", "clear", "install"})
  \cup CallsOf({"exitEffect"}, Endpoints, SideEffects, {"restore", "check", "clear"})
  \cup CallsOf({"capture"}, Endpoints, Captures, {"check", "clear", "open"})
  \cup CallsOf({"exitCapture"}, Endpoints, Captures, {"close", "check", "clear"})
  \cup CallsOf({"ping"}, {Ping}, {None}, {"ping"})
  \cup CallsOf({"isAlive", "stop"}, {None}, {None}, {"join", "check", "clear"})
ContextsOf ==
  [kind : {"route"}, ep : Endpoints, arg : {None}]
  \cup [kind : {"effect"}, ep : Endpoints, arg : SideEffects]
  \cup [kind : {"capture"}, ep : Endpoints, arg : Captures]

\* Every variable of the model has its type.
TypeOK ==
  /\ routes \in Seq(Endpoints)
  /\ pending \in Requests \cup {None}
  /\ serve \in {"unstarted", "running", "exited"}
  /\ shouldExit \in BOOLEAN
  /\ owner \in [Endpoints -> BOOLEAN]
  /\ effect \in [Endpoints -> SideEffects]
  /\ captures \in [Endpoints -> Seq(Captures)]
  /\ recorded \in [Captures -> Seq(Requests)]
  /\ call \in [Threads -> Calls]
  /\ caught \in [Threads -> Requests \cup {None}]
  /\ contexts \in [Threads -> Seq(ContextsOf)]
  /\ loop \in Requests \cup {None}
  /\ rstep \in [Requests -> {"new", "scan", "guard", "read", "static", "callable",
                             "running", "body", "done"}]
  /\ scanAt \in [Requests -> Nat]
  /\ target \in [Requests -> Endpoints \cup {None}]
  /\ status \in [Requests -> Statuses]
  /\ reported \in SUBSET Requests
  /\ overlap \in [Requests -> SUBSET Requests]
  /\ arrived \in Seq(Requests)
  /\ openedOn \in [Captures -> Endpoints \cup {None}]
  /\ openAt \in [Requests -> SUBSET Captures]
  /\ steady \in [Requests -> SUBSET Endpoints]
  /\ shifted \in SUBSET Requests

\* With one test thread the route list and the owners agree: an endpoint is routed at
\* most once, and is routed without an owner only between the two statements of
\* add_http_endpoint, whatever was raised out of earlier calls and contexts.
RoutesMatchOwners ==
  /\ \A i, j \in DOMAIN routes : routes[i] = routes[j] => i = j
  /\ \A e \in Endpoints :
       owner[e] # (e \in Range(routes)) =>
         e \in Range(routes) /\ \E t \in Threads : call[t].ep = e /\ At(t, "own")

\* A request whose endpoint is routed from its arrival on gets its 404 only if some
\* other route was removed while the router was scanning.
MissedOnlyByShift ==
  \A r \in Requests :
    status[r] = "notfound" /\ steady[r] \cap Serves[r] # {} => r \in shifted

\* A response is never ahead of its record: once a client has the answer of the
\* endpoint, every capture that was open when the request arrived and still is
\* open holds the request.
CapturedWhileOpen ==
  \A r \in Requests, c \in Captures :
    /\ status[r] = "ok"
    /\ c \in openAt[r]
    /\ c \in Range(captures[target[r]])
    => r \in Range(recorded[c])

\* A capture holds only requests its own endpoint answered, each once: none that was
\* refused, that failed or that another endpoint served.
RecordedOnlyAnswered ==
  \A c \in Captures :
    /\ \A i, j \in DOMAIN recorded[c] : recorded[c][i] = recorded[c][j] => i = j
    /\ \A r \in Range(recorded[c]) :
         status[r] \in {"ok", "broken"} /\ target[r] = openedOn[c]

ArrivedBefore(q, r) ==
  \E i, j \in DOMAIN arrived : i < j /\ arrived[i] = q /\ arrived[j] = r

\* http_request_capture.py:296: "A list of recorded HTTP requests, in the order they were
\* received".  The list is in the order the handlers finished; two requests of it that
\* were not in flight together are in the order they were received.
RecordedInOrderUnlessOverlapping ==
  \A c \in Captures : \A i, j \in DOMAIN recorded[c] :
    i < j => \/ ArrivedBefore(recorded[c][i], recorded[c][j])
             \/ recorded[c][i] \in overlap[recorded[c][j]]

\* With one test thread, the error of a handler is pending, in the hands of the test
\* thread or already raised there, unless another handler that failed was in flight
\* at the same time.
ErrorLostOnlyToOverlap ==
  \A r \in Requests : status[r] = "failed" =>
    \/ pending = r \/ r \in reported
    \/ \E t \in Threads : caught[t] = r
    \/ \E q \in overlap[r] : status[q] = "failed"

\* With one test thread, no error of a handler is raised a second time.
RaisedOnce ==
  [][\A t \in Threads : caught'[t] # caught[t] => caught'[t] \notin reported]_vars

\* With one test thread, stop() leaves no error behind: when it ends, by returning or by
\* raising, the error of every handler that has failed so far was raised in the test,
\* or lost to a handler that failed while it was in flight.
StopSurfacesErrors ==
  [][\A t \in Threads :
       call[t].op = "stop" /\ call'[t] = Idle =>
         \A r \in Requests : status'[r] = "failed" =>
           r \in reported' \/ \E q \in overlap'[r] : status'[q] = "failed"]_vars

\* With one test thread, an endpoint has its own side effect back once the thread has
\* left every patch of it, also when an exit raised the error of a handler.
PatchesRestored ==
  \A e \in Endpoints :
    /\ \A t \in Threads :
         /\ call[t].op \notin {"patchEffect", "exitEffect"}
         /\ \A i \in DOMAIN contexts[t] :
              contexts[t][i].kind = "effect" => contexts[t][i].ep # e
    => effect[e] = InitialEffect[e]

\* Every request gets an answer, if side effects end and bodies arrive: no guard,
\* removal or error leaves the event loop held.
EveryRequestAnswered ==
  Completion => \A r \in Requests : rstep[r] # "new" ~> rstep[r] = "done"

\* stop() returns, with a side effect that never ends as with any other; and if side
\* effects end, so does the serve thread that was told to, also by a stop() before start().
StopReturns ==
  /\ \A t \in Threads : call[t].op = "stop" ~> call[t] = Idle
  /\ Completion => ((shouldExit /\ serve = "running") ~> serve = "exited")

\* docs/extras/webserver.rst:113, of patch_http_endpoint: "adds and yields the endpoint
\* upon entry, and removes it upon exit".  An exit that raises a pending error does not.
PatchRemovesOnExit ==
  [][\A t \in Threads :
       call[t].op = "exitRoute" /\ call'[t] = Idle => call[t].ep \notin Range(routes')]_vars
================================================================================
