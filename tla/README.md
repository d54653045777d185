# Yellowbox in TLA+

Yellowbox (`src/yellowbox`) sets up and tears down the services a Python test
needs: docker containers, and fakes that run inside the test process on threads
of their own. The modules here model its concurrent and failure-prone parts;
TLC checks them on small instances and TLAPS proves the most important
properties for every value of the constants.

Contents: the system (1), how it is modelled (2), the runs (3), fairness and
deadlock (4), the proofs (5), the disagreements found (6), what is left out
(7) and what could be added (8).

## 1. The system

| component | state | operations | hard part |
|---|---|---|---|
| **WebServer** `extras/webserver/webserver.py` | the starlette route list, `pending_exception`, the uvicorn thread, `should_exit` | start, stop, is_alive, add/remove/patch of HTTP and websocket endpoints | the router reads the route list on the serve thread without the lock that the test threads take; one slot for the errors of all handlers |
| **HTTP endpoints** `endpoints.py`, `class_endpoint.py`, `util.py` | `owner`, `side_effect`, `_request_captures` of each endpoint | `get` (per request), `patch`, `capture_calls`; class endpoints, added by `start()` | state is read before an `await` or twice in a row while a test thread changes it |
| **HTTP capture and matching** `request_capture.py`, `http_request_capture.py` | the lists of recorded requests | append, the `assert_*` methods | what a list holds and in which order; matching of expectations |
| **Websocket transcripts** `ws_request_capture.py` | per connection: the messages of both sides, `accepted`, `close` | recorded send/receive, matching with ellipses | order of close and disconnect; index arithmetic of the matcher |
| **FakeLogstashService** `extras/logstash.py` | records, delimiter, sockets in a selector, a socket pair | start, stop, is_alive, the callbacks of the background thread, `assert_logs` | framing across reads, a failed connection against the thread that serves all of them, shutdown against data |
| **Container services** `subclasses.py`, `containers.py`, `networks.py`, `service.py` | containers of the docker daemon, the network they are attached to, `remove` | constructor, connect, start, startup, stop, disconnect; `run()`, `arun()` | any call may fail half-way; containers exit when they like |
| **RetrySpec** `retry.py` | attempts, the time since the call | retry, aretry | the last attempt, the time limit |
| **HttpService** (deprecated) `http_server.py` | `routes_by_method`, the server thread, the backlog | patch_route, start, stop, the handler of a request | a route set that changes while a request is matched; one thread without a timeout, which `start()` probes and `stop()` waits for |
| **WebsocketService** (deprecated) `websocket.py` | two dictionaries of routes, the server thread, a generator and a send queue per connection | add, set, remove, clear, patch, start, stop, the callbacks of the server | lookups against changes; `stop()` walks the connections while the thread may still run |
| **Image building** `image_build.py`, with the images of `containers.py` | what a tag stands for, in the daemon, the registry and an `lru_cache` | build, removal, `create_and_pull` | failure in the build and the body; a cached answer that is stale |
| **Kafka service** `kafka.py` | a network of its own between two containers | constructor, stop | the network goes before the containers do |
| **SQL services** `sql_base.py`, `postgresql.py`, `mssql.py` | databases of a server | create, drop, reset | a drop after a failure |
| **Other services** `redis.py`, `rabbit_mq.py`, `vault.py`, `fake_gcs.py`, `azure_storage.py`, `aerospike.py` | none beyond their containers | health checks, `clear`, `reset` | – |
| **Docker client and host helpers** `clients.py`, `utils.py`, `_pytest.py` | none | thin wrappers | – |

How they interact. A test is a caller of everything. It shares with the serve
thread of a WebServer the route list, the endpoints and the captures, and the
one `pending_exception`, through which errors come back: a handler that raises
stores its error, every request after that is refused with 500, and the next
call of the test on the server or on one of its endpoints raises it. The test
shares with the thread of FakeLogstashService the records, the delimiter and a
socket pair. A container service shares the daemon with everything else that
uses docker; the daemon is modelled as the owner of container states, and
`run()` as a sequence of calls to it, any of which may fail. The images under its
tags are shared with whoever builds, pulls or removes them. RetrySpec is called by
`start()` to wait until the service in the containers answers, and by `start()` of
HttpService to wait for its own thread. A test nests these contexts: it builds an
image, makes a network, runs a service of the image in it, keeps containers of its
own, and leaves them in reverse whatever has been raised.

What makes each correct:

* WebServer and endpoints: the route list and the owners agree; a routed request
  is not missed; a response is never ahead of its record; a capture holds what
  its endpoint answered, once each and in order; errors reach the test exactly
  once; patches are undone; `stop()` returns.
* FakeLogstashService: the records are the lines of the streams, however these
  are broken into reads; no client can end the service of the others; what was
  sent is taken; `stop()` returns.
* Container services: whatever fails, `run()` ends, detaches what it attached,
  and leaves only those containers that the failure explains, with an exception;
  containers are told to stop in reverse order.
* RetrySpec: neither more attempts than allowed nor fewer, and none long after
  the time limit.
* Images and contexts: containers are made of the image that is meant; a test that
  raises nothing leaves nothing behind.
* HttpService: a request is answered by the routes of one moment; `start()`, `stop()`
  and the requests end unless a client or a side effect holds the one thread.
* WebsocketService: a lookup finds what was routed at some moment of it; a client
  told to close has got everything; no generator stays suspended; `stop()` returns.
* Assertions: each answer was true of the list at some moment of the call; what
  matches is what the arguments say of the request as it came in.
* Transcripts: a message is recorded before its client can see it, after what its
  sender had seen, and none is missing from a transcript the client closed.

`PROJECT.json` lists the hazards behind these, each at its line and with the
properties that would notice it.

Seen while reading, without a property: `clear_bucket` reads the token of the next
page under another name than the one it tests (`fake_gcs.py:152`), so that only
the first page is cleared; and the exit of `patch()` of WebsocketService raises
KeyError when a route was taken by someone else meanwhile (`websocket.py:392`),
which the model has as an exit that changes nothing.

## 2. The models

### WebServer

`WebServer.tla` is one module because the server and its endpoints call each
other in both directions and share every hazard. Two kinds of actors:

* *Test threads* (`Threads`) make one method call at a time. A call is the record
  `call[t]`: the operation, its endpoint and argument, and the next `step`. The
  guard `raise_from_pending`, with which almost every method starts, is two
  steps: `CheckPending` (lines 341–342: the test and the read) and
  `ClearPending` (343–345: the assignment of None and the raise). The steps
  between are those at which the serve thread can see a difference:
  `TestOwner`, `AppendRoute`, `SetOwner`, `PopRoute` (one step, because test
  threads hold the lock and the router sees only the pop), `InstallEffect`,
  `RestoreEffect`, `OpenCapture`, `CloseCapture`, `JoinServeThread`. `start()`
  runs as the chain pingAdd – ping – pingRemove – classAdd..., or pingAbort when
  no ping succeeds. Context managers form a stack, `contexts[t]`, left with
  `ExitContext` in any way a `with` statement can leave them.
* *Request tasks* (`Requests`) go through `Arrive`, `ScanRoute` (one comparison of
  the router's loop, the iterator being an index into the live list),
  `GuardRequest`, `ReadSideEffect`, `UseStaticEffect` or `CallSideEffect`, the
  side effect's end, and `RecordAndRespond` or `ClientDisconnects`. `loop` names
  the task that holds the event loop: other tasks move only when it is `None`,
  test threads at any time, as CPython may switch threads between any two
  bytecodes.

The websocket methods of the server take the same steps on the same list, so
`MockWSEndpoint`s are endpoints of this model too: `Other` is one that serves no
HTTP request, as a websocket route of the same path does not. `PingTimesOut` is
also the RuntimeError of `port` when the thread has no socket in time. `Patches` is
the part of `SideEffects` that the test patches in; the initial ones are
`InitialEffect`.

History variables (`reported`, `overlap`, `arrived`, `openedOn`, `openAt`,
`steady`, `shifted`) only serve the properties; no guard reads them but
`CallCapture`, which uses `openedOn` to say that a capture list is made fresh.

### Matching

`Matching.tla` is the list of a capture and the assertions on it. The serve
thread appends (`Record`: `from_request` groups the headers under lower-case
names and the query under its own), while the test thread is inside an
`assert_*` method. Each look of a method at the list is a step: `CheckLength`,
`CheckOnce`, `MatchOne`, `LookAt` (one pass of `for request in self`, which goes
on to what is appended meanwhile) and `RunOut`. The matching itself is
operators: `IsSubmapOf`, `IsSubmultimapOf` (the counters), `MatchesScope`,
`Matches`. `Validate` answers "error" where `json.loads` cannot decode the body,
and the assertion then ends with an exception that is no AssertionError.
`held` and `missed` record whether `Holds`, what the running method asserts, has
been true and false since it was called.

Not distinguished: the *text* of a mismatch; patterns of paths, which are the set
of strings they match. Out of the runs, as the documentation and the code
disagree or the code leaves the result to the order of a dict: an expectation with
an empty mapping of headers, which is none at all (`util.py:112`), and names in
one expectation that differ in case only, of which one is kept.

### Websocket

`Websocket.tla` is `MockWSEndpoint.get` for each connection, over the recorder
that keeps its transcript. The side effect is arbitrary: at step "effect" it
may `Accept`, `ReceiveText`, `ReceiveDisconnect`, `Send`, `Close`, `Return` or
`Raise`. A send is two steps, since the coroutine is suspended inside it: `Say`
writes the transcript (`ws_request_capture.py:51-63`), then `SendReturns` or
`SendRaises` is what starlette and uvicorn made of the message; `app` and `client`
are starlette's two states of a connection. The end of the handler sends its own
close (`HandleException`, `Return`), after which `step` is "done". A side effect ends
where a call raises; one that catches the exception and goes on is not modelled.
That the endpoint has lost its owner since the router found it is a choice at
`Begin`, as the routes are in `WebServer`. `contexts` are the captures of the test
thread, of which `Begin` takes those that are open, and `peer` is the client.
Text and bytes are the two `Payloads`.

`Subsequence.tla` has the two operators by which a part of a sequence is named: `Among`
is the elements at given indices, in their order, and `Rank` counts the indices up to
one. The messages of one side of a transcript are `Among` the indices of that side, the values
of a header (`Matching`) those among the indices of its name, and
"behind those it had got" compares ranks; all can be reasoned about, where a
recursive `SelectSeq` could not.

The matching of an `ExpectedWSTranscript` is `MatchesMessages`, with the candidate
indices `Starts`; what patterns there are is in `WebsocketAssumption`, as the
constructor raises TypeError for the others. Its scope is that of `Matching`, and its `close` and `accepted`
are comparisons of one value. `Asserted` has the assertions on the list of a capture
(any, once, last), against `Described`, what the arguments say of a transcript;
they are functions of a list at rest, since websocket assertions look at it once.

### Logstash

`Logstash.tla` has clients, the background thread and the test. `Select`
takes the ready keys as `batch`, and each is handled by a step of its own in an
order the kernel chooses; a `HandleWake` in the middle abandons the rest, as the
`return` in the loop does. A receive is `ReceiveLines`, `ReceiveBadLine`,
`ReceiveEnd` or `ReceiveReset`; a step is atomic because nothing else touches that
socket on the side of the service, and what the client does meanwhile is seen by
the next `recv` only. `cut[c]` is the delimiter the callback was created with.
`conn[c] = "unregistered"` is a socket that is out of the selector without having
been closed by the service.

`LogstashRecords.tla` is the abstract specification: clients send, connections
are accepted with a delimiter, and the service takes *some* further part of a
stream together with exactly the records that part completes, defined on the
whole stream and with no notion of chunks. `Logstash` implements it under the
identity mapping of `records`, `sent`, `taken` and `cut` (`RecordsAsPromised`).
`Framing.tla` holds `bytes.split` as a recursive function, used by both: by
`Logstash` on one chunk, by `LogstashRecords` on the whole stream. `Bytes` is what
streams and delimiters are made of.

### ContainerService and Retry

`ContainerService.tla` follows `run()` from the construction of the containers to
the exit of `networks.connect`, one call to the daemon per step. `phase` is the
statement `run()` is at, `at` the container whose turn it is, `step` the place
in the body of the loop of `stop()`. Each call has an action for its failure;
`Raise` takes the exception where Python would: out of `start()` in `run()` past
`with service`, which has not been entered, and out of a call in the body into
the `stop()` of `__exit__`. The daemon is `state` and `attached`;
`Exit(c)` lets a running container exit at any time. In the body, `CallStart` and
`CallStop` may be made in any order. `arun()` is the same sequence of calls, with
`astart` retrying with an awaited sleep. `ownNetwork` is that of a KafkaService,
made in phase "link" by its constructor and removed at step "unlink" of its `stop()`;
of any other service it is "none".

`Retry.tla` is the loop of `RetrySpec.retry` with a clock: `TryFails`,
`TryPropagates` (an exception that is not retried), `TrySucceeds`, `Sleep`.
`ContainerService` extends it and steps it in phase "startup"; success needs every
container running, since otherwise nobody answers. `HttpService` extends it too.

### Images and ContainerTest

`Images.tla` has one tag: what the daemon has under it (`local`), the registry
(`remote`) and the `lru_cache` of `_get_up_to_date_image` (`cache`). `build` is the
place of `build_image`, `fetch` that of `_get_up_to_date_image`, whose calls to the
registry fail as they like.

`ContainerTest.tla` composes it with `ContainerService` into a test that enters
`build_image`, `temp_network`, `removing`, `killing` and `run()`, and leaves them in
this order backwards (`scope`): *run*, *killing*, *removing*, *network*, *image*. The
container that `killing` and `removing` hold is `own`: what was done to it before
their exits is told by the state it is found in, so `LeaveRun` chooses one. `Untag`
is someone else who removes the tag before the service is made of it. Each container
of the service is made of what the tag stands for when the daemon is asked
(`CreateOfTag`), which need not be what was fetched. `EndLastFetch` and `ServiceGone`
forget what nothing reads from there on, which keeps the states few and changes no
behaviour: `phase` "over" says that the test has let go of the service.

### HttpService

`HttpService.tla` is the one server thread with its backlog, the clients and the test
threads in `start()`, `stop()` and `patch_route`. `_do` is `Copy` (a `tuple()` of the set,
which CPython makes in one go), `MatchNext` for each candidate and `Dispatch`.
`start()` is a patch of `/health` around the launch of the thread and the retried
probe, which is a request like any other and waits in the same backlog.
`Completes(r)` are the steps that take a client or a side effect.

`RouteTable.tla` is the abstract specification: a request is answered by all the
routes of one moment of its service. `HttpService` implements it with `decided` mapped
to the candidates that match, while the request is being matched.

### WebsocketService

`WebsocketService.tla` is the server thread (`at`), which in each round handles what
`select()` found: `Flush` writes a queue, `Read` and `ReadMore` take the frames of one
`recv` in turn. `connected()` looks the path up in `_routes` (`LookUpPath`), then in a
reversed copy of `_re_routes` (`LookUpPatterns`); `seen` is a history of what the two
tables answered since the lookup began. A generator is "starting", "running",
"suspended" or "finished"; `Results` is what each kind of side effect may do when it
is advanced. `GiveUp` is `handle_close`: it throws into the generator and closes it,
which a generator that another thread is in refuses. `stop()` is `CallStop`, `Joined`
(the join has a timeout of a second, and may end before the thread does:
`overran`), `CloseNext` for each connection it finds, and `StopEnds`; when the dictionary
it walks has changed in size (`walked`), it raises.

### Conventions

Actions named in a comment "a defective variant" are not part of any
specification. They put a plausible bug in the place of the action after them,
and each property has one that it catches (the `mutants` of `PROJECT.json`), so
that no property holds for lack of anything to say.

## 3. The runs

All runs: `tlc -config <cfg> <module>`. Bounds are in the `.cfg` files.

| run | what it shows | bounds, and why they suffice |
|---|---|---|
| `webserver_routes` | `TypeOK`, `RoutesMatchOwners`, `MissedOnlyByShift`, `StopReturns`, `EveryRequestAnswered` | one test thread (with two, `RoutesMatchOwners` does not hold, see 6), one endpoint of the test, one of the class that serves no HTTP request, and the ping: the router can skip an entry while another is popped, and two requests show that one does not hold the other |
| `webserver_captures` | `CapturedWhileOpen`, `RecordedOnlyAnswered`, `RecordedInOrderUnlessOverlapping`, `ErrorLostOnlyToOverlap`, `PatchesRestored`, `RaisedOnce`, `StopSurfacesErrors` | two captures on one endpoint and two requests that may overlap: order, double and late records, and errors overwritten need no more. `MaxDepth` 2 nests a patch or a capture in another; a callable effect at first and a static one patched in make the double read of `side_effect` go wrong |
| `webserver_patch_exit` | a violation, see 6 | |
| `matching` | `AnswersTrue`, `MatchesAsDocumented` | three records and two expectations: enough for a greedy assignment to take the wrong record, for records to come in at each step of a method, and for one record to be taken twice. The requests and expectations of `MCMatching` cover repeated headers, names in several cases, one value of several, exact and partial maps, and bodies of all kinds |
| `websocket` | `CausalOrder`, `NothingMissingBeforeClose`, `CallsInOrderBegun`, `MatchedAsPlaced` | one connection with two messages, sent by either side or one by each, so that they can cross; a second that only begins and ends (`Silent`), so that connections begin and end in different orders; one capture. Seven patterns, with and without ellipses at each end, against transcripts of up to two messages |
| `logstash_records` | `DiesOnlyByReset`, `RecordsAsPromised`, `EverythingTaken`, `StopReturns` | streams of at most five bytes with two lines, good and bad; `RecvSize` 2 breaks a line across reads, ends a read at a delimiter and within a line, and reads nothing but a delimiter; two delimiters, so that an assignment can come before or after the accept |
| `logstash_reset` | a violation, see 6 | |
| `container_service` | `NothingAttachedAtEnd`, `LeftRunningOnlyRaising`, `LeftoversExplained`, `SignalsInReverse`, `RetriesAsSpecified`, `MadeOfTheImageMeant`, `TestLeavesNothing`, `TestEnds` | three containers, so that one has neighbours on both sides, two of them endpoints; two calls in the body give stop–start, start–stop and repeated calls; three RetrySpecs: a number of attempts, a time limit, both; attempts that take no time or one unit |
| `container_forced` | a violation, see 6 | |
| `http_service` | `AnsweredByTable`, `ProbeFindsHealth`, `StartEnds`, `StopReturns`, `RequestsAnswered` | two clients, so that one waits behind the other and the probe behind both; two routes of the test that overlap, one of which answers `/health` as well; two attempts; side effects that return, raise, and return what cannot be sent |
| `websocket_service` | `ClosedAfterTheLast`, `GeneratorsEnd`, `LookupJustified`, `StopReturns`, `ConnectionsAccepted` | two connections, so that one is closed while the thread is in the other; one path that both ask for and two patterns that one of them matches, so that what is found depends on the order and on the moment; side effects of each kind; one message, from one client, which may hang up |
| `websocket_list` | a violation, see 6 | |

The other bounds sit in guards. `MaxRecorded`, `MaxExpected` (`Matching`) bound the
records and the expectations; `Limit`, `Silent` and `MaxContexts` (`Websocket`) the messages,
the connections that speak and the captures; `MaxDepth` (`WebServer`) the nesting of
contexts; `MaxCalls` (`ContainerService`) the calls in the body; `MaxData` and `Leavers`
(`WebsocketService`) what clients send and who hangs up. `MaxWakes` (`Logstash`) 1 leaves
out the second `stop()` after one that timed out, which would write a second byte.
Each request of a client and each connection comes once; the probe of HttpService
comes again. In `Logstash` clients rest when the thread is over: nothing reads them
any more. In `WebsocketService` the routes rest when the server is closed and no
lookup is under way (`RouteStep`): nothing reads them any more either.

Symmetry: captures are interchangeable in `webserver_captures`, which checks no
liveness.

The retry specifications in use have neither a timeout of 0 (which
`retry.py:59` takes for none, so that without `attempts` the loop need not end)
nor no limit at all, which `__post_init__` refuses.

## 4. Fairness and deadlock

* `WebServer`: weak fairness of every step of a call and of every step of a task
  that waits for nothing outside the process: CPython schedules both threads,
  asyncio every task that is ready. Side effects and clients may take for ever.
  `StopReturns` holds under this alone, because the join has a timeout.
  `EveryRequestAnswered` is an implication from `Completion`, that side effects and
  bodies end and the uvicorn main loop takes its turn; the user, not the code,
  provides this.
* `Logstash`: weak fairness of the background thread and of the return of a join
  whose thread is over. The timeout of the join is *not* fair: `StopReturns`
  shows that `stop()` does not need it.
* `Matching` and `Websocket`: none; they have no liveness property.
* `ContainerTest`: weak fairness of `StepTest`, the disjunction of the steps of the test:
  the daemon answers each call, and waits and attempts have ends. The exits of
  containers are not fair, nor is the end of the body, so `TestEnds` ends in the body
  or at the end of the test.
* `HttpService`: weak fairness of the server thread, of `start()` and of `stop()` once the
  thread has told it. No step has a timeout, so all three properties are
  implications from `Completion`: clients send what they connected for, and side effects
  end.
* `WebsocketService`: weak fairness of the server thread and of the thread in `stop()`.
  `StopReturns` needs only that a side effect ends when `stop()` itself has thrown an
  exception into it; `ConnectionsAccepted` that side effects end.

The `Logstash`, `ContainerService` and `Websocket` runs say `CHECK_DEADLOCK
FALSE`: a test ends, a stopped thread cannot be started again, a service whose
clients are done rests in `select()`, and so does one all of whose connections
have ended. The others can be called for ever, so there deadlock is checked.

## 5. The proofs

`tlapm` checks every proof; the constants are arbitrary but for the named
assumptions `ConstantsAssumption`, `LogstashAssumption`, `MatchingAssumption`,
`OneMappingAssumption`, `WebsocketAssumption`, `HttpAssumption`, `ServiceAssumption`, `RetryAssumption` and
`WebsocketServiceAssumption`, which say that `None` and the ping are distinct from
what they stand beside, that a sequence of containers repeats none, what an expected request or transcript
may look like, and what set each constant is from. Where one test thread is assumed, it is a hypothesis of the
theorem (`OneThread`).

| theorem | says | inductive invariant |
|---|---|---|
| `WebServerProofs!TypeCorrect` | `Spec => []TypeOK` | `TypeInv`: with `Routed` (a task past the scan has an endpoint) and `Caught` (a call at "clear" holds an error), without which `target[r]` and `caught[t]` cannot be used as functions' arguments |
| `WebServerProofs!MissedOnlyByShiftCorrect` | a request misses a route only if one was popped under its scan, whatever threads do | `ScanInv`: what has stood since the arrival of a request that saw no pop is at or behind the iterator |
| `WebServerProofs!RoutesMatchOwnersCorrect` | one test thread: routes and owners agree but inside `add` | `OwnInv`: an endpoint has at most one route, has one if it is owned, and is owned if it has one but while a call is about to set `owner` |
| `WebServerProofs!PatchesRestoredCorrect` | one test thread: after the last patch the endpoint has its own side effect back | `EffectInv`: the outermost patch of an endpoint holds the endpoint's own side effect until its exit does, and without either the endpoint has it |
| `WebServerProofs!CapturedWhileOpenCorrect`, `RecordedOnlyAnsweredCorrect` | captures hold all that was answered while they were open, and only what their endpoint answered, once | `CaptureInv`: a capture is in no list but its endpoint's, is empty and unmet before it is opened and held by one call at most, and requests get their answer and their place in a list in the same, last step |
| `WebServerProofs!RecordedInOrderCorrect` | records are out of order only among requests that overlapped | `OrderInv`: with `OverlapInv`: overlapping is mutual, what is in flight together overlaps, and what was done before an arrival comes earlier or overlaps |
| `WebServerProofs!ErrorLostOnlyToOverlapCorrect`, `StopSurfacesErrorsCorrect` | one test thread: where an error can go, and that `stop()` leaves none | `ErrorInv`: while an error is stored or in a caller's hands no request is admitted, so every handler that can still fail was in flight with the one that did (`Blamed`); `StopSurfacesErrors` adds that the last step of `stop()` leaves nothing pending |
| `WebServerProofs!RaisedOnceCorrect` | an error that was raised is not taken up again, by any thread (two that took it up before may both raise it) | `RaisedInv`: what is pending or reported is the error of a handler that has failed, and what is pending has not been reported |
| `LogstashProofs!DiesOnlyByResetCorrect` | no client but one that resets its connection can end the thread | `DeathInv`: with the type of `client`, as a reset is never taken back |
| `LogstashProofs!RecordsAsPromisedCorrect` | `Logstash` implements `LogstashRecords` if every delimiter is one byte (`OneByte`) | `StreamInv`: of a connection that is still read, all lines read so far are records and `partial` is the last piece of what was read (`Framed`); an event still to be handled is of a socket in the selector (`Handled`) |
| `MatchingProofs!MatchesAsDocumentedCorrect` | what `matches` makes of a record is what the expectation says of the raw request, if `headers` are not given as an empty mapping (`HeadersNamed`) | `RecordsInv`: each record is that of its request. Without induction: the values of a name are the pairs of that name in their order (`ExactlyIs`, as only the rank numbers indices in order: `RankUnique`), and counts compare as injections do (`FoundIs`) |
| `MatchingProofs!AnswersAreTrue` | an assertion that passes was true, and one that fails was false, at some moment of the call | `TruthInv`: with the types of what the method reads (`ReadTypes`), its course (`Course`), what it has learnt (`Known`: the first `next - 1` expectations embed in the first `at - 1` records, and the first `next` do not) and that the history is up to date (`Running`, `Observed`) |
| `WebsocketProofs!Causality` | a transcript is never behind its client, nor a message of the client ahead of what it answers | `TalkInv`: for each connection, what the client has got, then what is on the way, are the messages of the server from the first on (`Downward`); what the transcript has of the client, then what is on the way, are all that the client sent (`Upward`); accept comes first and close last (`Framed`); and what a client had got when it sent is in front of what it sent (`Seen`) |
| `WebsocketProofs!Completeness` | a transcript closed by its client lacks nothing | `TalkInv`: a disconnect is the last thing on its way, and all before it has been received when it is |
| `WebsocketProofs!CaptureOrder` | a capture holds the connections begun while it was open, in order | `ListInv`: a connection begins once, and is of the captures open then |
| `WebsocketProofs!PatternsAsPlaced` | the index arithmetic finds exactly the placements of a pattern; assertions on lists are right even while connections talk | `TalkInv` and `ListInv` for the types; no induction: with `First` and `Final`, the ends of the part between the ellipses, the candidate indices are those of `Placed` (`PatternPlaced`), and `Asserted` stops at the first transcript that does not mismatch (`AssertedIs`) |
| `HttpServiceProofs!AnsweredByTableCorrect` | `HttpService` implements `RouteTable` | the request at hand is the one that is matched, and what has matched so far with what is untested are all candidates that match |
| `HttpServiceProofs!ProbeFindsHealthCorrect` | a probe of `start()` finds its own route | while `start()` probes, `/health` is routed; a probe that is being matched has it among its candidates |
| `ContainerServiceProofs!NothingAttachedAtEndCorrect`, `LeftRunningOnlyRaisingCorrect`, `LeftoversExplainedCorrect`, `SignalsInReverseCorrect`, `RetriesAsSpecifiedCorrect` | what a run leaves, for any containers and calls | parts that say at each `phase` and `at` which containers are made, attached, running, signalled, and which failures have been met; `SignalsInReverse` rests on: behind the container whose turn it is, none is running, but where `stop()` has not begun |
| `ContainerServiceProofs!TestLeavesNothingCorrect` | a test that raises nothing leaves nothing | what each scope left leaves behind it, unless it raised |
| `ContainerServiceProofs!MadeOfTheImageMeantCorrect` | containers are made of what was built or what the registry has | `ImageInv`: what the tag stands for after a build (`BuiltHere`), after a fetch (`FetchedHere`), and that an update pulls what the registry has (`Updating`) |
| `WebsocketServiceProofs!GeneratorsEndCorrect` | no generator is left suspended, unless the join timed out | `GenInv`: unless it did (`overran`), a suspended generator is held by a connection that is known and that `stop()` has not yet passed (`Tended`) |
| `WebsocketServiceProofs!ClosedAfterTheLastCorrect` | a client that is told to close has got everything | `LineInv`: while a socket is open, what the client is owed is queued, and a close frame is the last of the queue (`Outbound`), since after `close()` no generator sends any more (`Silenced`): it has returned, there is none, or the client closed first and sends nothing that would advance it (`Inbound`); the parts `Fresh`, `Readable`, `HeldAfterLookup` and `Told` say where the server thread can and cannot be meanwhile |
| `WebsocketServiceProofs!LookupJustifiedCorrect` | a lookup answers as the routes were at some moment of it | `LookupInv`: `seen` holds what both tables answer as long as the path is still to be looked up, and then that the path was missing and what the rest of the copied patterns answers (`Noted`) |

The proof about the assertions does not expand `Matches`: it holds for any way
to compare a request with an expectation. Its core are lemmas about embeddings
(`Extend`, `Skip`, `Fewer`, ...): that the greedy loop misses no assignment means
that whenever it has served n expectations with the records it has passed, these
records hold no embedding of n + 1; a record that matches lets exactly one more
expectation be served, and one that does not, none.

The proof about the records rests on one fact about `bytes.split`, the lemma
`SplitConcat`: the pieces of `s \o t` are those of `s` and those of `t`, the last of the
one joined to the first of the other. It is shown by going back through the
positions of `s` from its end (`FromTheEnd`, a well-founded induction over a set of
positions, which needs no operator as a parameter), and `SplitSolves` shows by the same
induction that the recursive function in `Split` exists. Of it follows what one `recv`
adds: `LinesOf` is the new lines of the stream, `Rest` its new last piece
(`ChunkAdds`). `OneByte` is needed, not a convenience: a delimiter of two bytes that
two reads tear apart is not found (see 6).

The argument of the WebServer proofs: lemmas first sort the actions by what they
do to the variables concerned (`MakeCallSteps`, `StepCallSteps`, `TaskSteps`), and
each invariant is then shown against these kinds of steps instead of the thirty
actions. The theorems about `run()` are stated of `TestSpec`, the composition: the steps
of a test outside the service change few of its variables.

`SubsequenceProofs` holds the lemmas about `Among` and `Rank`, for the proofs of
`Websocket` and `Matching`.

Only model-checked: all liveness, which is out of the prover's reach. The properties of
the runs that show a violation are false.

## 6. Disagreements found

| run | the documentation or comment | the code |
|---|---|---|
| `webserver_patch_exit` | `docs/extras/webserver.rst:113`: the endpoint is removed on exit | the exit raises a pending error first, and the endpoint stays routed |
| `logstash_reset` | `logstash.py:209`: "Unknown error occurred, closing connection." | when the client has reset it, the handler raises too and the thread that serves all connections ends |
| `container_forced` | `docs/subclasses.rst:41`: a container not stopped in time is forcibly closed | `stop()` raises and leaves it, and those before it, running |
| `websocket_list` | `docs/extras/websocket.rst:66`: a list is sent one by one, waiting for messages between any two | `websocket.py:141` delegates to the iterator of the list, which has no `send()`: the first message of the client drops the connection |

The models show more, for which there is no run:

* `http_request_capture.py:296`, records "in the order they were received": the
  order is that in which the handlers finished (`RecordedInOrderUnlessOverlapping`).
* `docs/extras/webserver.rst:20`, all errors of handlers are stored and raised
  again: a second handler in flight overwrites the error of the first, which is
  what `ErrorLostOnlyToOverlap` allows for.
* `docs/extras/logstash.rst:96`, the delimiter splits the objects: one of several
  bytes does not, when two reads tear it apart; the runs have delimiters of
  one byte.
* `docs/extras/webserver.rst:446`, a recorded request must have the specified headers
  exactly: `headers={}` matches any request, as `lower_keys` (`util.py:112`) takes an
  empty mapping for none; `query_params={}` does not. `MatchesAsDocumentedCorrect` needs
  `HeadersNamed` for this.
* `docs/extras/webserver.rst:586`, `assert_any_request` raises AssertionError if no
  request matches: a body that cannot be decoded ends it with a UnicodeDecodeError
  (`http_request_capture.py:63-67`), even if another request matches.
* `docs/extras/webserver.rst:640`, the code and the side of the close: a close of
  the client is overwritten by the 1011 that `get` sends when the side effect
  lets the disconnect through; and a connection that ends without a close, such as
  one whose side effect returns None, has a transcript that is never done.
* `webserver.py:130`: two test threads that add one endpoint at the same time route it
  twice, since its owner is looked at before the lock is taken.
* `containers.py:163`, `removing(force=True)`: of a container that was never started the
  signal is refused (409), and one that ran ends with exit code 137, where 0 is
  expected unless None is given. Both raise, and neither is removed.
* `image_build.py:81`, an output of None turns printing off: the branch that it turns off
  is the one that knows the messages, so that the first raises.

## 7. Not modelled

* Inside the modelled components: the helpers that build side effects from a
  response, a redirection or a list of messages, each of which is one of the side
  effects of the models; `filter_records`, `assert_logs` and `assert_no_logs` of
  FakeLogstashService, which only read; ports, aliases and the transfer of files
  in `containers.py`, reads and archives of one call; the texts of mismatches.
  A side effect of a websocket endpoint that catches what a call raises and goes on.
* External and modelled only from its use: starlette's router loop, uvicorn's main
  loop, the selector and the sockets, `http.server`, `simple_websocket_server`, the
  docker daemon and registry.
* SQL services: beyond their containers, one SQL statement per operation, whose state
  is the server's; connection strings and options.
* Redis, RabbitMQ, vault, GCS, azure and aerospike: container services whose `clear` and
  `reset` are calls to clients of those services, with no state of their own between
  calls.
* `clients.py`, `utils.py`, `_pytest.py`: wrappers.

## 8. What could be added

1. A transcript as a list that both sides append to atomically, which `Websocket`
   would implement; and a side effect that catches exceptions.
2. A service as created – running – gone, which `ContainerService` implements where
   nothing fails.
3. Two test threads in `webserver_captures`, with the properties about errors restated
   for them.
4. `Databases`: create, drop and reset of `sql_base.py` against a server that may refuse.
