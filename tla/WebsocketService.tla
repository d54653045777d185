--------------------------- MODULE WebsocketService ---------------------------
(***************************************************************************)
(* yellowbox.extras.websocket: a WebSocketServer of simple_websocket_server *)
(* in a thread of its own, whose routes test threads add, set and remove,  *)
(* and which stop() closes from the thread that calls it.                  *)
(*                                                                         *)
(* The server thread handles in each round all connections that select()   *)
(* found ready.  Of the library the model keeps what the callbacks depend  *)
(* on: frames are handled in order; what is sent is queued and written in  *)
(* a later round; close() queues a close frame; an exception of a callback *)
(* closes the socket, calls handle_close and forgets the connection.       *)
(***************************************************************************)
EXTENDS Naturals, Sequences, FiniteSets

CONSTANTS
  Conns,     \* the connections clients make
  Paths,     \* the paths routed
  Patterns,  \* the regular expressions routed
  PathOf,    \* PathOf[c]: the path connection c asks for
  Matches,   \* Matches[c]: the patterns it matches
  Effects,   \* the side effects
  Kind,      \* Kind[e]: "list", "function" or "generator"; a text is a function that
             \* returns it
  Routable,  \* Routable[k]: the side effects that path or pattern k may be routed to
  MaxData,   \* MaxData[c]: how many messages the client of c sends at most
  Leavers,   \* the connections whose clients may hang up
  None

ASSUME WebsocketServiceAssumption ==
  /\ Paths \cap Patterns = {} /\ None \notin Effects \cup Conns
  /\ PathOf \in [Conns -> Paths] /\ Matches \in [Conns -> SUBSET Patterns]
  /\ Kind \in [Effects -> {"list", "function", "generator"}]
  /\ Routable \in [Paths \cup Patterns -> SUBSET Effects]
  /\ MaxData \in [Conns -> Nat] /\ Leavers \subseteq Conns

VARIABLES
  (* the routes *)
  routes,      \* _routes, None for a path that has none
  reRoutes,    \* _re_routes, in the order of their insertion
  (* the server thread *)
  at,          \* "unstarted", "events", "path", "patterns", "running", "parse", "throwing" or
               \* "ended"
  busy,        \* the connection it is at
  untested,    \* _get_generator: the items still to be matched
  seen,        \* what each of the routing tables answered since the lookup began
  writers, readers,  \* what select() returned and is still to be handled
  (* stop() *)
  stopEvent,
  stopAt,      \* "idle", "join", "closing" or "throwing"
  closing,     \* the connection it is at
  toClose,     \* the connections still to be closed
  walked,      \* the size of the dictionary it iterates over
  overran,     \* a join has timed out
  listening,   \* until the socket of the server is closed
  stopResult,  \* "none", "returned" or "raised", of the last stop()
  (* the connections *)
  connections, \* those the server knows
  inbox,       \* the frames on their way to the server
  sendq,       \* the frames on their way to the client
  shut,        \* the sockets that the server has closed
  closed,      \* close() was called
  held,        \* _generator is set
  effect,      \* the side effect of its generator
  gen,         \* "none", "starting", "running", "suspended" or "finished"
  owed,        \* the messages it returned or yielded that the client has not got
  (* the clients *)
  sentData,    \* the messages sent
  left,        \* the clients that hung up
  heard        \* "nothing", "accept" or "close"

routeVars == <<routes, reRoutes>>
serveVars == <<at, busy, untested, writers, readers>>
stopVars == <<stopEvent, stopAt, closing, toClose, walked, overran, listening, stopResult>>
socketVars == <<connections, inbox, sendq, shut, closed>>
genVars == <<held, effect, gen, owed>>
clientVars == <<sentData, left, heard>>
vars == <<routeVars, seen, serveVars, stopVars, socketVars, genVars, clientVars>>

Nothing == [path |-> {}, pattern |-> {}]

Init ==
  /\ routes = [p \in Paths |-> None] /\ reRoutes = <<>>
  /\ at = "unstarted" /\ busy = None /\ untested = <<>> /\ seen = Nothing
  /\ writers = {} /\ readers = {}
  /\ stopEvent = FALSE /\ stopAt = "idle" /\ closing = None /\ toClose = {} /\ walked = 0
  /\ overran = FALSE /\ listening = TRUE /\ stopResult = "none"
  /\ connections = {} /\ shut = {} /\ closed = {} /\ held = {}
  /\ inbox = [c \in Conns |-> <<>>] /\ sendq = [c \in Conns |-> <<>>]
  /\ effect = [c \in Conns |-> None] /\ gen = [c \in Conns |-> "none"]
  /\ owed = [c \in Conns |-> 0] /\ sentData = [c \in Conns |-> 0]
  /\ left = {} /\ heard = [c \in Conns |-> "nothing"]

--------------------------------------------------------------------------------
(* The routes: operations of the test threads, and the lookup. *)

Routed(k) ==
  IF k \in Paths THEN routes[k] # None ELSE \E i \in DOMAIN reRoutes : reRoutes[i].pattern = k

\* What the last of the items that match c is routed to.
LastMatch(c, items) ==
  LET matches == {i \in DOMAIN items : items[i].pattern \in Matches[c]}
  IN IF matches = {} THEN None
     ELSE items[CHOOSE i \in matches : \A j \in matches : j <= i].effect

\* While a lookup is under way, the answers of the new routes are noted.
Note ==
  seen' = IF at \notin {"path", "patterns"} THEN seen
          ELSE [path |-> seen.path \cup {routes'[PathOf[busy]]},
                pattern |-> seen.pattern \cup {LastMatch(busy, reRoutes')}]

\* An item that is set again keeps its place in the dictionary.
Place(k, e) ==
  IF k \in Paths
  THEN routes' = [routes EXCEPT ![k] = e] /\ UNCHANGED reRoutes
  ELSE /\ reRoutes' = IF Routed(k)
                      THEN [i \in DOMAIN reRoutes |->
                              IF reRoutes[i].pattern = k THEN [pattern |-> k, effect |-> e] ELSE reRoutes[i]]
                      ELSE Append(reRoutes, [pattern |-> k, effect |-> e])
       /\ UNCHANGED routes

\* (a bound: once the server is closed, the routes change only during the last lookup)
RouteStep ==
  /\ listening \/ at \in {"path", "patterns"}
  /\ Note
  /\ UNCHANGED <<serveVars, stopVars, socketVars, genVars, clientVars>>

\* Also the entry to patch().  A key that is routed raises RuntimeError: checked and
\* placed under one lock.
Add(k, e) == ~Routed(k) /\ Place(k, e) /\ RouteStep

Set(k, e) == Routed(k) /\ Place(k, e) /\ RouteStep

\* Also the exit of patch().  A key that is not routed raises KeyError.
Remove(k) ==
  /\ Routed(k)
  /\ IF k \in Paths
     THEN routes' = [routes EXCEPT ![k] = None] /\ UNCHANGED reRoutes
     ELSE /\ \E i \in DOMAIN reRoutes :
               /\ reRoutes[i].pattern = k
               /\ reRoutes' = SubSeq(reRoutes, 1, i - 1) \o SubSeq(reRoutes, i + 1, Len(reRoutes))
          /\ UNCHANGED routes
  /\ RouteStep

Clear ==
  /\ routes' = [p \in Paths |-> None] /\ reRoutes' = <<>>
  /\ RouteStep

ChangeRoutes ==
  \/ \E k \in Paths \cup Patterns : Remove(k) \/ \E e \in Routable[k] : Add(k, e) \/ Set(k, e)
  \/ Clear

--------------------------------------------------------------------------------
(* Clients. *)

ClientStep ==
  UNCHANGED <<routeVars, seen, serveVars, stopVars, connections, sendq, shut, closed, genVars, heard>>

\* The server listens from its construction to its close.
Dial(c) ==
  /\ inbox[c] = <<>> /\ c \notin connections \cup shut /\ listening
  /\ inbox' = [inbox EXCEPT ![c] = <<"handshake">>]
  /\ ClientStep /\ UNCHANGED <<sentData, left>>

\* The client is in the websocket protocol, as far as it knows.
Talks(c) == heard[c] = "accept" /\ c \notin left \cup shut

SendData(c) ==
  /\ Talks(c) /\ sentData[c] < MaxData[c]
  /\ sentData' = [sentData EXCEPT ![c] = @ + 1]
  /\ inbox' = [inbox EXCEPT ![c] = Append(@, "data")]
  /\ ClientStep /\ UNCHANGED left

\* With a close frame, or without.
HangUp(c) ==
  /\ c \in Leavers /\ Talks(c)
  /\ left' = left \cup {c}
  /\ \E frame \in {"close", "eof"} : inbox' = [inbox EXCEPT ![c] = Append(@, frame)]
  /\ ClientStep /\ UNCHANGED sentData

--------------------------------------------------------------------------------
(* What both threads do to a connection. *)

\* WebSocket.close: a close frame behind what is queued, once.
QueueClose(c, queue) == IF c \in closed THEN queue ELSE Append(queue, "close")

\* The side effect runs when its generator is thrown an exception it may handle.
Throws(c) == c \in held /\ gen[c] = "suspended" /\ Kind[effect[c]] = "generator"

\* (a defective variant: the generator is let go of, and neither thrown at nor closed)
GiveUpQuietly(c) ==
  /\ shut' = shut \cup {c}
  /\ held' = held \ {c}
  /\ UNCHANGED gen

\* _handle_close of the server: the socket is closed; handle_close gives up the generator.
\* One that another thread is in refuses both throw() and close(), with errors that are
\* swallowed as any others.
GiveUp(c) ==
  /\ shut' = shut \cup {c}
  /\ held' = held \ {c}
  /\ gen' = [gen EXCEPT ![c] = IF c \notin held \/ @ \in {"starting", "running"} THEN @
                               ELSE IF Throws(c) THEN "running" ELSE "finished"]

--------------------------------------------------------------------------------
(* start() and the server thread. *)

Start ==
  /\ at = "unstarted"
  /\ at' = "events"
  /\ UNCHANGED <<routeVars, seen, busy, untested, writers, readers, stopVars, socketVars, genVars, clientVars>>

\* The loop ends, or its next round begins with what select() finds.
Check ==
  /\ at = "events" /\ writers = {} /\ readers = {}
  /\ IF stopEvent
     THEN at' = "ended" /\ UNCHANGED <<writers, readers>>
     ELSE /\ writers' = {c \in connections : sendq[c] # <<>>}
          /\ readers' = {c \in Conns : inbox[c] # <<>>}
          /\ UNCHANGED at
  /\ UNCHANGED <<routeVars, seen, busy, untested, stopVars, socketVars, genVars, clientVars>>

Forget(c) ==
  /\ connections' = connections \ {c}
  /\ effect' = [effect EXCEPT ![c] = None]
  /\ at' = "events" /\ busy' = None

\* An exception of a callback or of the socket: the side effect may have to handle the
\* exception thrown at it before the connection is forgotten.
Drop(c) ==
  /\ GiveUp(c)
  /\ inbox' = [inbox EXCEPT ![c] = <<>>] /\ sendq' = [sendq EXCEPT ![c] = <<>>]
  /\ IF Throws(c) THEN at' = "throwing" /\ busy' = c /\ UNCHANGED <<connections, effect>>
     ELSE Forget(c)

MessagesIn(frames) == Cardinality({i \in DOMAIN frames : frames[i] = "message"})
\* The client gets frames, the last of which may be a close.
Deliver(c, frames) ==
  /\ owed' = [owed EXCEPT ![c] = @ - MessagesIn(frames)]
  /\ heard' = [heard EXCEPT ![c] = IF frames[Len(frames)] = "close" THEN "close" ELSE "accept"]

\* What is queued is written, up to a close frame.
Flush(c) ==
  /\ at = "events" /\ c \in writers
  /\ writers' = writers \ {c}
  /\ LET closes == {i \in DOMAIN sendq[c] : sendq[c][i] = "close"}
     IN \/ c \in shut /\ Drop(c) /\ UNCHANGED <<owed, heard>>
        \/ c \notin shut /\ \E i \in closes : Deliver(c, SubSeq(sendq[c], 1, i)) /\ Drop(c)
        \/ /\ c \notin shut /\ closes = {}
           /\ Deliver(c, sendq[c])
           /\ sendq' = [sendq EXCEPT ![c] = <<>>]
           /\ UNCHANGED <<at, busy, connections, shut, inbox, held, effect, gen>>
  /\ UNCHANGED <<routeVars, seen, untested, readers, stopVars, closed, sentData, left>>

\* The next frame is one of the same recv(): the end of the stream comes alone.
More(c) == inbox[c] # <<>> /\ Head(inbox[c]) # "eof"
\* A frame is done with: on to the next, or back to the round.
FrameDone(c, frames) ==
  IF frames # <<>> /\ Head(frames) # "eof" THEN at' = "parse" /\ busy' = c
  ELSE at' = "events" /\ busy' = None

\* One frame of the connection at hand is handled.
TakeFrame(c) ==
  LET frame == Head(inbox[c])
      rest == Tail(inbox[c])
      Taken == inbox' = [inbox EXCEPT ![c] = rest]
  IN /\ \/ /\ frame = "handshake" /\ ~listening
           /\ Taken /\ FrameDone(c, rest)
           /\ UNCHANGED <<seen, connections, sendq, shut, closed, held, effect, gen>>
        \/ /\ frame = "handshake" /\ listening
           /\ Taken
           /\ connections' = connections \cup {c}
           /\ sendq' = [sendq EXCEPT ![c] = <<"accept">>]
           /\ at' = "path" /\ busy' = c
           /\ seen' = [path |-> {routes[PathOf[c]]}, pattern |-> {LastMatch(c, reRoutes)}]
           /\ UNCHANGED <<shut, closed, held, effect, gen>>
        \/ /\ frame = "data" /\ c \in held /\ gen[c] = "suspended"
           /\ Taken
           /\ gen' = [gen EXCEPT ![c] = "running"]
           /\ at' = "running" /\ busy' = c
           /\ UNCHANGED <<seen, connections, sendq, shut, closed, held, effect>>
        \* A generator that has returned stops at once, without a value.
        \/ /\ frame = "close" \/ (frame = "data" /\ c \in held /\ gen[c] = "finished")
           /\ Taken /\ FrameDone(c, rest)
           /\ sendq' = [sendq EXCEPT ![c] = QueueClose(c, @)] /\ closed' = closed \cup {c}
           /\ UNCHANGED <<seen, connections, shut, held, effect, gen>>
        \* There is no generator to send data to, or no more data.
        \/ /\ frame = "eof" \/ (frame = "data" /\ c \notin held)
           /\ Drop(c)
           /\ UNCHANGED <<seen, closed>>
  /\ UNCHANGED <<routeVars, untested, writers, stopVars, owed, clientVars>>

Read(c) ==
  /\ at = "events" /\ writers = {} /\ c \in readers
  /\ readers' = readers \ {c}
  /\ \/ c \notin shut /\ TakeFrame(c)
     \/ /\ c \in shut /\ Drop(c)
        /\ UNCHANGED <<routeVars, seen, untested, writers, stopVars, closed, owed, clientVars>>

\* The frames of one recv() are handled one after the other ...
ReadMore(c) ==
  /\ at = "parse" /\ busy = c /\ More(c)
  /\ TakeFrame(c)
  /\ UNCHANGED readers

\* ... and the last of them may be any.
ReadDone ==
  /\ at = "parse"
  /\ at' = "events" /\ busy' = None
  /\ UNCHANGED <<routeVars, seen, untested, writers, readers, stopVars, socketVars, genVars, clientVars>>

--------------------------------------------------------------------------------
(* connected(): the lookup, and the first step of the generator. *)

\* The generator is made and advanced to its first yield.
Connect(c, e) ==
  /\ effect' = [effect EXCEPT ![c] = e]
  /\ held' = held \cup {c} /\ gen' = [gen EXCEPT ![c] = "starting"]
  /\ at' = "running" /\ untested' = <<>> /\ seen' = Nothing
  /\ UNCHANGED <<busy, sendq, closed>>

\* No handler: close().
Refuse(c) ==
  /\ sendq' = [sendq EXCEPT ![c] = QueueClose(c, @)] /\ closed' = closed \cup {c}
  /\ at' = "events" /\ busy' = None /\ seen' = Nothing
  /\ UNCHANGED <<untested, effect, held, gen>>

LookupStep ==
  UNCHANGED <<routeVars, writers, readers, stopVars, connections, inbox, shut, owed, clientVars>>

\* _get_generator: first _routes; then a reversed copy of the items of _re_routes ...
LookUpPath(c) ==
  /\ at = "path" /\ busy = c
  /\ IF routes[PathOf[c]] # None
     THEN Connect(c, routes[PathOf[c]])
     ELSE /\ at' = "patterns" /\ untested' = reRoutes
          /\ UNCHANGED <<busy, seen, sendq, closed, effect, held, gen>>
  /\ LookupStep

\* (a defective variant: a pattern counts only while it is still routed)
LookUpPatternsLive(c) ==
  /\ at = "patterns" /\ busy = c
  /\ IF untested = <<>> THEN Refuse(c)
     ELSE LET item == untested[Len(untested)]
          IN IF item.pattern \in Matches[c] /\ Routed(item.pattern) THEN Connect(c, item.effect)
             ELSE /\ untested' = SubSeq(untested, 1, Len(untested) - 1)
                  /\ UNCHANGED <<at, busy, seen, sendq, closed, effect, held, gen>>
  /\ LookupStep

\* ... matched one by one.
LookUpPatterns(c) ==
  /\ at = "patterns" /\ busy = c
  /\ IF untested = <<>> THEN Refuse(c)
     ELSE LET item == untested[Len(untested)]
          IN IF item.pattern \in Matches[c] THEN Connect(c, item.effect)
             ELSE /\ untested' = SubSeq(untested, 1, Len(untested) - 1)
                  /\ UNCHANGED <<at, busy, seen, sendq, closed, effect, held, gen>>
  /\ LookupStep

--------------------------------------------------------------------------------
(* _advance_generator. *)

\* What a side effect may do when it is advanced: return a message, or return without one;
\* yield a message, or None; raise.  A list has no send(): data raises AttributeError.
Results(c) ==
  LET kind == Kind[effect[c]]
  IN CASE kind = "list"     -> IF gen[c] = "starting" THEN {"yields"} ELSE {"raises"}
       [] kind = "function" -> {"returns", "ends", "raises"}
       [] OTHER             -> {"returns", "ends", "yields", "waits", "raises"}

Advanced(c, result) ==
  /\ gen' = [gen EXCEPT ![c] = IF result \in {"yields", "waits"} THEN "suspended" ELSE "finished"]
  /\ owed' = IF result \in {"returns", "yields"} THEN [owed EXCEPT ![c] = @ + 1] ELSE owed
  /\ FrameDone(c, inbox[c])
  /\ UNCHANGED <<routeVars, seen, untested, writers, readers, stopVars, connections, inbox, shut, held, effect, clientVars>>

\* (a defective variant: close() comes before the last message)
YieldsOrReturnsClosing(c) ==
  /\ at = "running" /\ busy = c
  /\ \E result \in Results(c) \ {"raises"} :
       /\ Advanced(c, result)
       /\ LET message == IF result \in {"returns", "yields"} THEN <<"message">> ELSE <<>>
              over == result \in {"returns", "ends"}
          IN /\ sendq' = [sendq EXCEPT ![c] = (IF over THEN QueueClose(c, @) ELSE @) \o message]
             /\ closed' = IF over THEN closed \cup {c} ELSE closed

\* The message is queued; the return of the side effect closes the connection.
YieldsOrReturns(c) ==
  /\ at = "running" /\ busy = c
  /\ \E result \in Results(c) \ {"raises"} :
       /\ Advanced(c, result)
       /\ LET sent == IF result \in {"returns", "yields"} THEN Append(sendq[c], "message") ELSE sendq[c]
              over == result \in {"returns", "ends"}
          IN /\ sendq' = [sendq EXCEPT ![c] = IF over THEN QueueClose(c, sent) ELSE sent]
             /\ closed' = IF over THEN closed \cup {c} ELSE closed

\* (a defective variant: the exception ends the loop of the server)
RaisesOut(c) ==
  /\ at = "running" /\ busy = c /\ "raises" \in Results(c)
  /\ gen' = [gen EXCEPT ![c] = "finished"]
  /\ at' = "ended" /\ busy' = None
  /\ UNCHANGED <<routeVars, seen, untested, writers, readers, stopVars, socketVars, held, effect, owed, clientVars>>

\* What the side effect raises drops the connection, with all that is queued for it.
Raises(c) ==
  /\ at = "running" /\ busy = c /\ "raises" \in Results(c)
  /\ gen' = [gen EXCEPT ![c] = "finished"]
  /\ shut' = shut \cup {c} /\ held' = held \ {c}
  /\ inbox' = [inbox EXCEPT ![c] = <<>>] /\ sendq' = [sendq EXCEPT ![c] = <<>>]
  /\ Forget(c)
  /\ UNCHANGED <<routeVars, seen, untested, writers, readers, stopVars, closed, owed, clientVars>>

\* The side effect is through with the exception thrown at it: generator.close() follows.
Thrown(c) ==
  /\ at = "throwing" /\ busy = c
  /\ gen' = [gen EXCEPT ![c] = "finished"]
  /\ Forget(c)
  /\ UNCHANGED <<routeVars, seen, untested, writers, readers, stopVars, inbox, sendq, shut, closed, held, owed, clientVars>>

StepServer ==
  \/ Check \/ ReadDone
  \/ \E c \in Conns : Flush(c) \/ Read(c) \/ ReadMore(c) \/ LookUpPath(c) \/ LookUpPatterns(c)
\* What takes the side effect of a test to end.
StepSideEffect(c) == YieldsOrReturns(c) \/ Raises(c)

--------------------------------------------------------------------------------
(* stop(): the thread is joined for a second, and the connections are closed. *)

StopStep == UNCHANGED <<routeVars, seen, serveVars, connections, inbox, effect, owed, clientVars>>
SocketsKept == UNCHANGED <<sendq, shut, closed, held, gen>>

\* A thread that was never started cannot be joined: RuntimeError.
CallStop ==
  /\ stopAt = "idle"
  /\ stopEvent' = TRUE
  /\ stopAt' = IF at = "unstarted" THEN "idle" ELSE "join"
  /\ stopResult' = IF at = "unstarted" THEN "raised" ELSE "none"
  /\ StopStep /\ SocketsKept /\ UNCHANGED <<closing, toClose, walked, overran, listening>>

\* (a defective variant: without a timeout)
JoinedForGood ==
  /\ stopAt = "join" /\ at = "ended"
  /\ stopAt' = "closing" /\ toClose' = connections /\ walked' = Cardinality(connections)
  /\ overran' = (overran \/ at # "ended") /\ listening' = FALSE
  /\ StopStep /\ SocketsKept /\ UNCHANGED <<stopEvent, closing, stopResult>>

\* join(1) ends in any case; server.close() begins to walk its connections.
Joined ==
  /\ stopAt = "join"
  /\ stopAt' = "closing" /\ toClose' = connections /\ walked' = Cardinality(connections)
  /\ overran' = (overran \/ at # "ended") /\ listening' = FALSE
  /\ StopStep /\ SocketsKept /\ UNCHANGED <<stopEvent, closing, stopResult>>

CloseNext(c) ==
  /\ stopAt = "closing" /\ c \in toClose /\ Cardinality(connections) = walked
  /\ toClose' = toClose \ {c}
  /\ sendq' = [sendq EXCEPT ![c] = QueueClose(c, @)] /\ closed' = closed \cup {c}
  /\ GiveUp(c)
  /\ IF Throws(c) THEN stopAt' = "throwing" /\ closing' = c ELSE UNCHANGED <<stopAt, closing>>
  /\ StopStep /\ UNCHANGED <<stopEvent, walked, overran, listening, stopResult>>

ThrownByStop ==
  /\ stopAt = "throwing"
  /\ gen' = [gen EXCEPT ![closing] = "finished"]
  /\ stopAt' = "closing" /\ closing' = None
  /\ StopStep /\ UNCHANGED <<sendq, shut, closed, held, stopEvent, toClose, walked, overran, listening, stopResult>>

\* A server thread that outlived the join may have changed the dictionary: RuntimeError.
StopEnds ==
  /\ stopAt = "closing" /\ (toClose = {} \/ Cardinality(connections) # walked)
  /\ stopAt' = "idle" /\ toClose' = {} /\ walked' = 0
  /\ stopResult' = IF Cardinality(connections) = walked THEN "returned" ELSE "raised"
  /\ StopStep /\ SocketsKept /\ UNCHANGED <<stopEvent, closing, overran, listening>>

StepStop == Joined \/ StopEnds \/ \E c \in Conns : CloseNext(c)

--------------------------------------------------------------------------------
Next ==
  \/ ChangeRoutes
  \/ \E c \in Conns : Dial(c) \/ SendData(c) \/ HangUp(c) \/ StepSideEffect(c) \/ Thrown(c)
  \/ Start \/ StepServer
  \/ CallStop \/ StepStop \/ ThrownByStop

Spec == Init /\ [][Next]_vars

\* CPython schedules the server thread and the thread in stop().
FairSpec == Spec /\ WF_vars(StepServer) /\ WF_vars(StepStop)

\* What a test may hope for besides: its side effects end, when they are advanced and when
\* they are thrown an exception.
Advances == WF_vars(\E c \in Conns : StepSideEffect(c))
Catches == WF_vars(\E c \in Conns : Thrown(c))

--------------------------------------------------------------------------------
(***************************************************************************)
(* Properties                                                              *)
(***************************************************************************)

\* The lookup reads two tables at two moments, while tests change both.  What it finds, or
\* finds missing, in each stood there at some moment of the lookup: a connection is refused
\* only if its path was not routed at one moment and no pattern matched at one.
LookupJustified ==
  [][\A c \in Conns : busy = c /\ at \in {"path", "patterns"} /\ at' \notin {"path", "patterns"} =>
       LET found == IF at' = "running" THEN effect'[c] ELSE None
       IN \/ at = "path" /\ found \in seen.path
          \/ at = "patterns" /\ None \in seen.path /\ found \in seen.pattern]_vars

\* A client that is told to close has got all that the side effect returned and yielded.
ClosedAfterTheLast == \A c \in Conns : heard[c] = "close" => owed[c] = 0

\* No generator is left behind: that of a connection that is forgotten has ended, and when
\* stop() returns all have, unless the join timed out: one that the server thread is in
\* while stop() closes its connection stays suspended for good.
GeneratorsEnd ==
  LET unfinished == {c \in Conns : gen[c] = "suspended"}
  IN /\ unfinished \subseteq connections \/ overran
     /\ stopResult = "returned" => unfinished = {} \/ overran

\* stop() returns although a side effect may hang in the server thread, unless one hangs
\* while it handles the exception thrown at it.
StopReturns == WF_vars(ThrownByStop) => (stopAt # "idle" ~> stopAt = "idle")

\* A connection is accepted in the end, whatever the side effects of others raise, unless
\* its own raises first, when its client gets no answer at all, or the service is stopped.
ConnectionsAccepted ==
  Advances /\ Catches => \A c \in Conns :
    inbox[c] # <<>> /\ at # "unstarted" ~> heard[c] # "nothing" \/ c \in shut \/ stopEvent

\* A list is sent one by one to a client that sends a message between any two: unless the
\* client hangs up or the service is stopped, it is told to close before the socket is shut.
ListSentOneByOne ==
  [][\A c \in shut' \ shut :
       effect[c] # None /\ Kind[effect[c]] = "list" /\ c \notin left /\ ~stopEvent =>
         heard'[c] = "close"]_vars
================================================================================
