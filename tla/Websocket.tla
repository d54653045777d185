----------------------------- MODULE Websocket -------------------------------
(***************************************************************************)
(* The websocket endpoint of yellowbox.extras.webserver: the handler of    *)
(* each connection (MockWSEndpoint.get), the WebSocketRecorder under it    *)
(* that keeps the transcript of the conversation, and the captures of a    *)
(* test thread that hold the transcripts.  A handler is a coroutine of the *)
(* serve thread, which is suspended while a message is sent or awaited.    *)
(* The side effect is any sequence of accept, receive_text (or _bytes),    *)
(* send and close that ends where one raises.  Clients, and what starlette *)
(* and uvicorn do with a message, are external.                            *)
(***************************************************************************)
EXTENDS Naturals, Sequences, FiniteSets, SequencesExt, Subsequence

CONSTANTS
  Conns,       \* connections
  Payloads,    \* what a message holds, in its "text" or in its "bytes"
  Codes,       \* close codes
  InternalError, \* WS_1011_INTERNAL_ERROR
  Silent,      \* bound: the connections whose side effect only returns None or raises
  Limit,       \* bound on the messages of each connection, both ways together
  MaxContexts, \* bound on the calls of capture_calls
  Patterns,    \* the messages of ExpectedWSTranscripts
  Ellipsis,    \* "..." in a pattern
  None

ASSUME WebsocketAssumption ==
  /\ Limit \in [Conns -> Nat] /\ MaxContexts \in Nat
  /\ InternalError \in Codes /\ None \notin Codes /\ Ellipsis \notin Payloads
  /\ None \notin {"server", "client"} \X Codes
  \* the constructor of ExpectedWSTranscript raises TypeError for any other Ellipsis
  /\ \A p \in Patterns :
       /\ p \in Seq({Ellipsis} \union [sender : {"server", "client"}, data : Payloads \union {Ellipsis}])
       /\ \A i \in DOMAIN p : p[i] = Ellipsis => i \in {1, Len(p)}

VARIABLES
  allowAbrupt, \* allow_abrupt_disconnect of the endpoint
  pending,     \* whether owner.pending_exception is set
  contexts,    \* the calls of capture_calls: [open, calls], where calls are the connections
               \* whose transcripts the list holds
  transcript,  \* the transcript of each connection: [messages, accepted, close]
  step,        \* of the handler: "new", "effect", "send", "raised" or "done"
  sending,     \* the message in super().send, and where the handler goes on after it
  error,       \* the exception of the side effect: "disconnect" or "other"
  app, client, \* starlette's application_state and client_state
  toServer, toClient, \* the messages on their way
  peer,        \* the client: [state, sent, got, closed]
  (* history *)
  begun,       \* the connections in the order they began
  openAt,      \* the contexts that were open when a connection began
  sawAt        \* how many messages a client had got when it sent each of its own

endpointVars == <<allowAbrupt, pending, contexts>>
recorderVars == <<transcript, sending>>
handlerVars == <<step, error>>
socketVars == <<app, client>>
wireVars == <<toServer, toClient>>
peerVars == <<peer, sawAt>>
vars == <<endpointVars, recorderVars, handlerVars, socketVars, wireVars, peerVars, begun, openAt>>

Fresh == [messages |-> <<>>, accepted |-> FALSE, close |-> None]

Init ==
  /\ allowAbrupt \in BOOLEAN /\ pending = FALSE /\ contexts = <<>>
  /\ transcript = [c \in Conns |-> Fresh]
  /\ step = [c \in Conns |-> "new"]
  /\ sending = [c \in Conns |-> None]
  /\ error = [c \in Conns |-> None]
  /\ app = [c \in Conns |-> "connecting"]
  /\ client = [c \in Conns |-> "connecting"]
  /\ toServer = [c \in Conns |-> <<>>] /\ toClient = [c \in Conns |-> <<>>]
  /\ peer = [c \in Conns |-> [state |-> "unborn", sent |-> <<>>, got |-> <<>>, closed |-> None]]
  /\ begun = <<>>
  /\ openAt = [c \in Conns |-> {}]
  /\ sawAt = [c \in Conns |-> <<>>]

--------------------------------------------------------------------------------
(* WebSocketRecorder. *)

Message(sender, data) == [sender |-> sender, data |-> data]

\* send(): what it makes of the transcript before the message goes to super().send.
Noted(t, m) ==
  CASE m.type = "accept" -> [t EXCEPT !.accepted = TRUE]
    [] m.type = "close"  -> [t EXCEPT !.close = <<"server", m.data>>]
    [] m.type = "send"   -> [t EXCEPT !.messages = Append(@, Message("server", m.data))]

Say(c, type, data, after) ==
  /\ transcript' = [transcript EXCEPT ![c] = Noted(@, [type |-> type, data |-> data])]
  /\ sending' = [sending EXCEPT ![c] = [type |-> type, data |-> data, after |-> after]]
  /\ step' = [step EXCEPT ![c] = "send"]

\* The messages that starlette lets through.
Legal(c) ==
  \/ app[c] = "connecting" /\ sending[c].type \in {"accept", "close"}
  \/ app[c] = "connected" /\ sending[c].type \in {"send", "close"}

\* super().send puts the message on the wire.  It may do so after the client has gone, as
\* long as the server does not know.
SendReturns(c) ==
  /\ step[c] = "send" /\ Legal(c) /\ client[c] # "disconnected"
  /\ app' = [app EXCEPT ![c] = CASE sending[c].type = "accept" -> "connected"
                                 [] sending[c].type = "close" -> "disconnected"
                                 [] OTHER -> @]
  /\ toClient' = IF peer[c].state = "closed" THEN toClient
                 ELSE [toClient EXCEPT ![c] = Append(@, [type |-> sending[c].type,
                                                         data |-> sending[c].data])]
  /\ step' = [step EXCEPT ![c] = sending[c].after]
  /\ sending' = [sending EXCEPT ![c] = None]
  /\ UNCHANGED <<endpointVars, transcript, error, client, toServer, peerVars, begun, openAt>>

\* super().send raises: a message out of turn, or a client that has gone.
SendRaises(c, kind) ==
  /\ step[c] = "send"
  /\ \/ kind = "other" /\ (~Legal(c) \/ client[c] = "disconnected")
     \/ kind = "disconnect" /\ Legal(c) /\ client[c] # "disconnected" /\ peer[c].state = "closed"
  /\ app' = [app EXCEPT ![c] = "disconnected"]
  /\ IF sending[c].after = "done"
     THEN step' = [step EXCEPT ![c] = "done"] /\ UNCHANGED error
     ELSE step' = [step EXCEPT ![c] = "raised"] /\ error' = [error EXCEPT ![c] = kind]
  /\ sending' = [sending EXCEPT ![c] = None]
  /\ UNCHANGED <<endpointVars, transcript, client, wireVars, peerVars, begun, openAt>>

--------------------------------------------------------------------------------
(* MockWSEndpoint.get. *)

\* (a defective variant: a list that is still known after its capture)
SinksForEver(c) ==
  [k \in DOMAIN contexts |-> [contexts[k] EXCEPT !.calls = Append(@, c)]]

\* The transcript goes to every list of _request_captures.
Sinks(c) ==
  [k \in DOMAIN contexts |->
     IF contexts[k].open THEN [contexts[k] EXCEPT !.calls = Append(@, c)] ELSE contexts[k]]

\* A connection reaches the endpoint, which may have lost its owner since its route was found.
Begin(c, owned) ==
  /\ step[c] = "new" /\ peer[c].state # "unborn"
  /\ contexts' = Sinks(c)
  /\ begun' = Append(begun, c)
  /\ openAt' = [openAt EXCEPT ![c] = {k \in DOMAIN contexts : contexts[k].open}]
  /\ IF ~owned \/ pending
     THEN Say(c, "close", InternalError, "done")
     ELSE step' = [step EXCEPT ![c] = "effect"] /\ UNCHANGED recorderVars
  /\ UNCHANGED <<allowAbrupt, pending, error, socketVars, wireVars, peerVars>>

\* The side effect calls accept, which first receives the "connect" of the client.
Accept(c) ==
  /\ step[c] = "effect"
  /\ client' = [client EXCEPT ![c] = IF @ = "connecting" THEN "connected" ELSE @]
  /\ Say(c, "accept", None, "effect")
  /\ UNCHANGED <<endpointVars, error, app, wireVars, peerVars, begun, openAt>>

From(messages, sender) == {i \in DOMAIN messages : messages[i].sender = sender}
Texts(messages, sender) == Among(messages, From(messages, sender))
ServerTexts(c) == Texts(transcript[c].messages, "server")
ClientTexts(c) == Texts(transcript[c].messages, "client")

Send(c, data) ==
  /\ step[c] = "effect" /\ Len(ServerTexts(c)) + Len(peer[c].sent) < Limit[c]
  /\ Say(c, "send", data, "effect")
  /\ UNCHANGED <<endpointVars, error, socketVars, wireVars, peerVars, begun, openAt>>

Close(c, code) ==
  /\ step[c] = "effect"
  /\ Say(c, "close", code, "effect")
  /\ UNCHANGED <<endpointVars, error, socketVars, wireVars, peerVars, begun, openAt>>

\* (a defective variant: the newest message comes first)
ReceiveTextFirst(c) ==
  /\ step[c] = "effect" /\ app[c] = "connected" /\ toServer[c] # <<>>
  /\ Head(toServer[c]).type = "receive"
  /\ transcript' = [transcript EXCEPT
       ![c].messages = <<Message("client", Head(toServer[c]).data)>> \o @]
  /\ toServer' = [toServer EXCEPT ![c] = Tail(@)]
  /\ UNCHANGED <<endpointVars, sending, handlerVars, socketVars, toClient, peerVars, begun, openAt>>

\* receive_text or receive_bytes gets a message of the client ...
ReceiveText(c) ==
  /\ step[c] = "effect" /\ app[c] = "connected" /\ toServer[c] # <<>>
  /\ Head(toServer[c]).type = "receive"
  /\ transcript' = [transcript EXCEPT
       ![c].messages = Append(@, Message("client", Head(toServer[c]).data))]
  /\ toServer' = [toServer EXCEPT ![c] = Tail(@)]
  /\ UNCHANGED <<endpointVars, sending, handlerVars, socketVars, toClient, peerVars, begun, openAt>>

\* (a defective variant: the end overtakes the messages before it)
ReceiveDisconnectFirst(c) ==
  /\ step[c] = "effect" /\ app[c] = "connected"
  /\ \E i \in DOMAIN toServer[c] : toServer[c][i].type = "disconnect"
       /\ transcript' = [transcript EXCEPT ![c].close = <<"client", toServer[c][i].data>>]
  /\ toServer' = [toServer EXCEPT ![c] = <<>>]
  /\ client' = [client EXCEPT ![c] = "disconnected"]
  /\ step' = [step EXCEPT ![c] = "raised"] /\ error' = [error EXCEPT ![c] = "disconnect"]
  /\ UNCHANGED <<endpointVars, sending, app, toClient, peerVars, begun, openAt>>

\* ... or learns that the client has closed, and raises WebSocketDisconnect.
ReceiveDisconnect(c) ==
  /\ step[c] = "effect" /\ app[c] = "connected" /\ toServer[c] # <<>>
  /\ Head(toServer[c]).type = "disconnect"
  /\ transcript' = [transcript EXCEPT ![c].close = <<"client", Head(toServer[c]).data>>]
  /\ toServer' = [toServer EXCEPT ![c] = Tail(@)]
  /\ client' = [client EXCEPT ![c] = "disconnected"]
  /\ step' = [step EXCEPT ![c] = "raised"] /\ error' = [error EXCEPT ![c] = "disconnect"]
  /\ UNCHANGED <<endpointVars, sending, app, toClient, peerVars, begun, openAt>>

\* The side effect raises, by itself or by a receive without a connection.
Raise(c) ==
  /\ step[c] = "effect"
  /\ step' = [step EXCEPT ![c] = "raised"] /\ error' = [error EXCEPT ![c] = "other"]
  /\ UNCHANGED <<endpointVars, recorderVars, socketVars, wireVars, peerVars, begun, openAt>>

\* except Exception: an abrupt disconnect may be forgiven, everything else is kept.
HandleException(c) ==
  /\ step[c] = "raised"
  /\ IF allowAbrupt /\ error[c] = "disconnect"
     THEN step' = [step EXCEPT ![c] = "done"] /\ UNCHANGED <<pending, recorderVars>>
     ELSE pending' = TRUE /\ Say(c, "close", InternalError, "done")
  /\ error' = [error EXCEPT ![c] = None]
  /\ UNCHANGED <<allowAbrupt, contexts, socketVars, wireVars, peerVars, begun, openAt>>

\* The side effect returns a code to close with, or None.
Return(c, code) ==
  /\ step[c] = "effect"
  /\ IF code = None
     THEN step' = [step EXCEPT ![c] = "done"] /\ UNCHANGED recorderVars
     ELSE Say(c, "close", code, "done")
  /\ UNCHANGED <<endpointVars, error, socketVars, wireVars, peerVars, begun, openAt>>

Handler(c) ==
  \/ \E owned \in BOOLEAN : Begin(c, owned)
  \/ /\ c \notin Silent
     /\ \/ Accept(c) \/ ReceiveText(c) \/ ReceiveDisconnect(c)
        \/ \E data \in Payloads : Send(c, data)
        \/ \E code \in Codes : Close(c, code) \/ Return(c, code)
  \/ Return(c, None) \/ Raise(c) \/ HandleException(c)
  \/ SendReturns(c)
  \/ \E kind \in {"disconnect", "other"} : SendRaises(c, kind)

--------------------------------------------------------------------------------
(* The test thread. *)

\* capture_calls: raise_from_pending raises the exception and forgets it.
EnterCapture ==
  /\ Len(contexts) < MaxContexts
  /\ contexts' = IF pending THEN contexts ELSE Append(contexts, [open |-> TRUE, calls |-> <<>>])
  /\ pending' = FALSE
  /\ UNCHANGED <<allowAbrupt, recorderVars, handlerVars, socketVars, wireVars, peerVars, begun, openAt>>

\* The innermost context ends: its list leaves _request_captures, and then raise_from_pending.
ExitCapture ==
  /\ \E k \in DOMAIN contexts :
       /\ contexts[k].open /\ \A l \in DOMAIN contexts : l > k => ~contexts[l].open
       /\ contexts' = [contexts EXCEPT ![k].open = FALSE]
  /\ pending' = FALSE
  /\ UNCHANGED <<allowAbrupt, recorderVars, handlerVars, socketVars, wireVars, peerVars, begun, openAt>>

--------------------------------------------------------------------------------
(* The clients. *)

ClientConnects(c) ==
  /\ peer[c].state = "unborn"
  /\ peer' = [peer EXCEPT ![c].state = "connecting"]
  /\ UNCHANGED <<endpointVars, recorderVars, handlerVars, socketVars, wireVars, sawAt, begun, openAt>>

ClientGets(c) ==
  /\ peer[c].state \in {"connecting", "open"} /\ toClient[c] # <<>>
  /\ LET m == Head(toClient[c])
     IN peer' = [peer EXCEPT ![c] =
          CASE m.type = "accept" -> [@ EXCEPT !.state = "open"]
            [] m.type = "send"   -> [@ EXCEPT !.got = Append(@, Message("server", m.data))]
            [] m.type = "close"  -> [@ EXCEPT !.state = "closed", !.closed = m.data]]
  /\ toClient' = [toClient EXCEPT ![c] = Tail(@)]
  /\ UNCHANGED <<endpointVars, recorderVars, handlerVars, socketVars, toServer, sawAt, begun, openAt>>

ClientSends(c, data) ==
  /\ peer[c].state = "open" /\ Len(ServerTexts(c)) + Len(peer[c].sent) < Limit[c]
  /\ peer' = [peer EXCEPT ![c].sent = Append(@, Message("client", data))]
  /\ toServer' = [toServer EXCEPT ![c] = Append(@, [type |-> "receive", data |-> data])]
  /\ sawAt' = [sawAt EXCEPT ![c] = Append(@, Len(peer[c].got))]
  /\ UNCHANGED <<endpointVars, recorderVars, handlerVars, socketVars, toClient, begun, openAt>>

ClientCloses(c, code) ==
  /\ peer[c].state = "open"
  /\ peer' = [peer EXCEPT ![c].state = "closed"]
  /\ toServer' = [toServer EXCEPT ![c] = Append(@, [type |-> "disconnect", data |-> code])]
  /\ toClient' = [toClient EXCEPT ![c] = <<>>]       \* it reads no more
  /\ UNCHANGED <<endpointVars, recorderVars, handlerVars, socketVars, sawAt, begun, openAt>>

\* The server drops a connection whose handler has ended without a close.
ClientDropped(c) ==
  /\ peer[c].state \in {"connecting", "open"} /\ step[c] = "done" /\ toClient[c] = <<>>
  /\ peer' = [peer EXCEPT ![c].state = "closed"]
  /\ UNCHANGED <<endpointVars, recorderVars, handlerVars, socketVars, wireVars, sawAt, begun, openAt>>

Client(c) ==
  \/ ClientConnects(c) \/ ClientGets(c) \/ ClientDropped(c)
  \/ \E data \in Payloads : ClientSends(c, data)
  \/ \E code \in Codes : ClientCloses(c, code)

Next == EnterCapture \/ ExitCapture \/ \E c \in Conns : Handler(c) \/ Client(c)

Spec == Init /\ [][Next]_vars

--------------------------------------------------------------------------------
(* ExpectedWSTranscript: a pattern is a sequence of messages, whose data may be the    *)
(* Ellipsis, and that may begin and end with an Ellipsis.                              *)

AnyStart(p) == p # <<>> /\ p[1] = Ellipsis
Rest(p) == IF AnyStart(p) THEN Tail(p) ELSE p
AnyEnd(p) == Rest(p) # <<>> /\ Last(Rest(p)) = Ellipsis
Expected(p) == IF AnyEnd(p) THEN Front(Rest(p)) ELSE Rest(p)

MatchesMessage(e, m) == e.sender = m.sender /\ (e.data = Ellipsis \/ e.data = m.data)

\* (a defective variant: the last candidate is left out)
StartsShort(p, n) ==
  CASE ~AnyStart(p) -> {0}
    [] AnyStart(p) /\ ~AnyEnd(p) -> {n - Len(Expected(p))}
    [] AnyStart(p) /\ AnyEnd(p) -> {i \in 0..n : i < n - Len(Expected(p))}

\* The candidate indices, for a transcript of n messages.
Starts(p, n) ==
  CASE ~AnyStart(p) -> {0}
    [] AnyStart(p) /\ ~AnyEnd(p) -> {n - Len(Expected(p))}
    [] AnyStart(p) /\ AnyEnd(p) -> 0..(n - Len(Expected(p)))

MatchesMessages(p, messages) ==
  LET n == Len(messages) es == Expected(p)
  IN /\ ~AnyStart(p) /\ ~AnyEnd(p) => n = Len(es)
     /\ n >= Len(es)
     /\ \E s \in Starts(p, n) : \A i \in DOMAIN es : MatchesMessage(es[i], messages[s + i])

\* matches(), of a transcript: an exception if there has been no close.
Matches(p, t) ==
  IF t.close = None THEN "error"
  ELSE IF t.accepted /\ MatchesMessages(p, t.messages) THEN "passed" ELSE "raised"

\* RecordedWSTranscripts: an assertion of a list passes, raises AssertionError, or raises
\* what matches() raises; assert_any_request stops at the first that does not mismatch.
Asserted(which, p, list) ==
  CASE which = "last" /\ list # <<>>   -> Matches(p, Last(list))
    [] which = "once" /\ Len(list) = 1 -> Matches(p, list[1])
    [] which = "any" ->
         LET telling == {i \in DOMAIN list : Matches(p, list[i]) # "raised"}
         IN IF telling = {} THEN "raised" ELSE Matches(p, list[Min(telling)])
    [] OTHER -> "raised"

--------------------------------------------------------------------------------
(***************************************************************************)
(* Properties                                                              *)
(***************************************************************************)

\* Whatever a client has seen of the server, the transcript holds: the accept, the messages
\* in the order they were sent, and that there was a close.  So a test may look at the
\* transcript as soon as its client has an answer.  The messages of the client are there in
\* the order it sent them, each behind those of the server it had got by then.
CausalOrder ==
  \A c \in Conns :
    /\ IsPrefix(peer[c].got, ServerTexts(c))
    /\ peer[c].state = "open" => transcript[c].accepted
    /\ peer[c].closed # None => transcript[c].close # None
    /\ IsPrefix(ClientTexts(c), peer[c].sent)
    /\ LET of(sender) == From(transcript[c].messages, sender)
       IN \A i \in of("client") : Rank(of("server"), i) >= sawAt[c][Rank(of("client"), i)]

\* A transcript that the client closed holds all that the client sent.
NothingMissingBeforeClose ==
  \A c \in Conns :
    transcript[c].close # None /\ transcript[c].close[1] = "client" =>
      ClientTexts(c) = peer[c].sent

\* The list of a capture holds the connections that began while it was open, in the order
\* that they began, although they are still talking and end in any order.
CallsInOrderBegun ==
  \A k \in DOMAIN contexts :
    contexts[k].calls = Among(begun, {i \in DOMAIN begun : k \in openAt[begun[i]]})

\* A pattern matches a transcript with a close if its messages, without the Ellipsis, match
\* a part of it, before and after which there is something only where it has an Ellipsis.
\* An assertion on the list of a capture that passes is true of the accepted connections
\* in it, and one that raises AssertionError is false, even while connections still talk; it
\* has no answer only as long as one of them has no close.
Placed(p, messages) ==
  LET core == Among(p, {i \in DOMAIN p : p[i] # Ellipsis})
  IN \E a \in 0..(Len(messages) - Len(core)) : LET b == a + Len(core) IN
       /\ a > 0 => p # <<>> /\ p[1] = Ellipsis
       /\ b < Len(messages) => p # <<>> /\ p[Len(p)] = Ellipsis
       /\ \A i \in DOMAIN core : MatchesMessage(core[i], messages[a + i])
Described(p, c) == transcript[c].accepted /\ Placed(p, transcript[c].messages)
MatchedAsPlaced ==
  /\ \A c \in Conns : transcript[c].close # None =>
       \A p \in Patterns : Matches(p, transcript[c]) = "passed" <=> Described(p, c)
  /\ \A k \in DOMAIN contexts :
       LET calls == contexts[k].calls
           done == {c \in Range(calls) : transcript[c].close # None}
           claim(which, of) == CASE which = "any"  -> of # {}
                                 [] which = "once" -> Len(calls) = 1 /\ calls[1] \in of
                                 [] which = "last" -> calls # <<>> /\ Last(calls) \in of
       IN done # {} => \A p \in Patterns :
            LET of == {c \in Range(calls) : Described(p, c)}
            IN \A which \in {"any", "once", "last"} :
                 LET answer == Asserted(which, p, [i \in DOMAIN calls |-> transcript[calls[i]]])
                 IN /\ answer = "passed" => claim(which, of)
                    /\ answer = "raised" => ~claim(which, of)
                    /\ answer = "error" => done # Range(calls)
==============================================================================
