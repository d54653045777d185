------------------------------ MODULE Logstash -------------------------------
(***************************************************************************)
(* yellowbox.extras.logstash.FakeLogstashService: a background thread that *)
(* waits in a selector for connections, for data on them and for the byte  *)
(* with which stop() wakes it, and appends each line it gets to records.   *)
(*                                                                         *)
(* Three kinds of actors: the test (start, stop, assignments to            *)
(* delimiter), the clients (connect, send, close, reset) and the thread.   *)
(* One event of a select is one step of the thread: what comes in while    *)
(* the thread handles an event is not seen before its next read of that    *)
(* socket, so the handler is one step for the clients.                     *)
(***************************************************************************)
EXTENDS Framing, SequencesExt

CONSTANTS
  Conns,             \* connections
  Bytes,             \* what streams are made of
  Streams,           \* Streams[c]: the streams of bytes the client of c may send
  Records,           \* the lines that json.loads takes
  Delimiters,        \* the delimiters the test may choose
  InitialDelimiter,  \* b"\n"
  RecvSize,          \* the most one recv returns: 1024
  MaxWakes,          \* bound on the unread bytes of repeated stop() calls
  None

ASSUME LogstashAssumption ==
  /\ InitialDelimiter \in Delimiters
  /\ \A d \in Delimiters : d \in Seq(Bytes) /\ d # <<>>
  /\ \A c \in Conns : Streams[c] \subseteq Seq(Bytes)
  /\ RecvSize \in Nat \ {0}
  /\ MaxWakes \in Nat
  /\ None \notin Delimiters \cup Conns /\ {"root", "rshutdown"} \cap Conns = {}

VARIABLES
  (* the service *)
  records,    \* records, each with the connection it came on
  delimiter,  \* self.delimiter
  thread,     \* "unstarted", "running", "exited" (returned) or "dead" (raised)
  batch,      \* the ready keys of the last select that are still to be handled
  wakes,      \* the bytes in the shutdown socket pair
  stopping,   \* a test is in stop(), at the join
  (* a connection, on the side of the service *)
  conn,       \* "none", "registered", "unregistered" or "closed"
  cut,        \* the delimiter its callback was created with
  taken,      \* how many bytes recv has returned
  partial,    \* b"".join(partial_chunks)
  (* ... and on the side of the client *)
  client,     \* "unborn", "open", "finished" (FIN sent) or "reset" (RST sent)
  sent        \* what it has sent

serviceVars == <<records, delimiter, thread, batch, wakes, stopping>>
connVars == <<conn, cut, taken, partial>>
clientVars == <<client, sent>>
vars == <<serviceVars, connVars, clientVars>>

Init ==
  /\ records = <<>>
  /\ delimiter = InitialDelimiter
  /\ thread = "unstarted"
  /\ batch = {}
  /\ wakes = 0
  /\ stopping = FALSE
  /\ conn = [c \in Conns |-> "none"]
  /\ cut = [c \in Conns |-> None]
  /\ taken = [c \in Conns |-> 0]
  /\ partial = [c \in Conns |-> <<>>]
  /\ client = [c \in Conns |-> "unborn"]
  /\ sent = [c \in Conns |-> <<>>]

--------------------------------------------------------------------------------
(* The clients. *)

\* The socket listens from start() on.  What clients do after the thread is over
\* changes nothing of the service, and is left out.
Connect(c) ==
  /\ client[c] = "unborn"
  /\ client' = [client EXCEPT ![c] = "open"]
  /\ UNCHANGED <<serviceVars, connVars, sent>>

Send(c) ==
  /\ client[c] = "open"
  /\ \E s \in Streams[c] :
       /\ Len(sent[c]) < Len(s) /\ SubSeq(s, 1, Len(sent[c])) = sent[c]
       /\ sent' = [sent EXCEPT ![c] = Append(@, s[Len(@) + 1])]
  /\ UNCHANGED <<serviceVars, connVars, client>>

Finish(c) ==
  /\ client[c] = "open"
  /\ client' = [client EXCEPT ![c] = "finished"]
  /\ UNCHANGED <<serviceVars, connVars, sent>>

Reset(c) ==
  /\ client[c] = "open"
  /\ client' = [client EXCEPT ![c] = "reset"]
  /\ UNCHANGED <<serviceVars, connVars, sent>>

--------------------------------------------------------------------------------
(* The background thread. *)

Unread(c) == Len(sent[c]) - taken[c]
Waiting == {c \in Conns : client[c] # "unborn" /\ conn[c] = "none"}
Ready ==
  {c \in Conns : conn[c] = "registered" /\ (Unread(c) > 0 \/ client[c] \in {"finished", "reset"})}
  \cup {k \in {"root"} : Waiting # {}}
  \cup {k \in {"rshutdown"} : wakes > 0}

\* (a defective variant: a pending shutdown is not among the events)
SelectConnectionsOnly ==
  /\ thread = "running" /\ batch = {}
  /\ Ready \ {"rshutdown"} # {}
  /\ batch' = Ready \ {"rshutdown"}
  /\ UNCHANGED <<records, delimiter, thread, wakes, stopping, connVars, clientVars>>

\* select(): every ready key, to be handled in an order the kernel chooses.  A select
\* that times out returns none and is repeated.
Select ==
  /\ thread = "running" /\ batch = {}
  /\ Ready # {}
  /\ batch' = Ready
  /\ UNCHANGED <<records, delimiter, thread, wakes, stopping, connVars, clientVars>>

Handles(key) == thread = "running" /\ key \in batch

\* The byte of stop(): the thread returns, with the rest of the events unhandled.
HandleWake ==
  /\ Handles("rshutdown")
  /\ wakes' = wakes - 1
  /\ thread' = "exited"
  /\ batch' = {}
  /\ UNCHANGED <<records, delimiter, stopping, connVars, clientVars>>

\* accept(): the callback keeps the delimiter of this moment.
Accept(c) ==
  /\ Handles("root") /\ c \in Waiting
  /\ batch' = batch \ {"root"}
  /\ conn' = [conn EXCEPT ![c] = "registered"]
  /\ cut' = [cut EXCEPT ![c] = delimiter]
  /\ UNCHANGED <<records, delimiter, thread, wakes, stopping, taken, partial, clientVars>>

\* recv returns what has come in, RecvSize bytes at most, also after a reset.
Chunk(c) == SubSeq(sent[c], taken[c] + 1, Min({Len(sent[c]), taken[c] + RecvSize}))
\* The lines the chunk completes, the first with the partial chunks before it ...
LinesOf(c) ==
  LET pieces == Split(Chunk(c), cut[c])
  IN IF Len(pieces) = 1 THEN <<>> ELSE <<partial[c] \o Head(pieces)>> \o Tail(Front(pieces))
\* ... and what the next one has to complete.
Rest(c) ==
  LET pieces == Split(Chunk(c), cut[c])
  IN IF Len(pieces) = 1 THEN partial[c] \o Head(pieces) ELSE Last(pieces)

HasBadLine(c) == \E line \in Range(LinesOf(c)) : line \notin Records

Tagged(c, lines) == [i \in DOMAIN lines |-> [conn |-> c, line |-> lines[i]]]

\* What recv and the parsing do in every case.
Receive(c) ==
  /\ batch' = batch \ {c}
  /\ taken' = [taken EXCEPT ![c] = @ + Len(Chunk(c))]
  /\ records' = records \o Tagged(c, GoodPrefix(LinesOf(c), Records))
  /\ UNCHANGED <<delimiter, wakes, stopping, cut, clientVars>>

\* (a defective variant: the partial chunks are joined and kept)
ReceiveLinesKeepingPartial(c) ==
  /\ Handles(c) /\ Unread(c) > 0 /\ ~HasBadLine(c)
  /\ Receive(c)
  /\ partial' = [partial EXCEPT ![c] = @ \o Rest(c)]
  /\ UNCHANGED <<thread, conn>>

ReceiveLines(c) ==
  /\ Handles(c) /\ Unread(c) > 0 /\ ~HasBadLine(c)
  /\ Receive(c)
  /\ partial' = [partial EXCEPT ![c] = Rest(c)]
  /\ UNCHANGED <<thread, conn>>

\* (a defective variant: the exception goes on to the handler of the thread, whose
\* unregister raises on a socket that is unregistered already)
ReceiveBadLineReraising(c) ==
  /\ Handles(c) /\ Unread(c) > 0 /\ HasBadLine(c)
  /\ Receive(c)
  /\ partial' = [partial EXCEPT ![c] = Rest(c)]
  /\ thread' = "dead" /\ conn' = [conn EXCEPT ![c] = "closed"]

\* A line that is not a record: the socket is unregistered, shut down and closed, by
\* the callback (bad json) or by the thread (bytes the encoding cannot decode).  The
\* shutdown of a socket whose client has reset it raises OSError; in the callback that
\* leads to a second unregister, which raises KeyError.  Both end the thread.
ReceiveBadLine(c) ==
  /\ Handles(c) /\ Unread(c) > 0 /\ HasBadLine(c)
  /\ Receive(c)
  /\ partial' = [partial EXCEPT ![c] = Rest(c)]
  /\ IF client[c] = "reset"
     THEN thread' = "dead" /\ conn' = [conn EXCEPT ![c] = "unregistered"]
     ELSE conn' = [conn EXCEPT ![c] = "closed"] /\ UNCHANGED thread

\* (a defective variant: a client that has closed is left with bytes unread)
ReceiveEndAtClose(c) ==
  /\ Handles(c) /\ client[c] = "finished"
  /\ batch' = batch \ {c}
  /\ conn' = [conn EXCEPT ![c] = "unregistered"]
  /\ UNCHANGED <<records, delimiter, thread, wakes, stopping, cut, taken, partial, clientVars>>

\* recv returns nothing: the client has closed.  A partial line is dropped.
ReceiveEnd(c) ==
  /\ Handles(c) /\ Unread(c) = 0 /\ client[c] = "finished"
  /\ batch' = batch \ {c}
  /\ conn' = [conn EXCEPT ![c] = "unregistered"]
  /\ UNCHANGED <<records, delimiter, thread, wakes, stopping, cut, taken, partial, clientVars>>

\* recv raises ConnectionResetError; the handler of the thread unregisters the socket,
\* and its shutdown raises OSError out of the thread.
ReceiveReset(c) ==
  /\ Handles(c) /\ Unread(c) = 0 /\ client[c] = "reset"
  /\ batch' = batch \ {c}
  /\ conn' = [conn EXCEPT ![c] = "unregistered"]
  /\ thread' = "dead"
  /\ UNCHANGED <<records, delimiter, wakes, stopping, cut, taken, partial, clientVars>>

Background ==
  \/ Select \/ HandleWake
  \/ \E c \in Conns : Accept(c) \/ ReceiveLines(c) \/ ReceiveBadLine(c) \/ ReceiveEnd(c) \/ ReceiveReset(c)

--------------------------------------------------------------------------------
(* The test. *)

\* A second start() raises at the first register, and after stop() at listen.
Start ==
  /\ thread = "unstarted"
  /\ thread' = "running"
  /\ UNCHANGED <<records, delimiter, batch, wakes, stopping, connVars, clientVars>>

SetDelimiter(d) ==
  /\ ~stopping /\ thread \in {"unstarted", "running"}
  /\ delimiter' = d
  /\ UNCHANGED <<records, thread, batch, wakes, stopping, connVars, clientVars>>

\* stop() of a thread that is not alive returns at once.
Stop ==
  /\ ~stopping /\ thread = "running" /\ wakes < MaxWakes
  /\ wakes' = wakes + 1
  /\ stopping' = TRUE
  /\ UNCHANGED <<records, delimiter, thread, batch, connVars, clientVars>>

\* The join returns as the thread is over: stop() closes what is still registered.
JoinReturns ==
  /\ stopping /\ thread \in {"exited", "dead"}
  /\ stopping' = FALSE
  /\ conn' = [c \in Conns |-> IF conn[c] = "registered" THEN "closed" ELSE conn[c]]
  /\ UNCHANGED <<records, delimiter, thread, batch, wakes, cut, taken, partial, clientVars>>

\* The join times out: stop() raises and leaves everything as it is.
JoinTimesOut ==
  /\ stopping /\ thread = "running"
  /\ stopping' = FALSE
  /\ UNCHANGED <<records, delimiter, thread, batch, wakes, connVars, clientVars>>

Next ==
  \/ Start \/ Stop \/ JoinReturns \/ JoinTimesOut
  \/ \E d \in Delimiters : SetDelimiter(d)
  \/ thread = "running" /\ \E c \in Conns : Connect(c) \/ Send(c) \/ Finish(c) \/ Reset(c)
  \/ Background

Spec == Init /\ [][Next]_vars

\* CPython schedules the thread, and a join returns once the thread it waits for is over.
Fairness == WF_vars(Background) /\ WF_vars(JoinReturns)
FairSpec == Spec /\ Fairness

--------------------------------------------------------------------------------
(***************************************************************************)
(* Properties                                                              *)
(***************************************************************************)

\* The service keeps the promise of its records: what a connection adds to them is
\* what its stream says, however the stream is broken into reads, whatever other
\* connections, stop() and assignments to the delimiter come in between.
Promise == INSTANCE LogstashRecords WITH records <- records, sent <- sent, taken <- taken, cut <- cut
RecordsAsPromised == Promise!Spec

\* The thread that serves all connections does not die of what a client sends or of a
\* client that closes: only a connection reset by its client can end it.
DiesOnlyByReset == thread = "dead" => \E c \in Conns : client[c] = "reset"

\* What a client has sent is taken, and with it the records it completes, also when the
\* client closes at once or other clients keep sending, unless the connection was closed
\* for a line that is not a record or the thread is over.
EverythingTaken ==
  \A c \in Conns :
    Unread(c) > 0 ~> Unread(c) = 0 \/ conn[c] = "closed" \/ thread \in {"exited", "dead"}

\* stop() returns without its timeout, whatever the clients are sending.
StopReturns == stopping ~> ~stopping

\* logstash.py:209, the handler of the thread: "Unknown error occurred, closing
\* connection."  The error of a reset connection closes the whole service: the shutdown
\* in the handler raises as well.
ServerStillWorks == thread # "dead"
================================================================================
