--------------------------- MODULE LogstashRecords ---------------------------
(***************************************************************************)
(* What FakeLogstashService promises of its records.  A connection is cut  *)
(* at the delimiter it was accepted with.  Whatever part of its stream the *)
(* service has taken, its records are the lines of that part, in order and *)
(* once each, up to the first line that is not a record; after that one    *)
(* the service takes nothing more from it.  How the stream is broken into  *)
(* reads makes no difference.                                              *)
(***************************************************************************)
EXTENDS Framing

CONSTANTS
  Conns,       \* connections
  Delimiters,  \* the delimiters a service may have
  Records,     \* the lines that are json
  None

VARIABLES
  records,  \* the records received, each with its connection
  sent,     \* sent[c]: the stream of c, as far as the client has sent it
  taken,    \* how much of it the service has taken
  cut       \* the delimiter of c, None before it is accepted

vars == <<records, sent, taken, cut>>

LinesTaken(c, n) == Lines(SubSeq(sent[c], 1, n), cut[c])
RecordsTaken(c, n) == GoodPrefix(LinesTaken(c, n), Records)
Tagged(c, lines) == [i \in DOMAIN lines |-> [conn |-> c, line |-> lines[i]]]

Init ==
  /\ records = <<>>
  /\ sent = [c \in Conns |-> <<>>]
  /\ taken = [c \in Conns |-> 0]
  /\ cut = [c \in Conns |-> None]

\* The client sends a part of its stream.
Send(c) ==
  /\ Len(sent'[c]) > Len(sent[c])
  /\ SubSeq(sent'[c], 1, Len(sent[c])) = sent[c]
  /\ \A b \in Conns \ {c} : sent'[b] = sent[b]
  /\ UNCHANGED <<records, taken, cut>>

Accept(c) ==
  /\ cut[c] = None
  /\ \E d \in Delimiters : cut' = [cut EXCEPT ![c] = d]
  /\ UNCHANGED <<records, sent, taken>>

\* The service takes a part of the stream, with every record it completes.
Take(c) ==
  /\ cut[c] # None
  /\ RecordsTaken(c, taken[c]) = LinesTaken(c, taken[c])
  /\ \E n \in (taken[c] + 1)..Len(sent[c]) :
       /\ taken' = [taken EXCEPT ![c] = n]
       /\ LET before == RecordsTaken(c, taken[c])
              after == RecordsTaken(c, n)
          IN records' = records \o Tagged(c, SubSeq(after, Len(before) + 1, Len(after)))
  /\ UNCHANGED <<sent, cut>>

Next == \E c \in Conns : Send(c) \/ Accept(c) \/ Take(c)

Spec == Init /\ [][Next]_vars
==============================================================================
