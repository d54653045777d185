--------------------------- MODULE WebsocketProofs ---------------------------
(***************************************************************************)
(* Transcripts of websockets, for every number of connections, messages    *)
(* and captures: what a transcript holds while the messages are on their   *)
(* way, the list of a capture, and what patterns and assertions make of    *)
(* them.                                                                   *)
(***************************************************************************)
EXTENDS Websocket, SubsequenceProofs

(***************************************************************************)
(* Prefixes                                                                *)
(***************************************************************************)
LEMMA PrefixByElements ==
  ASSUME NEW X, NEW s \in Seq(X), NEW t \in Seq(X), Len(s) <= Len(t),
         \A k \in 1..Len(s) : s[k] = t[k]
  PROVE  IsPrefix(s, t)
<1>1. Len(s) \in Nat /\ Len(t) \in Nat
  BY LenProperties
<1>2. SubSeq(s, 1, Len(s)) = s
  BY SubSeqFull
<1>3. \A k \in 1..Len(s) : t[k] \in X
  BY <1>1, ElementOfSeq
<1>4. /\ SubSeq(t, 1, Len(s)) \in Seq(X) /\ Len(SubSeq(t, 1, Len(s))) = Len(s)
      /\ \A k \in 1..Len(s) : SubSeq(t, 1, Len(s))[k] = t[k]
  BY <1>1, <1>3, SubSeqProperties
<1>5. SubSeq(t, 1, Len(s)) = s
  BY <1>4, SeqEqual
<1> QED
  BY <1>2, <1>5 DEF IsPrefix

(***************************************************************************)
(* The invariant                                                           *)
(***************************************************************************)
Recorded == [sender : {"server", "client"}, data : Payloads]
Closes == {"server", "client"} \X Codes

Transcripts ==
  [messages : Seq(Recorded), accepted : BOOLEAN, close : {None} \cup Closes]

\* What goes to the client, what comes from it, and what is in super().send.
Down == [type : {"accept"}, data : {None}] \cup [type : {"send"}, data : Payloads]
          \cup [type : {"close"}, data : Codes]
Up == [type : {"receive"}, data : Payloads] \cup [type : {"disconnect"}, data : Codes]
Going == [type : {"accept"}, data : {None}, after : {"effect"}]
           \cup [type : {"send"}, data : Payloads, after : {"effect"}]
           \cup [type : {"close"}, data : Codes, after : {"effect", "done"}]

Peers == [state : {"unborn", "connecting", "open", "closed"}, sent : Seq(Recorded),
          got : Seq(Recorded), closed : {None} \cup Codes]

\* Types of what moves in a conversation.
TalkTypes ==
  /\ transcript \in [Conns -> Transcripts]
  /\ step \in [Conns -> {"new", "effect", "send", "raised", "done"}]
  /\ sending \in [Conns -> {None} \cup Going]
  /\ \A c \in Conns : step[c] = "send" => sending[c] \in Going
  /\ app \in [Conns -> {"connecting", "connected", "disconnected"}]
  /\ toClient \in [Conns -> Seq(Down)] /\ toServer \in [Conns -> Seq(Up)]
  /\ peer \in [Conns -> Peers]
  /\ sawAt \in [Conns -> Seq(Nat)]

\* A message of the transcript that super().send has not put on the wire yet.
InFlight(c) == IF step[c] = "send" /\ sending[c].type = "send" THEN 1 ELSE 0
\* The messages on the way to a client begin with the accept, if it is among them.
Opening(c) == IF toClient[c] # <<>> /\ toClient[c][1].type = "accept" THEN 1 ELSE 0

\* From the server to the client: the client has got the first messages of the transcript,
\* those on their way are the next, and as long as the server may send there are no others.
Downward(c) ==
  /\ Len(peer[c].got) <= Len(ServerTexts(c))
  /\ \A k \in 1..Len(peer[c].got) : peer[c].got[k] = ServerTexts(c)[k]
  /\ \A i \in DOMAIN toClient[c] : toClient[c][i].type = "send" =>
       LET k == Len(peer[c].got) + i - Opening(c)
       IN k <= Len(ServerTexts(c)) /\ ServerTexts(c)[k] = Message("server", toClient[c][i].data)
  /\ app[c] # "disconnected" /\ peer[c].state # "closed" =>
       Len(ServerTexts(c)) = Len(peer[c].got) + Len(toClient[c]) - Opening(c) + InFlight(c)
  /\ InFlight(c) = 1 =>
       /\ ServerTexts(c) # <<>>
       /\ ServerTexts(c)[Len(ServerTexts(c))] = Message("server", sending[c].data)

\* The accept comes first and the close last, and the transcript has them before.
Framed(c) ==
  /\ step[c] # "new" => peer[c].state # "unborn"
  /\ app[c] = "connecting" => toClient[c] = <<>> /\ peer[c].state # "open"
  /\ peer[c].state = "unborn" => app[c] = "connecting"
  /\ peer[c].state = "closed" => toClient[c] = <<>>
  /\ \A i \in DOMAIN toClient[c] :
       /\ toClient[c][i].type = "accept" =>
            i = 1 /\ peer[c].state = "connecting" /\ transcript[c].accepted
       /\ toClient[c][i].type = "close" =>
            i = Len(toClient[c]) /\ app[c] = "disconnected" /\ transcript[c].close # None
  /\ step[c] = "send" /\ sending[c].type = "accept" => transcript[c].accepted
  /\ step[c] = "send" /\ sending[c].type = "close" => transcript[c].close # None
  /\ peer[c].state = "open" => transcript[c].accepted
  /\ peer[c].closed # None => transcript[c].close # None

\* From the client to the server: the transcript has the first messages of the client, and
\* the others are on their way, before the disconnect.
Upward(c) ==
  LET n == Len(ClientTexts(c)) sent == peer[c].sent
  IN /\ n <= Len(sent)
     /\ \A k \in 1..n : ClientTexts(c)[k] = sent[k]
     /\ \A i \in DOMAIN toServer[c] :
          /\ toServer[c][i].type = "receive" =>
               n + i <= Len(sent) /\ sent[n + i] = Message("client", toServer[c][i].data)
          /\ toServer[c][i].type = "disconnect" =>
               i = Len(toServer[c]) /\ peer[c].state = "closed" /\ Len(sent) = n + i - 1
     /\ peer[c].state # "closed" => Len(sent) = n + Len(toServer[c])
     /\ transcript[c].close # None /\ transcript[c].close[1] = "client" =>
          peer[c].state = "closed" /\ toServer[c] = <<>> /\ n = Len(sent)

\* What a client had got when it sent a message is in the transcript before that message.
Seen(c) ==
  /\ Len(sawAt[c]) = Len(peer[c].sent)
  /\ \A k \in 1..Len(sawAt[c]) : sawAt[c][k] <= Len(peer[c].got)
  /\ LET of(sender) == From(transcript[c].messages, sender)
     IN \A i \in of("client") : Rank(of("server"), i) >= sawAt[c][Rank(of("client"), i)]

Talk(c) == Downward(c) /\ Framed(c) /\ Upward(c) /\ Seen(c)
TalkInv == TalkTypes /\ \A c \in Conns : Talk(c)

\* The lists of the captures.
ListInv ==
  /\ contexts \in Seq([open : BOOLEAN, calls : Seq(Conns)])
  /\ begun \in Seq(Conns) /\ \A i \in DOMAIN begun : step[begun[i]] # "new"
  /\ openAt \in [Conns -> SUBSET Nat] /\ \A c \in Conns : openAt[c] \subseteq DOMAIN contexts
  /\ CallsInOrderBegun

--------------------------------------------------------------------------------
(***************************************************************************)
(* The texts of a transcript                                               *)
(***************************************************************************)
LEMMA FromType ==
  ASSUME NEW ms \in Seq(Recorded), NEW who
  PROVE  /\ From(ms, who) \in SUBSET (1..Len(ms))
         /\ IsFiniteSet(From(ms, who)) /\ From(ms, who) \subseteq Nat
         /\ Texts(ms, who) \in Seq(Recorded)
         /\ Len(Texts(ms, who)) = Cardinality(From(ms, who))
<1>1. From(ms, who) \in SUBSET (1..Len(ms)) /\ Len(ms) \in Nat
  BY LenProperties DEF From
<1>2. IsFiniteSet(1..Len(ms))
  BY <1>1, FS_Interval
<1>3. IsFiniteSet(From(ms, who))
  BY <1>1, <1>2, FS_Subset
<1>4. From(ms, who) \subseteq Nat
  BY <1>1
<1>5. \A i \in From(ms, who) : ms[i] \in Recorded
  BY <1>1, ElementOfSeq
<1> QED
  BY <1>1, <1>3, <1>4, <1>5, AmongType DEF Texts

\* A new message is the last of its sender.
LEMMA TextsAppend ==
  ASSUME NEW ms \in Seq(Recorded), NEW m \in Recorded, NEW who
  PROVE  /\ From(Append(ms, m), who) =
              IF m.sender = who THEN From(ms, who) \cup {Len(ms) + 1} ELSE From(ms, who)
         /\ Texts(Append(ms, m), who) =
              IF m.sender = who THEN Append(Texts(ms, who), m) ELSE Texts(ms, who)
<1> DEFINE n == Len(ms) + 1
           t == Append(ms, m)
<1>1. /\ Len(ms) \in Nat /\ DOMAIN ms = 1..Len(ms)
      /\ t \in Seq(Recorded) /\ Len(t) = n /\ DOMAIN t = 1..n
      /\ \A i \in 1..Len(ms) : t[i] = ms[i]
      /\ t[n] = m
  BY LenProperties, AppendProperties
<1> HIDE DEF t
<1>2. From(t, who) = IF m.sender = who THEN From(ms, who) \cup {n} ELSE From(ms, who)
  <2>1. 1..n = 1..Len(ms) \cup {n} /\ n \notin 1..Len(ms)
    BY <1>1
  <2> QED
    BY <1>1, <2>1 DEF From
<1>3. From(ms, who) \in SUBSET (1..Len(ms))
  BY FromType
<1>4. CASE m.sender = who
  BY <1>2, <1>3, <1>4, AmongAppend DEF Texts, t
<1>5. CASE m.sender # who
  BY <1>2, <1>3, <1>5, AmongAppendOther DEF Texts, t
<1> QED
  BY <1>2, <1>4, <1>5 DEF t

\* The ranks of the messages that were there stay as they were.
LEMMA RankAppend ==
  ASSUME NEW ms \in Seq(Recorded), NEW m \in Recorded, NEW who, NEW i \in 1..Len(ms)
  PROVE  Rank(From(Append(ms, m), who), i) = Rank(From(ms, who), i)
<1>1. Len(ms) \in Nat
  BY LenProperties
<1>2. ~(Len(ms) + 1 <= i)
  BY <1>1
<1>3. {j \in From(Append(ms, m), who) : j <= i} = {j \in From(ms, who) : j <= i}
  BY <1>2, TextsAppend
<1> QED
  BY <1>3 DEF Rank

\* The rank of the last message is the number of those of its sender.
LEMMA RankOfLast ==
  ASSUME NEW ms \in Seq(Recorded), NEW who, NEW i \in Nat, Len(ms) <= i
  PROVE  Rank(From(ms, who), i) = Len(Texts(ms, who))
<1>1. \A j \in From(ms, who) : j <= i
  BY FromType, LenProperties
<1>2. {j \in From(ms, who) : j <= i} = From(ms, who)
  BY <1>1
<1> QED
  BY <1>2, FromType DEF Rank

--------------------------------------------------------------------------------
(***************************************************************************)
(* Steps of a conversation                                                 *)
(***************************************************************************)

\* What Talk(c) depends on stays as it was.
Aside(c) ==
  /\ transcript'[c] = transcript[c] /\ step'[c] = step[c] /\ sending'[c] = sending[c]
  /\ app'[c] = app[c] /\ toServer'[c] = toServer[c] /\ toClient'[c] = toClient[c]
  /\ peer'[c] = peer[c] /\ sawAt'[c] = sawAt[c]

LEMMA TalkAside ==
  ASSUME NEW c \in Conns, Talk(c), Aside(c)
  PROVE  Talk(c)'
<1>1. ServerTexts(c)' = ServerTexts(c) /\ ClientTexts(c)' = ClientTexts(c)
  BY DEF Aside, ServerTexts, ClientTexts
<1>2. InFlight(c)' = InFlight(c) /\ Opening(c)' = Opening(c)
  BY DEF Aside, InFlight, Opening
<1>3. Downward(c)'
  BY <1>1, <1>2 DEF Talk, Downward, Aside
<1>4. Framed(c)'
  BY DEF Talk, Framed, Aside
<1>5. Upward(c)'
  BY <1>1 DEF Talk, Upward, Aside
<1>6. Seen(c)'
  BY DEF Talk, Seen, Aside
<1> QED
  BY <1>3, <1>4, <1>5, <1>6 DEF Talk

\* The parts of the state of one connection, by their types.
LEMMA TalkTypesAt ==
  ASSUME TalkTypes, NEW c \in Conns
  PROVE  /\ transcript[c].messages \in Seq(Recorded)
         /\ ServerTexts(c) \in Seq(Recorded) /\ Len(ServerTexts(c)) \in Nat
         /\ ClientTexts(c) \in Seq(Recorded) /\ Len(ClientTexts(c)) \in Nat
         /\ toClient[c] \in Seq(Down) /\ Len(toClient[c]) \in Nat
         /\ DOMAIN toClient[c] = 1..Len(toClient[c])
         /\ toServer[c] \in Seq(Up) /\ Len(toServer[c]) \in Nat
         /\ DOMAIN toServer[c] = 1..Len(toServer[c])
         /\ peer[c].got \in Seq(Recorded) /\ Len(peer[c].got) \in Nat
         /\ peer[c].sent \in Seq(Recorded) /\ Len(peer[c].sent) \in Nat
         /\ sawAt[c] \in Seq(Nat) /\ Len(sawAt[c]) \in Nat
         /\ Opening(c) \in {0, 1} /\ InFlight(c) \in {0, 1}
<1>1. transcript[c].messages \in Seq(Recorded)
  BY DEF TalkTypes, Transcripts
<1>2. toClient[c] \in Seq(Down) /\ toServer[c] \in Seq(Up) /\ sawAt[c] \in Seq(Nat)
  BY DEF TalkTypes
<1>3. peer[c].got \in Seq(Recorded) /\ peer[c].sent \in Seq(Recorded)
  BY DEF TalkTypes, Peers
<1>4. ServerTexts(c) \in Seq(Recorded) /\ ClientTexts(c) \in Seq(Recorded)
  BY <1>1, FromType DEF ServerTexts, ClientTexts
<1>5. Opening(c) \in {0, 1} /\ InFlight(c) \in {0, 1}
  BY DEF Opening, InFlight
<1> QED
  BY <1>1, <1>2, <1>3, <1>4, <1>5, LenProperties

\* A text on its way stands behind the accept.
LEMMA SendBehindAccept ==
  ASSUME TalkTypes, NEW c \in Conns, NEW i \in DOMAIN toClient[c], toClient[c][i].type = "send"
  PROVE  i - Opening(c) >= 1
<1>1. i \in Nat /\ i >= 1 /\ (i = 1 => Opening(c) = 0)
  BY TalkTypesAt DEF Opening
<1> QED
  BY <1>1, TalkTypesAt

\* A message of the server is noted and goes to super().send.
LEMMA TalkSay ==
  ASSUME TalkInv, NEW c \in Conns, step[c] # "send", peer[c].state # "unborn",
         NEW type, NEW data, NEW after, [type |-> type, data |-> data, after |-> after] \in Going,
         Say(c, type, data, after), UNCHANGED <<app, wireVars, peerVars>>
  PROVE  TalkInv'
<1> DEFINE g == [type |-> type, data |-> data, after |-> after]
           t == transcript[c]
           m == Message("server", data)
<1>1. TalkTypes /\ Talk(c)
  BY DEF TalkInv
<1>2. t \in Transcripts
  BY <1>1 DEF TalkTypes
<1>3. type \in {"accept", "send", "close"} /\ after \in {"effect", "done"}
  BY DEF Going
<1>4. \/ type = "accept" /\ transcript'[c] = [t EXCEPT !.accepted = TRUE]
      \/ type = "close" /\ data \in Codes /\ transcript'[c] = [t EXCEPT !.close = <<"server", data>>]
      \/ /\ type = "send" /\ m \in Recorded
         /\ transcript'[c] = [t EXCEPT !.messages = Append(@, m)]
  BY <1>1, <1>3 DEF Say, Noted, Going, TalkTypes, Message, Recorded
<1>5. /\ step' = [step EXCEPT ![c] = "send"] /\ sending' = [sending EXCEPT ![c] = g]
      /\ transcript' = [transcript EXCEPT ![c] = transcript'[c]]
      /\ app' = app /\ toServer' = toServer /\ toClient' = toClient
      /\ peer' = peer /\ sawAt' = sawAt
  BY <1>1 DEF Say, wireVars, peerVars, TalkTypes
<1>6. transcript'[c] \in Transcripts
  <2>1. type = "accept" => transcript'[c] \in Transcripts
    BY <1>2, <1>4 DEF Transcripts
  <2>2. type = "close" => transcript'[c] \in Transcripts
    BY <1>2, <1>4 DEF Transcripts, Closes
  <2>3. ASSUME type = "send" PROVE transcript'[c] \in Transcripts
    <3>1. t.messages \in Seq(Recorded) /\ m \in Recorded
      BY <1>2, <1>4, <2>3 DEF Transcripts
    <3>2. Append(t.messages, m) \in Seq(Recorded)
      BY <3>1, AppendProperties
    <3>3. transcript'[c] = [t EXCEPT !.messages = Append(t.messages, m)]
      BY <1>4, <2>3
    <3> QED
      BY <1>2, <3>2, <3>3 DEF Transcripts
  <2> QED
    BY <1>3, <2>1, <2>2, <2>3
<1>7. TalkTypes'
  BY <1>1, <1>5, <1>6 DEF TalkTypes
<1>8. ASSUME NEW d \in Conns, d # c PROVE Talk(d)'
  BY <1>1, <1>5, <1>8, TalkAside DEF TalkInv, TalkTypes, Aside
<1>9. step'[c] = "send" /\ sending'[c] = g
  BY <1>1, <1>5 DEF TalkTypes
<1>10. InFlight(c) = 0 /\ Opening(c)' = Opening(c)
  BY <1>5 DEF InFlight, Opening
<1>11. ASSUME type # "send" PROVE Talk(c)'
  <2>1. transcript'[c].messages = t.messages
    BY <1>2, <1>4, <1>11 DEF Transcripts
  <2>2. ServerTexts(c)' = ServerTexts(c) /\ ClientTexts(c)' = ClientTexts(c)
    BY <2>1 DEF ServerTexts, ClientTexts
  <2>3. InFlight(c)' = 0
    BY <1>9, <1>11 DEF InFlight
  <2>4. Downward(c)'
    BY <1>1, <1>5, <1>10, <2>2, <2>3 DEF Talk, Downward
  <2>5. Framed(c)'
    <3>1. CASE type = "accept"
      <4>1. transcript'[c].accepted = TRUE /\ transcript'[c].close = t.close
        BY <1>2, <1>4, <3>1 DEF Transcripts
      <4> QED
        BY <1>1, <1>5, <1>9, <3>1, <4>1 DEF Talk, Framed
    <3>2. CASE type = "close"
      <4>1. transcript'[c].accepted = t.accepted /\ transcript'[c].close # None
        BY <1>2, <1>4, <3>2, WebsocketAssumption DEF Transcripts
      <4> QED
        BY <1>1, <1>5, <1>9, <3>2, <4>1 DEF Talk, Framed
    <3> QED
      BY <1>3, <1>11, <3>1, <3>2
  <2>6. Upward(c)'
    BY <1>1, <1>2, <1>4, <1>5, <2>2, SMTT(30) DEF Talk, Upward, Transcripts
  <2>7. Seen(c)'
    BY <1>1, <1>5, <2>1 DEF Talk, Seen
  <2> QED
    BY <2>4, <2>5, <2>6, <2>7 DEF Talk
<1>12. ASSUME type = "send" PROVE Talk(c)'
  <2>1. transcript'[c].messages = Append(t.messages, m) /\ m \in Recorded /\ m.sender = "server"
    BY <1>2, <1>4, <1>12 DEF Transcripts, Message
  <2>2. ServerTexts(c)' = Append(ServerTexts(c), m) /\ ClientTexts(c)' = ClientTexts(c)
    BY <1>1, <2>1, TalkTypesAt, TextsAppend DEF ServerTexts, ClientTexts
  <2>3. InFlight(c)' = 1
    BY <1>9, <1>12 DEF InFlight
  <2>4. /\ Len(ServerTexts(c)') = Len(ServerTexts(c)) + 1
        /\ \A k \in 1..Len(ServerTexts(c)) : ServerTexts(c)'[k] = ServerTexts(c)[k]
        /\ ServerTexts(c)'[Len(ServerTexts(c)) + 1] = m
    BY <1>1, <2>1, <2>2, TalkTypesAt, AppendProperties
  <2>5. Downward(c)'
    <3>1. /\ Len(peer'[c].got) <= Len(ServerTexts(c)')
          /\ \A k \in 1..Len(peer'[c].got) : peer'[c].got[k] = ServerTexts(c)'[k]
      BY <1>1, <1>5, <2>4, TalkTypesAt DEF Talk, Downward
    <3>2. ASSUME NEW i \in DOMAIN toClient'[c], toClient'[c][i].type = "send"
          PROVE  LET k == Len(peer'[c].got) + i - Opening(c)'
                 IN k <= Len(ServerTexts(c)')
                    /\ ServerTexts(c)'[k] = Message("server", toClient'[c][i].data)
      <4> DEFINE k == Len(peer[c].got) + i - Opening(c)
      <4>1. i \in 1..Len(toClient[c]) /\ i - Opening(c) >= 1
        BY <1>1, <1>5, <3>2, TalkTypesAt, SendBehindAccept
      <4>2. k \in 1..Len(ServerTexts(c))
            /\ ServerTexts(c)[k] = Message("server", toClient[c][i].data)
        <5>1. k <= Len(ServerTexts(c))
              /\ ServerTexts(c)[k] = Message("server", toClient[c][i].data)
          BY <1>1, <1>5, <3>2 DEF Talk, Downward
        <5>2. k \in Int /\ k >= 1 /\ Len(ServerTexts(c)) \in Nat
          BY <1>1, <4>1, TalkTypesAt
        <5> QED
          BY <5>1, <5>2
      <4> QED
        BY <1>1, <1>5, <1>10, <2>4, <4>2, TalkTypesAt
    <3>3. app'[c] # "disconnected" /\ peer'[c].state # "closed" =>
            Len(ServerTexts(c)')
              = Len(peer'[c].got) + Len(toClient'[c]) - Opening(c)' + InFlight(c)'
      <4> DEFINE had == Len(ServerTexts(c))
                 rest == Len(peer[c].got) + Len(toClient[c]) - Opening(c)
      <4>1. app[c] # "disconnected" /\ peer[c].state # "closed" => had = rest
        <5>1. app[c] # "disconnected" /\ peer[c].state # "closed" => had = rest + InFlight(c)
          BY <1>1 DEF Talk, Downward
        <5>2. rest \in Int
          <6>1. Len(peer[c].got) \in Nat /\ Len(toClient[c]) \in Nat /\ Opening(c) \in {0, 1}
            BY <1>1, TalkTypesAt
          <6> DEFINE a == Len(peer[c].got)
                     b == Len(toClient[c])
                     o == Opening(c)
          <6>2. a \in Nat /\ b \in Nat /\ o \in {0, 1}
            BY <6>1
          <6> HIDE DEF a, b, o
          <6>3. a + b - o \in Int
            BY <6>2
          <6> QED
            BY <6>3 DEF a, b, o
        <5> HIDE DEF rest
        <5> QED
          BY <1>10, <5>1, <5>2
      <4>2. /\ Len(ServerTexts(c)') = had + 1
            /\ Len(peer'[c].got) + Len(toClient'[c]) - Opening(c)' = rest
            /\ app' = app /\ peer' = peer
        BY <1>5, <1>10, <2>4
      <4> HIDE DEF had, rest
      <4> QED
        BY <2>3, <4>1, <4>2
    <3>4. ServerTexts(c)' # <<>>
          /\ ServerTexts(c)'[Len(ServerTexts(c)')] = Message("server", sending'[c].data)
      BY <1>1, <1>9, <2>1, <2>2, <2>4, TalkTypesAt, AppendProperties
    <3> QED
      BY <3>1, <3>2, <3>3, <3>4 DEF Downward
  <2>6. Framed(c)'
    BY <1>1, <1>2, <1>3, <1>4, <1>5, <1>9, <1>12 DEF Talk, Framed, Transcripts
  <2>7. Upward(c)'
    BY <1>1, <1>2, <1>4, <1>5, <1>12, <2>2 DEF Talk, Upward, Transcripts
  <2>8. Seen(c)'
    <3>1. From(transcript'[c].messages, "client") = From(t.messages, "client")
      BY <1>1, <2>1, TalkTypesAt, TextsAppend
    <3>2. \A i \in From(t.messages, "client"), who \in {"server", "client"} :
            Rank(From(transcript'[c].messages, who), i) = Rank(From(t.messages, who), i)
      BY <1>1, <2>1, TalkTypesAt, FromType, RankAppend
    <3> QED
      BY <1>1, <1>5, <3>1, <3>2 DEF Talk, Seen
  <2> QED
    BY <2>5, <2>6, <2>7, <2>8 DEF Talk
<1> QED
  BY <1>7, <1>8, <1>11, <1>12 DEF TalkInv

\* super().send puts the message on the wire.
LEMMA TalkSendReturns ==
  ASSUME TalkInv, NEW c \in Conns, SendReturns(c)
  PROVE  TalkInv'
<1> DEFINE g == sending[c]
           w == toClient[c]
           n == Len(w)
           m == [type |-> g.type, data |-> g.data]
<1>1. TalkTypes /\ Talk(c) /\ step[c] = "send"
  BY DEF TalkInv, SendReturns
<1>2. /\ g \in Going /\ g.type \in {"accept", "send", "close"} /\ g.after \in {"effect", "done"}
      /\ m \in Down
  BY <1>1 DEF TalkTypes, Going, Down
<1>3. /\ step' = [step EXCEPT ![c] = g.after] /\ sending' = [sending EXCEPT ![c] = None]
      /\ transcript' = transcript /\ toServer' = toServer /\ peer' = peer /\ sawAt' = sawAt
      /\ app' = [app EXCEPT ![c] = CASE g.type = "accept" -> "connected"
                                     [] g.type = "close" -> "disconnected"
                                     [] OTHER -> @]
      /\ toClient' = IF peer[c].state = "closed" THEN toClient
                     ELSE [toClient EXCEPT ![c] = Append(@, m)]
  BY DEF SendReturns, peerVars
<1>4. \/ app[c] = "connecting" /\ g.type = "accept" /\ app'[c] = "connected"
      \/ app[c] = "connecting" /\ g.type = "close" /\ app'[c] = "disconnected"
      \/ app[c] = "connected" /\ g.type = "send" /\ app'[c] = "connected"
      \/ app[c] = "connected" /\ g.type = "close" /\ app'[c] = "disconnected"
  BY <1>1, <1>3 DEF SendReturns, Legal, TalkTypes
<1>5. step'[c] # "send" /\ step'[c] # "new" /\ InFlight(c)' = 0
  BY <1>1, <1>2, <1>3 DEF TalkTypes, InFlight
<1>6. ServerTexts(c)' = ServerTexts(c) /\ ClientTexts(c)' = ClientTexts(c)
  BY <1>3 DEF ServerTexts, ClientTexts
<1>7. TalkTypes'
  <2>1. toClient' \in [Conns -> Seq(Down)]
    BY <1>1, <1>2, <1>3, AppendProperties DEF TalkTypes
  <2>2. step' \in [Conns -> {"new", "effect", "send", "raised", "done"}]
    BY <1>1, <1>2, <1>3 DEF TalkTypes
  <2>3. \A d \in Conns : step'[d] = "send" => sending'[d] \in Going
    BY <1>1, <1>2, <1>3 DEF TalkTypes
  <2>4. app' \in [Conns -> {"connecting", "connected", "disconnected"}]
    BY <1>1, <1>3 DEF TalkTypes
  <2>5. sending' \in [Conns -> {None} \cup Going]
    BY <1>1, <1>3 DEF TalkTypes
  <2> QED
    BY <1>1, <1>3, <2>1, <2>2, <2>3, <2>4, <2>5 DEF TalkTypes
<1>8. ASSUME NEW d \in Conns, d # c PROVE Talk(d)'
  BY <1>1, <1>3, <1>8, TalkAside DEF TalkInv, TalkTypes, Aside
<1>9. ASSUME peer[c].state = "closed" PROVE Downward(c)' /\ Framed(c)'
  <2>1. toClient' = toClient /\ Opening(c)' = Opening(c) /\ w = <<>>
    BY <1>1, <1>3, <1>9 DEF Opening, Talk, Framed
  <2>2. Downward(c)'
    BY <1>1, <1>3, <1>5, <1>6, <1>9, <2>1 DEF Talk, Downward
  <2>3. Framed(c)'
    BY <1>1, <1>3, <1>4, <1>5, <1>9, <2>1, TalkTypesAt DEF Talk, Framed
  <2> QED
    BY <2>2, <2>3
<1>10. ASSUME peer[c].state # "closed" PROVE Downward(c)' /\ Framed(c)'
  <2>1. toClient'[c] = Append(w, m)
    BY <1>1, <1>3, <1>10 DEF TalkTypes
  <2>2. /\ Len(toClient'[c]) = n + 1 /\ DOMAIN toClient'[c] = 1..(n + 1)
        /\ \A i \in 1..n : toClient'[c][i] = w[i]
        /\ toClient'[c][n + 1] = m /\ n \in Nat /\ DOMAIN w = 1..n
        /\ toClient'[c] # <<>> /\ (w = <<>> <=> n = 0)
    <3>1. w \in Seq(Down) /\ n \in Nat /\ DOMAIN w = 1..n
      BY <1>1, TalkTypesAt
    <3>2. /\ Append(w, m) \in Seq(Down) /\ Len(Append(w, m)) = n + 1 /\ Append(w, m) # <<>>
          /\ \A i \in 1..n : Append(w, m)[i] = w[i]
          /\ Append(w, m)[n + 1] = m
      BY <3>1, <1>2, AppendProperties
    <3>3. DOMAIN Append(w, m) = 1..(n + 1)
      BY <3>2, LenProperties
    <3>4. w = <<>> <=> n = 0
      BY <3>1, EmptySeq
    <3> QED
      BY <2>1, <3>1, <3>2, <3>3, <3>4
  <2>3. /\ g.type = "accept" => n = 0 /\ Opening(c)' = 1 /\ Opening(c) = 0
        /\ g.type # "accept" => Opening(c)' = Opening(c)
    <3>1. g.type = "accept" => n = 0
      BY <1>1, <1>4, <2>2 DEF Talk, Framed
    <3>2. n = 0 => Opening(c)' = IF g.type = "accept" THEN 1 ELSE 0
      BY <2>2 DEF Opening
    <3>3. n # 0 => Opening(c)' = Opening(c)
      BY <2>2 DEF Opening
    <3>4. n = 0 => Opening(c) = 0
      BY <2>2 DEF Opening
    <3> QED
      BY <3>1, <3>2, <3>3, <3>4
  <2>4. Len(ServerTexts(c)) = Len(peer[c].got) + n - Opening(c) + InFlight(c)
    BY <1>1, <1>4, <1>10 DEF Talk, Downward
  <2>5. InFlight(c) = IF g.type = "send" THEN 1 ELSE 0
    BY <1>1 DEF InFlight
  <2>12. Len(peer[c].got) \in Nat /\ Len(ServerTexts(c)) \in Nat /\ Opening(c) \in {0, 1}
    BY <1>1, TalkTypesAt
  <2>6. Downward(c)'
    <3>1. /\ Len(peer'[c].got) <= Len(ServerTexts(c)')
          /\ \A k \in 1..Len(peer'[c].got) : peer'[c].got[k] = ServerTexts(c)'[k]
      BY <1>1, <1>3, <1>6 DEF Talk, Downward
    <3>2. ASSUME NEW i \in DOMAIN toClient'[c], toClient'[c][i].type = "send"
          PROVE  LET k == Len(peer'[c].got) + i - Opening(c)'
                 IN k <= Len(ServerTexts(c)')
                    /\ ServerTexts(c)'[k] = Message("server", toClient'[c][i].data)
      <4>1. CASE i \in 1..n
        <5>1. w[i].type = "send" /\ toClient'[c][i].data = w[i].data /\ n # 0
          BY <2>2, <3>2, <4>1
        <5>2. Opening(c)' = Opening(c)
          BY <1>2, <2>3, <5>1
        <5> QED
          BY <1>1, <1>3, <1>6, <2>2, <4>1, <5>1, <5>2 DEF Talk, Downward
      <4>2. CASE i = n + 1
        <5>1. g.type = "send" /\ toClient'[c][i].data = g.data
          BY <2>2, <3>2, <4>2
        <5>2. Len(peer[c].got) + i - Opening(c)' = Len(ServerTexts(c))
          <6>1. Opening(c)' = Opening(c) /\ InFlight(c) = 1
            BY <2>3, <2>5, <5>1
          <6>2. n \in Nat
            BY <2>2
          <6> DEFINE l == Len(peer[c].got)
                     a == Opening(c)
                     b == Len(ServerTexts(c))
          <6>3. l \in Nat /\ a \in {0, 1} /\ b \in Nat /\ b = l + n - a + 1
            BY <2>4, <2>12, <6>1
          <6> HIDE DEF l, a, b, n
          <6>4. l + (n + 1) - a = b
            BY <6>2, <6>3
          <6> QED
            BY <4>2, <6>1, <6>4 DEF l, a, b
        <5>3. ServerTexts(c)[Len(ServerTexts(c))] = Message("server", g.data)
          BY <1>1, <2>5, <5>1 DEF Talk, Downward
        <5> QED
          BY <1>1, <1>3, <1>6, <5>1, <5>2, <5>3, TalkTypesAt
      <4> QED
        BY <2>2, <4>1, <4>2
    <3>3. Len(ServerTexts(c)')
            = Len(peer'[c].got) + Len(toClient'[c]) - Opening(c)' + InFlight(c)'
          \/ app'[c] = "disconnected"
      <4> DEFINE l == Len(peer[c].got)
                 a == Opening(c)
                 b == Len(ServerTexts(c))
                 e == InFlight(c)
                 o == Opening(c)'
      <4>1. CASE app'[c] = "disconnected"
        BY <4>1
      <4>2. CASE app'[c] # "disconnected"
        <5>1. /\ g.type = "accept" => o = 1 /\ a = 0 /\ e = 0
              /\ g.type # "accept" => o = a /\ e = 1
          BY <1>4, <2>3, <2>5, <4>2
        <5>2. l \in Nat /\ b \in Nat /\ a \in {0, 1} /\ n \in Nat /\ b = l + n - a + e
          BY <2>2, <2>4, <2>12
        <5>3. Len(ServerTexts(c)') = b /\ Len(peer'[c].got) = l /\ Len(toClient'[c]) = n + 1
              /\ InFlight(c)' = 0
          BY <1>3, <1>5, <1>6, <2>2
        <5> HIDE DEF l, a, b, e, n, o
        <5>4. b = l + (n + 1) - o + 0
          BY <5>1, <5>2
        <5> USE DEF o
        <5> QED
          BY <5>3, <5>4
      <4> QED
        BY <4>1, <4>2
    <3> QED
      BY <1>5, <3>1, <3>2, <3>3 DEF Downward
  <2>7. peer[c].state \in {"connecting", "open"}
    BY <1>1, <1>10 DEF Talk, Framed, TalkTypes, Peers
  <2>8. \A i \in 1..n : w[i].type # "close"
    BY <1>1, <1>4, <2>2 DEF Talk, Framed
  <2>9. /\ g.type = "accept" => transcript[c].accepted /\ peer[c].state = "connecting"
        /\ g.type = "close" => transcript[c].close # None
    BY <1>1, <1>4, <2>7 DEF Talk, Framed
  <2>10. \A i \in DOMAIN toClient'[c] :
           /\ toClient'[c][i].type = "accept" =>
                i = 1 /\ peer'[c].state = "connecting" /\ transcript'[c].accepted
           /\ toClient'[c][i].type = "close" =>
                i = Len(toClient'[c]) /\ app'[c] = "disconnected" /\ transcript'[c].close # None
    <3> TAKE i \in DOMAIN toClient'[c]
    <3>1. CASE i \in 1..n
      BY <1>1, <1>3, <2>2, <2>8, <3>1 DEF Talk, Framed
    <3>2. CASE i = n + 1
      BY <1>3, <1>4, <2>2, <2>3, <2>9, <3>2
    <3> QED
      BY <2>2, <3>1, <3>2
  <2>11. Framed(c)'
    BY <1>1, <1>3, <1>4, <1>5, <1>10, <2>7, <2>10 DEF Talk, Framed
  <2> QED
    BY <2>6, <2>11
<1>11. Upward(c)'
  BY <1>1, <1>3, <1>6 DEF Talk, Upward
<1>12. Seen(c)'
  BY <1>1, <1>3 DEF Talk, Seen
<1> QED
  BY <1>7, <1>8, <1>9, <1>10, <1>11, <1>12 DEF TalkInv, Talk

\* super().send raises.
LEMMA TalkSendRaises ==
  ASSUME TalkInv, NEW c \in Conns, NEW kind, SendRaises(c, kind)
  PROVE  TalkInv'
<1>1. TalkTypes /\ Talk(c) /\ step[c] = "send"
  BY DEF TalkInv, SendRaises
<1>2. /\ step' = [step EXCEPT ![c] = step'[c]] /\ step'[c] \in {"done", "raised"}
      /\ sending' = [sending EXCEPT ![c] = None]
      /\ transcript' = transcript /\ toServer' = toServer /\ toClient' = toClient
      /\ peer' = peer /\ sawAt' = sawAt
      /\ app' = [app EXCEPT ![c] = "disconnected"]
  BY <1>1 DEF SendRaises, wireVars, peerVars, TalkTypes
<1>3. TalkTypes'
  BY <1>1, <1>2 DEF TalkTypes
<1>4. ASSUME NEW d \in Conns, d # c PROVE Talk(d)'
  BY <1>1, <1>2, <1>4, TalkAside DEF TalkInv, TalkTypes, Aside
<1>5. app'[c] = "disconnected" /\ InFlight(c)' = 0 /\ Opening(c)' = Opening(c)
  BY <1>1, <1>2 DEF TalkTypes, InFlight, Opening
<1>6. ServerTexts(c)' = ServerTexts(c) /\ ClientTexts(c)' = ClientTexts(c)
  BY <1>2 DEF ServerTexts, ClientTexts
<1>7. Downward(c)'
  BY <1>1, <1>2, <1>5, <1>6 DEF Talk, Downward
<1>8. Framed(c)'
  BY <1>1, <1>2, <1>5 DEF Talk, Framed
<1>9. Upward(c)' /\ Seen(c)'
  BY <1>1, <1>2, <1>6 DEF Talk, Upward, Seen
<1> QED
  BY <1>3, <1>4, <1>7, <1>8, <1>9 DEF TalkInv, Talk

\* The handler goes on without a word to its client.
LEMMA TalkQuiet ==
  ASSUME TalkInv, NEW c \in Conns, step[c] # "send", peer[c].state # "unborn",
         NEW next \in {"effect", "raised", "done"}, step' = [step EXCEPT ![c] = next],
         UNCHANGED <<recorderVars, app, wireVars, peerVars>>
  PROVE  TalkInv'
<1>1. TalkTypes /\ Talk(c)
  BY DEF TalkInv
<1>2. /\ transcript' = transcript /\ toServer' = toServer /\ toClient' = toClient
      /\ peer' = peer /\ sawAt' = sawAt /\ sending' = sending /\ app' = app
  BY DEF recorderVars, wireVars, peerVars
<1>3. TalkTypes'
  BY <1>1, <1>2 DEF TalkTypes
<1>4. ASSUME NEW d \in Conns, d # c PROVE Talk(d)'
  BY <1>1, <1>2, <1>4, TalkAside DEF TalkInv, TalkTypes, Aside
<1>5. step'[c] # "send" /\ InFlight(c)' = 0 /\ InFlight(c) = 0 /\ Opening(c)' = Opening(c)
  BY <1>1, <1>2 DEF TalkTypes, InFlight, Opening
<1>6. ServerTexts(c)' = ServerTexts(c) /\ ClientTexts(c)' = ClientTexts(c)
  BY <1>2 DEF ServerTexts, ClientTexts
<1>7. Downward(c)'
  BY <1>1, <1>2, <1>5, <1>6 DEF Talk, Downward
<1>8. Framed(c)'
  BY <1>1, <1>2, <1>5 DEF Talk, Framed
<1>9. Upward(c)' /\ Seen(c)'
  BY <1>1, <1>2, <1>6 DEF Talk, Upward, Seen
<1> QED
  BY <1>3, <1>4, <1>7, <1>8, <1>9 DEF TalkInv, Talk

\* receive() notes a message of the client.
LEMMA TalkReceiveText ==
  ASSUME TalkInv, NEW c \in Conns, ReceiveText(c)
  PROVE  TalkInv'
<1> DEFINE ms == transcript[c].messages
           w == toServer[c]
           m == Message("client", w[1].data)
           k == Len(ClientTexts(c))
<1>1. TalkTypes /\ Talk(c) /\ step[c] = "effect" /\ w # <<>> /\ w[1].type = "receive"
  BY DEF TalkInv, ReceiveText
<1>2. /\ transcript' = [transcript EXCEPT ![c].messages = Append(@, m)]
      /\ toServer' = [toServer EXCEPT ![c] = Tail(@)]
      /\ step' = step /\ sending' = sending /\ app' = app /\ toClient' = toClient
      /\ peer' = peer /\ sawAt' = sawAt
  BY DEF ReceiveText, handlerVars, socketVars, peerVars
<1>3. /\ w \in Seq(Up) /\ Len(w) \in Nat /\ Len(w) >= 1 /\ DOMAIN w = 1..Len(w)
      /\ Tail(w) \in Seq(Up) /\ Len(Tail(w)) = Len(w) - 1
      /\ \A i \in 1..Len(Tail(w)) : Tail(w)[i] = w[i + 1]
      /\ DOMAIN Tail(w) = 1..Len(Tail(w))
  BY <1>1, TalkTypesAt, HeadTailProperties, EmptySeq, LenProperties
<1>4. m \in Recorded /\ m.sender = "client"
  <2>1. w[1] \in Up
    BY <1>3, ElementOfSeq
  <2> QED
    BY <1>1, <2>1 DEF Up, Message, Recorded
<1>5. /\ transcript'[c].messages = Append(ms, m) /\ ms \in Seq(Recorded)
      /\ transcript'[c].accepted = transcript[c].accepted
      /\ transcript'[c].close = transcript[c].close
      /\ transcript'[c] \in Transcripts
  <2>1. transcript[c] \in Transcripts /\ ms \in Seq(Recorded)
    BY <1>1 DEF TalkTypes, Transcripts
  <2>2. transcript'[c] = [transcript[c] EXCEPT !.messages = Append(ms, m)]
    BY <1>1, <1>2 DEF TalkTypes
  <2>3. Append(ms, m) \in Seq(Recorded)
    BY <1>4, <2>1, AppendProperties
  <2> QED
    BY <2>1, <2>2, <2>3 DEF Transcripts
<1>6. ServerTexts(c)' = ServerTexts(c) /\ ClientTexts(c)' = Append(ClientTexts(c), m)
  BY <1>4, <1>5, TextsAppend DEF ServerTexts, ClientTexts
<1>7. /\ Len(ClientTexts(c)') = k + 1 /\ k \in Nat
      /\ \A j \in 1..k : ClientTexts(c)'[j] = ClientTexts(c)[j]
      /\ ClientTexts(c)'[k + 1] = m
  BY <1>1, <1>4, <1>6, TalkTypesAt, AppendProperties
<1>8. TalkTypes'
  BY <1>1, <1>2, <1>3, <1>5 DEF TalkTypes
<1>9. ASSUME NEW d \in Conns, d # c PROVE Talk(d)'
  BY <1>1, <1>2, <1>9, TalkAside DEF TalkInv, TalkTypes, Aside
<1>10. InFlight(c)' = InFlight(c) /\ Opening(c)' = Opening(c)
  BY <1>2 DEF InFlight, Opening
<1>11. Downward(c)'
  BY <1>1, <1>2, <1>6, <1>10 DEF Talk, Downward
<1>12. Framed(c)'
  BY <1>1, <1>2, <1>5 DEF Talk, Framed
<1>13. k + 1 <= Len(peer[c].sent) /\ peer[c].sent[k + 1] = m
  BY <1>1, <1>3 DEF Talk, Upward
<1>14. toServer'[c] = Tail(w)
  BY <1>1, <1>2 DEF TalkTypes
<1>15. Upward(c)'
  <2>1. \A j \in 1..(k + 1) : ClientTexts(c)'[j] = peer[c].sent[j]
    <3> TAKE j \in 1..(k + 1)
    <3>1. CASE j = k + 1
      BY <3>1, <1>7, <1>13
    <3>2. CASE j \in 1..k
      BY <3>2, <1>1, <1>7 DEF Talk, Upward
    <3> QED
      BY <1>7, <3>1, <3>2
  <2>2. ASSUME NEW i \in 1..Len(Tail(w))
        PROVE  /\ Tail(w)[i].type = "receive" =>
                    /\ k + 1 + i <= Len(peer[c].sent)
                    /\ peer[c].sent[k + 1 + i] = Message("client", Tail(w)[i].data)
               /\ Tail(w)[i].type = "disconnect" =>
                    /\ i = Len(Tail(w)) /\ peer[c].state = "closed"
                    /\ Len(peer[c].sent) = k + 1 + i - 1
    <3>1. i + 1 \in 1..Len(w) /\ Tail(w)[i] = w[i + 1] /\ i \in Nat
      BY <1>3
    <3>2. k + (i + 1) = k + 1 + i /\ k + (i + 1) - 1 = k + 1 + i - 1
      <4>1. k \in Nat /\ i \in Nat
        BY <1>7, <3>1
      <4> HIDE DEF k
      <4> QED
        BY <4>1
    <3>3. i + 1 = Len(w) => i = Len(Tail(w))
      BY <1>3, <3>1
    <3> QED
      BY <1>1, <1>3, <3>1, <3>2, <3>3, ZenonT(60) DEF Talk, Upward
  <2>3. peer[c].state # "closed" => Len(peer[c].sent) = k + 1 + Len(Tail(w))
    <3>1. peer[c].state # "closed" => Len(peer[c].sent) = k + Len(w)
      BY <1>1 DEF Talk, Upward
    <3>2. Len(Tail(w)) = Len(w) - 1 /\ Len(w) \in Nat /\ k \in Nat
      BY <1>3, <1>7
    <3>3. k + Len(w) = k + 1 + Len(Tail(w))
      <4> DEFINE u == Len(w)
                 v == Len(Tail(w))
      <4>1. v = u - 1 /\ u \in Nat /\ k \in Nat
        BY <3>2
      <4> HIDE DEF u, v, k
      <4>2. k + u = k + 1 + v
        BY <4>1
      <4> QED
        BY <4>2 DEF u, v
    <3> QED
      BY <3>1, <3>3
  <2>4. ~(transcript[c].close # None /\ transcript[c].close[1] = "client")
    BY <1>1 DEF Talk, Upward
  <2> QED
    BY <1>2, <1>3, <1>5, <1>7, <1>13, <1>14, <2>1, <2>2, <2>3, <2>4, ZenonT(60) DEF Upward
<1>16. Seen(c)'
  <2> DEFINE n == Len(ms) + 1
             now(who) == From(transcript'[c].messages, who)
  <2>1. /\ now("client") = From(ms, "client") \cup {n}
        /\ now("server") = From(ms, "server")
    BY <1>4, <1>5, TextsAppend
  <2>2. /\ From(ms, "client") \subseteq 1..Len(ms) /\ n \in Nat /\ Len(ms) \in Nat
        /\ transcript'[c].messages \in Seq(Recorded) /\ Len(transcript'[c].messages) = n
    BY <1>4, <1>5, FromType, LenProperties, AppendProperties
  <2>3. ASSUME NEW i \in From(ms, "client")
        PROVE  Rank(now("server"), i) >= sawAt[c][Rank(now("client"), i)]
    <3>1. \A who \in {"server", "client"} : Rank(now(who), i) = Rank(From(ms, who), i)
      BY <1>4, <1>5, <2>2, RankAppend
    <3> QED
      BY <1>1, <3>1 DEF Talk, Seen
  <2>4. Rank(now("server"), n) >= sawAt[c][Rank(now("client"), n)]
    <3>1. Rank(now("server"), n) = Len(ServerTexts(c)) /\ Rank(now("client"), n) = k + 1
      <4>1. \A who \in {"server", "client"} :
              Rank(now(who), n) = Len(Texts(transcript'[c].messages, who))
        BY <2>2, RankOfLast
      <4> QED
        BY <4>1, <1>6, <1>7 DEF ServerTexts, ClientTexts
    <3>2. /\ Len(peer[c].got) <= Len(ServerTexts(c)) /\ k + 1 \in 1..Len(sawAt[c])
          /\ sawAt[c][k + 1] <= Len(peer[c].got)
      BY <1>1, <1>7, <1>13, TalkTypesAt DEF Talk, Downward, Seen
    <3>3. sawAt[c][k + 1] \in Nat /\ Len(peer[c].got) \in Nat /\ Len(ServerTexts(c)) \in Nat
      BY <1>1, <3>2, TalkTypesAt, ElementOfSeq
    <3> QED
      BY <3>1, <3>2, <3>3
  <2>5. \A i \in now("client") : Rank(now("server"), i) >= sawAt[c][Rank(now("client"), i)]
    BY <2>1, <2>3, <2>4
  <2> QED
    BY <1>1, <1>2, <2>5 DEF Talk, Seen
<1> QED
  BY <1>8, <1>9, <1>11, <1>12, <1>15, <1>16 DEF TalkInv, Talk

\* receive() notes the disconnect of the client.
LEMMA TalkReceiveDisconnect ==
  ASSUME TalkInv, NEW c \in Conns, ReceiveDisconnect(c)
  PROVE  TalkInv'
<1> DEFINE w == toServer[c]
           cl == <<"client", w[1].data>>
<1>1. TalkTypes /\ Talk(c) /\ step[c] = "effect" /\ w # <<>> /\ w[1].type = "disconnect"
  BY DEF TalkInv, ReceiveDisconnect
<1>2. /\ transcript' = [transcript EXCEPT ![c].close = cl]
      /\ toServer' = [toServer EXCEPT ![c] = Tail(@)]
      /\ step' = [step EXCEPT ![c] = "raised"]
      /\ sending' = sending /\ app' = app /\ toClient' = toClient
      /\ peer' = peer /\ sawAt' = sawAt
  BY DEF ReceiveDisconnect, peerVars
<1>3. /\ w \in Seq(Up) /\ Len(w) \in Nat /\ Len(w) >= 1 /\ DOMAIN w = 1..Len(w)
      /\ Tail(w) \in Seq(Up) /\ Len(Tail(w)) = Len(w) - 1
  BY <1>1, TalkTypesAt, HeadTailProperties, EmptySeq, LenProperties
<1>4. cl \in Closes /\ cl # None
  <2>1. w[1] \in Up
    BY <1>3, ElementOfSeq
  <2>2. w[1].data \in Codes
    BY <1>1, <2>1 DEF Up
  <2> QED
    BY <2>2, WebsocketAssumption DEF Closes
<1>5. /\ transcript'[c].messages = transcript[c].messages
      /\ transcript'[c].accepted = transcript[c].accepted
      /\ transcript'[c].close = cl
      /\ transcript'[c] \in Transcripts
  BY <1>1, <1>2, <1>4 DEF TalkTypes, Transcripts
<1>6. ServerTexts(c)' = ServerTexts(c) /\ ClientTexts(c)' = ClientTexts(c)
  BY <1>5 DEF ServerTexts, ClientTexts
<1>7. TalkTypes'
  BY <1>1, <1>2, <1>3, <1>5 DEF TalkTypes
<1>8. ASSUME NEW d \in Conns, d # c PROVE Talk(d)'
  BY <1>1, <1>2, <1>8, TalkAside DEF TalkInv, TalkTypes, Aside
<1>9. step'[c] = "raised" /\ InFlight(c)' = InFlight(c) /\ Opening(c)' = Opening(c)
  BY <1>1, <1>2 DEF TalkTypes, InFlight, Opening
<1>10. Downward(c)'
  BY <1>1, <1>2, <1>6, <1>9 DEF Talk, Downward, InFlight
<1>11. Framed(c)'
  BY <1>1, <1>2, <1>4, <1>5, <1>9 DEF Talk, Framed
<1>12. Len(w) = 1 /\ peer[c].state = "closed" /\ Len(peer[c].sent) = Len(ClientTexts(c))
  <2>1. 1 \in DOMAIN w
    BY <1>3
  <2>2. 1 = Len(w) /\ peer[c].state = "closed" /\ Len(peer[c].sent) = Len(ClientTexts(c)) + 1 - 1
    BY <1>1, <2>1 DEF Talk, Upward
  <2>3. Len(ClientTexts(c)) \in Nat
    BY <1>1, TalkTypesAt
  <2> QED
    BY <2>2, <2>3
<1>13. toServer'[c] = <<>>
  <2>1. toServer'[c] = Tail(w) /\ Len(Tail(w)) = 0
    BY <1>1, <1>2, <1>3, <1>12 DEF TalkTypes
  <2> QED
    BY <1>3, <2>1, EmptySeq
<1>14. Upward(c)'
  BY <1>1, <1>2, <1>5, <1>6, <1>12, <1>13 DEF Talk, Upward
<1>15. Seen(c)'
  BY <1>1, <1>2, <1>5 DEF Talk, Seen
<1> QED
  BY <1>7, <1>8, <1>10, <1>11, <1>14, <1>15 DEF TalkInv, Talk

(***************************************************************************)
(* Steps of a client                                                       *)
(***************************************************************************)
LEMMA TalkConnects ==
  ASSUME TalkInv, NEW c \in Conns, ClientConnects(c)
  PROVE  TalkInv'
<1>1. TalkTypes /\ Talk(c) /\ peer[c].state = "unborn"
  BY DEF TalkInv, ClientConnects
<1>2. /\ peer' = [peer EXCEPT ![c].state = "connecting"]
      /\ transcript' = transcript /\ sending' = sending /\ step' = step /\ app' = app
      /\ toServer' = toServer /\ toClient' = toClient /\ sawAt' = sawAt
  BY DEF ClientConnects, recorderVars, handlerVars, socketVars, wireVars
<1>3. /\ peer'[c].state = "connecting" /\ peer'[c].got = peer[c].got
      /\ peer'[c].sent = peer[c].sent /\ peer'[c].closed = peer[c].closed
      /\ peer' \in [Conns -> Peers]
  BY <1>1, <1>2 DEF TalkTypes, Peers
<1>4. TalkTypes'
  BY <1>1, <1>2, <1>3 DEF TalkTypes
<1>5. ASSUME NEW d \in Conns, d # c PROVE Talk(d)'
  BY <1>1, <1>2, <1>5, TalkAside DEF TalkInv, TalkTypes, Aside
<1>6. ServerTexts(c)' = ServerTexts(c) /\ ClientTexts(c)' = ClientTexts(c)
      /\ InFlight(c)' = InFlight(c) /\ Opening(c)' = Opening(c)
  BY <1>2 DEF ServerTexts, ClientTexts, InFlight, Opening
<1>7. Downward(c)'
  BY <1>1, <1>2, <1>3, <1>6 DEF Talk, Downward
<1>8. Framed(c)'
  BY <1>1, <1>2, <1>3 DEF Talk, Framed
<1>9. Upward(c)' /\ Seen(c)'
  BY <1>1, <1>2, <1>3, <1>6 DEF Talk, Upward, Seen
<1> QED
  BY <1>4, <1>5, <1>7, <1>8, <1>9 DEF TalkInv, Talk

\* A client gets the next message.
LEMMA TalkGets ==
  ASSUME TalkInv, NEW c \in Conns, ClientGets(c)
  PROVE  TalkInv'
<1> DEFINE w == toClient[c]
           p == peer[c]
           k == Len(p.got)
           s == ServerTexts(c)
<1>1. TalkTypes /\ Talk(c) /\ p.state \in {"connecting", "open"} /\ w # <<>>
  BY DEF TalkInv, ClientGets
<1>2. /\ toClient' = [toClient EXCEPT ![c] = Tail(@)]
      /\ transcript' = transcript /\ sending' = sending /\ step' = step /\ app' = app
      /\ toServer' = toServer /\ sawAt' = sawAt
  BY DEF ClientGets, recorderVars, handlerVars, socketVars
<1>3. /\ w \in Seq(Down) /\ Len(w) \in Nat /\ Len(w) >= 1 /\ DOMAIN w = 1..Len(w)
      /\ Tail(w) \in Seq(Down) /\ Len(Tail(w)) = Len(w) - 1
      /\ \A i \in 1..Len(Tail(w)) : Tail(w)[i] = w[i + 1]
      /\ DOMAIN Tail(w) = 1..Len(Tail(w)) /\ w[1] \in Down
  BY <1>1, TalkTypesAt, HeadTailProperties, EmptySeq, LenProperties, ElementOfSeq
<1>4. p \in Peers /\ w[1].type \in {"accept", "send", "close"}
      /\ (w[1].type = "send" => Message("server", w[1].data) \in Recorded)
      /\ (w[1].type = "close" => w[1].data \in Codes)
  BY <1>1, <1>3 DEF TalkTypes, Down, Message, Recorded
<1>5. peer' = [peer EXCEPT ![c] =
        CASE w[1].type = "accept" -> [p EXCEPT !.state = "open"]
          [] w[1].type = "send"   -> [p EXCEPT !.got = Append(@, Message("server", w[1].data))]
          [] w[1].type = "close"  -> [p EXCEPT !.state = "closed", !.closed = w[1].data]]
  <2>1. w[1] = Head(w)
    BY <1>1
  <2> QED
    BY <2>1 DEF ClientGets
<1>6. /\ p.state \in {"unborn", "connecting", "open", "closed"}
      /\ p.got \in Seq(Recorded) /\ p.sent \in Seq(Recorded) /\ p.closed \in {None} \cup Codes
      /\ k \in Nat /\ Len(s) \in Nat
  BY <1>1, <1>4, TalkTypesAt DEF Peers
<1>7. /\ peer'[c] \in Peers /\ peer'[c].sent = p.sent
      /\ w[1].type = "accept" =>
           peer'[c].state = "open" /\ peer'[c].got = p.got /\ peer'[c].closed = p.closed
      /\ w[1].type = "send" =>
           /\ peer'[c].state = p.state /\ peer'[c].closed = p.closed
           /\ peer'[c].got = Append(p.got, Message("server", w[1].data))
      /\ w[1].type = "close" => peer'[c].state = "closed" /\ peer'[c].got = p.got
  <2>1. CASE w[1].type = "accept"
    <3>1. peer'[c] = [p EXCEPT !.state = "open"]
      BY <1>1, <1>5, <2>1 DEF TalkTypes
    <3> QED
      BY <1>4, <2>1, <3>1 DEF Peers
  <2>2. CASE w[1].type = "send"
    <3>1. peer'[c] = [p EXCEPT !.got = Append(p.got, Message("server", w[1].data))]
      BY <1>1, <1>5, <2>2 DEF TalkTypes
    <3>2. Append(p.got, Message("server", w[1].data)) \in Seq(Recorded)
      BY <1>4, <1>6, <2>2, AppendProperties
    <3> QED
      BY <1>4, <2>2, <3>1, <3>2 DEF Peers
  <2>3. CASE w[1].type = "close"
    <3>1. peer'[c] = [p EXCEPT !.state = "closed", !.closed = w[1].data]
      BY <1>1, <1>5, <2>3 DEF TalkTypes
    <3> QED
      BY <1>4, <2>3, <3>1 DEF Peers
  <2> QED
    BY <1>4, <2>1, <2>2, <2>3
<1>8. toClient'[c] = Tail(w)
  BY <1>1, <1>2 DEF TalkTypes
<1>9. TalkTypes'
  <2>1. peer' \in [Conns -> Peers]
    BY <1>1, <1>5, <1>7 DEF TalkTypes
  <2> QED
    BY <1>1, <1>2, <1>3, <2>1 DEF TalkTypes
<1>10. ASSUME NEW d \in Conns, d # c PROVE Talk(d)'
  BY <1>1, <1>2, <1>5, <1>10, TalkAside DEF TalkInv, TalkTypes, Aside
<1>11. s' = s /\ ClientTexts(c)' = ClientTexts(c) /\ InFlight(c)' = InFlight(c)
  BY <1>2 DEF ServerTexts, ClientTexts, InFlight
<1>12. /\ Opening(c) = IF w[1].type = "accept" THEN 1 ELSE 0
       /\ Opening(c)' = 0
  <2>1. \A i \in DOMAIN w : w[i].type = "accept" => i = 1
    BY <1>1 DEF Talk, Framed
  <2>2. Tail(w) # <<>> => Tail(w)[1] = w[2] /\ 2 \in DOMAIN w
    <3>1. Tail(w) # <<>> => Len(Tail(w)) >= 1
      BY <1>3, EmptySeq
    <3> QED
      BY <1>3, <3>1
  <2> QED
    BY <1>1, <1>8, <2>1, <2>2 DEF Opening
<1>13. /\ Len(peer'[c].got) = IF w[1].type = "send" THEN k + 1 ELSE k
       /\ k <= Len(peer'[c].got) /\ Len(peer'[c].got) \in Nat
       /\ Len(peer'[c].got) - Opening(c)' = k + 1 - Opening(c) \/ w[1].type = "close"
  <2>1. CASE w[1].type = "send"
    BY <1>4, <1>6, <1>7, <1>12, <2>1, AppendProperties, SMTT(30)
  <2>2. CASE w[1].type = "accept"
    BY <1>4, <1>6, <1>7, <1>12, <2>2
  <2>3. CASE w[1].type = "close"
    BY <1>4, <1>6, <1>7, <1>12, <2>3
  <2> QED
    BY <1>4, <2>1, <2>2, <2>3
<1>14. w[1].type = "close" => Len(w) = 1 /\ Tail(w) = <<>>
  <2>1. 1 \in DOMAIN w
    BY <1>3
  <2>2. w[1].type = "close" => 1 = Len(w)
    BY <1>1, <2>1 DEF Talk, Framed
  <2>3. Len(w) = 1 => Len(Tail(w)) = 0
    BY <1>3
  <2>4. Len(Tail(w)) = 0 => Tail(w) = <<>>
    BY <1>3, EmptySeq
  <2> QED
    BY <2>2, <2>3, <2>4
<1>15. Downward(c)'
  <2>1. /\ Len(peer'[c].got) <= Len(s)
        /\ \A j \in 1..Len(peer'[c].got) : peer'[c].got[j] = s[j]
    <3>1. CASE w[1].type = "send"
      <4>1. k + 1 <= Len(s) /\ s[k + 1] = Message("server", w[1].data)
        BY <1>1, <1>3, <1>6, <1>12, <3>1 DEF Talk, Downward
      <4>2. /\ \A j \in 1..k : peer'[c].got[j] = p.got[j]
            /\ peer'[c].got[k + 1] = Message("server", w[1].data)
        BY <1>4, <1>6, <1>7, <3>1, AppendProperties
      <4>3. \A j \in 1..k : p.got[j] = s[j]
        BY <1>1 DEF Talk, Downward
      <4> QED
        BY <1>6, <1>13, <3>1, <4>1, <4>2, <4>3
    <3>2. CASE w[1].type # "send"
      BY <1>1, <1>4, <1>7, <3>2 DEF Talk, Downward
    <3> QED
      BY <3>1, <3>2
  <2>2. ASSUME NEW i \in 1..Len(Tail(w)), Tail(w)[i].type = "send"
        PROVE  LET j == Len(peer'[c].got) + i - Opening(c)'
               IN j <= Len(s) /\ s[j] = Message("server", Tail(w)[i].data)
    <3>1. i + 1 \in DOMAIN w /\ Tail(w)[i] = w[i + 1] /\ i \in Nat
      BY <1>3
    <3>2. w[1].type # "close"
      BY <1>3, <1>14
    <3>3. Len(peer'[c].got) + i - Opening(c)' = k + (i + 1) - Opening(c)
      <4>1. k \in Nat /\ i \in Nat /\ Opening(c)' = 0 /\ Opening(c) \in {0, 1}
            /\ Len(peer'[c].got) \in Nat
        BY <1>6, <1>12, <1>13, <3>1
      <4>2. Len(peer'[c].got) - Opening(c)' = k + 1 - Opening(c)
        BY <1>13, <3>2
      <4> DEFINE a == Len(peer'[c].got)
                 b == Opening(c)'
                 d == Opening(c)
      <4>3. k \in Nat /\ i \in Nat /\ b = 0 /\ d \in {0, 1} /\ a \in Nat /\ a - b = k + 1 - d
        BY <4>1, <4>2
      <4> HIDE DEF a, b, d, k
      <4>4. a + i - b = k + (i + 1) - d
        BY <4>3
      <4> QED
        BY <4>4 DEF a, b, d
    <3> QED
      BY <1>1, <2>2, <3>1, <3>3 DEF Talk, Downward
  <2>3. app[c] # "disconnected" /\ peer'[c].state # "closed" =>
          Len(s) = Len(peer'[c].got) + Len(Tail(w)) - Opening(c)' + InFlight(c)
    <3> SUFFICES ASSUME app[c] # "disconnected", peer'[c].state # "closed"
                 PROVE  Len(s) = Len(peer'[c].got) + Len(Tail(w)) - Opening(c)' + InFlight(c)
      OBVIOUS
    <3>1. Len(s) = k + Len(w) - Opening(c) + InFlight(c)
      BY <1>1 DEF Talk, Downward
    <3>2. w[1].type # "close" /\ InFlight(c) \in {0, 1} /\ Opening(c) \in {0, 1}
      BY <1>1, <1>7, TalkTypesAt
    <3>3. k \in Nat /\ Len(w) \in Nat /\ Len(Tail(w)) = Len(w) - 1 /\ Opening(c)' = 0
          /\ Len(peer'[c].got) \in Nat
      BY <1>3, <1>6, <1>12, <1>13
    <3>4. Len(peer'[c].got) - Opening(c)' = k + 1 - Opening(c)
      BY <1>13, <3>2
    <3>5. InFlight(c) \in {0, 1} /\ Opening(c) \in {0, 1}
      BY <3>2
    <3>6. k + Len(w) - Opening(c) = Len(peer'[c].got) + Len(Tail(w)) - Opening(c)'
      <4> DEFINE a == Len(peer'[c].got)
                 b == Opening(c)'
                 d == Opening(c)
                 u == Len(w)
                 v == Len(Tail(w))
      <4>1. /\ k \in Nat /\ u \in Nat /\ v = u - 1 /\ b = 0 /\ d \in {0, 1} /\ a \in Nat
            /\ a - b = k + 1 - d
        BY <3>3, <3>4, <3>5
      <4> HIDE DEF a, b, d, u, v, k
      <4>2. k + u - d = a + v - b
        BY <4>1
      <4> QED
        BY <4>2 DEF a, b, d, u, v
    <3> QED
      BY <3>1, <3>6
  <2> QED
    BY <1>1, <1>2, <1>3, <1>8, <1>11, <2>1, <2>2, <2>3 DEF Talk, Downward
<1>16. Framed(c)'
  <2>1. \A i \in 1..Len(Tail(w)) :
          /\ Tail(w)[i].type # "accept"
          /\ Tail(w)[i].type = "close" =>
               i = Len(Tail(w)) /\ app[c] = "disconnected" /\ transcript[c].close # None
    <3> TAKE i \in 1..Len(Tail(w))
    <3>1. i + 1 \in DOMAIN w /\ Tail(w)[i] = w[i + 1] /\ i + 1 # 1
      BY <1>3
    <3>2. i + 1 = Len(w) => i = Len(Tail(w))
      BY <1>3
    <3> QED
      BY <1>1, <3>1, <3>2 DEF Talk, Framed
  <2>2. peer'[c].state = "open" => transcript[c].accepted
    BY <1>1, <1>3, <1>4, <1>7 DEF Talk, Framed
  <2>3. peer'[c].closed # None => transcript[c].close # None
    BY <1>1, <1>3, <1>4, <1>7 DEF Talk, Framed
  <2>4. peer'[c].state # "unborn" /\ app[c] # "connecting"
    BY <1>1, <1>4, <1>7 DEF Talk, Framed
  <2>5. peer'[c].state = "closed" => Tail(w) = <<>>
    BY <1>1, <1>4, <1>7, <1>14
  <2> QED
    BY <1>1, <1>2, <1>3, <1>8, <2>1, <2>2, <2>3, <2>4, <2>5 DEF Talk, Framed
<1>17. Upward(c)'
  <2>1. p.state # "closed"
    BY <1>1
  <2>2. \A i \in DOMAIN toServer[c] : toServer[c][i].type # "disconnect"
    BY <1>1, <2>1 DEF Talk, Upward
  <2>3. ~(transcript[c].close # None /\ transcript[c].close[1] = "client")
    BY <1>1, <2>1 DEF Talk, Upward
  <2> QED
    BY <1>1, <1>2, <1>7, <1>11, <2>1, <2>2, <2>3 DEF Talk, Upward
<1>18. Seen(c)'
  <2>1. \A j \in 1..Len(sawAt[c]) : sawAt[c][j] <= Len(peer'[c].got)
    <3> TAKE j \in 1..Len(sawAt[c])
    <3>1. sawAt[c][j] <= k
      BY <1>1 DEF Talk, Seen
    <3>2. sawAt[c][j] \in Nat
      BY <1>1, TalkTypesAt, ElementOfSeq
    <3> QED
      BY <1>6, <1>13, <3>1, <3>2
  <2> QED
    BY <1>1, <1>2, <1>7, <2>1 DEF Talk, Seen
<1> QED
  BY <1>9, <1>10, <1>15, <1>16, <1>17, <1>18 DEF TalkInv, Talk

\* A client sends a message.
LEMMA TalkSends ==
  ASSUME TalkInv, NEW c \in Conns, NEW data \in Payloads, ClientSends(c, data)
  PROVE  TalkInv'
<1> DEFINE w == toServer[c]
           sent == peer[c].sent
           m == Message("client", data)
           r == [type |-> "receive", data |-> data]
           k == Len(ClientTexts(c))
<1>1. TalkTypes /\ Talk(c) /\ peer[c].state = "open"
  BY DEF TalkInv, ClientSends
<1>2. /\ peer' = [peer EXCEPT ![c].sent = Append(@, m)]
      /\ toServer' = [toServer EXCEPT ![c] = Append(@, r)]
      /\ sawAt' = [sawAt EXCEPT ![c] = Append(@, Len(peer[c].got))]
      /\ transcript' = transcript /\ sending' = sending /\ step' = step /\ app' = app
      /\ toClient' = toClient
  BY DEF ClientSends, recorderVars, handlerVars, socketVars
<1>3. m \in Recorded /\ r \in Up
  BY DEF Message, Recorded, Up
<1>4. /\ w \in Seq(Up) /\ sent \in Seq(Recorded) /\ sawAt[c] \in Seq(Nat)
      /\ Len(w) \in Nat /\ Len(sent) \in Nat /\ Len(sawAt[c]) \in Nat
      /\ Len(peer[c].got) \in Nat /\ k \in Nat /\ DOMAIN w = 1..Len(w)
  BY <1>1, TalkTypesAt
<1>5. /\ Append(w, r) \in Seq(Up) /\ Len(Append(w, r)) = Len(w) + 1
      /\ \A i \in 1..Len(w) : Append(w, r)[i] = w[i]
      /\ Append(w, r)[Len(w) + 1] = r
  BY <1>3, <1>4, AppendProperties
<1>6. /\ Append(sent, m) \in Seq(Recorded) /\ Len(Append(sent, m)) = Len(sent) + 1
      /\ \A i \in 1..Len(sent) : Append(sent, m)[i] = sent[i]
      /\ Append(sent, m)[Len(sent) + 1] = m
  BY <1>3, <1>4, AppendProperties
<1>7. /\ Append(sawAt[c], Len(peer[c].got)) \in Seq(Nat)
      /\ Len(Append(sawAt[c], Len(peer[c].got))) = Len(sawAt[c]) + 1
      /\ \A i \in 1..Len(sawAt[c]) : Append(sawAt[c], Len(peer[c].got))[i] = sawAt[c][i]
      /\ Append(sawAt[c], Len(peer[c].got))[Len(sawAt[c]) + 1] = Len(peer[c].got)
  BY <1>4, AppendProperties
<1>8. /\ peer'[c].sent = Append(sent, m) /\ peer'[c].got = peer[c].got
      /\ peer'[c].state = peer[c].state /\ peer'[c].closed = peer[c].closed
      /\ peer' \in [Conns -> Peers]
  BY <1>1, <1>2, <1>6, ZenonT(60) DEF TalkTypes, Peers
<1>9. toServer'[c] = Append(w, r) /\ sawAt'[c] = Append(sawAt[c], Len(peer[c].got))
  BY <1>1, <1>2 DEF TalkTypes
<1>10. TalkTypes'
  BY <1>1, <1>2, <1>5, <1>7, <1>8 DEF TalkTypes
<1>11. ASSUME NEW d \in Conns, d # c PROVE Talk(d)'
  BY <1>1, <1>2, <1>11, TalkAside DEF TalkInv, TalkTypes, Aside
<1>12. ServerTexts(c)' = ServerTexts(c) /\ ClientTexts(c)' = ClientTexts(c)
       /\ InFlight(c)' = InFlight(c) /\ Opening(c)' = Opening(c)
  BY <1>2 DEF ServerTexts, ClientTexts, InFlight, Opening
<1>13. Downward(c)'
  BY <1>1, <1>2, <1>8, <1>12 DEF Talk, Downward
<1>14. Framed(c)'
  BY <1>1, <1>2, <1>8 DEF Talk, Framed
<1>15. Len(sent) = k + Len(w) /\ k <= Len(sent)
  BY <1>1 DEF Talk, Upward
<1>16. Upward(c)'
  <2>1. \A j \in 1..k : ClientTexts(c)[j] = Append(sent, m)[j]
    <3>1. \A j \in 1..k : ClientTexts(c)[j] = sent[j]
      BY <1>1 DEF Talk, Upward
    <3>2. \A j \in 1..k : j \in 1..Len(sent)
      <4> HIDE DEF k, sent
      <4> QED
        BY <1>4, <1>15
    <3> HIDE DEF k, sent, m
    <3> QED
      BY <1>6, <3>1, <3>2
  <2>2. ASSUME NEW i \in 1..(Len(w) + 1)
        PROVE  /\ Append(w, r)[i].type = "receive" =>
                    /\ k + i <= Len(sent) + 1
                    /\ Append(sent, m)[k + i] = Message("client", Append(w, r)[i].data)
               /\ Append(w, r)[i].type # "disconnect"
    <3>1. CASE i \in 1..Len(w)
      <4>1. w[i].type # "disconnect"
        BY <1>1, <1>4, <3>1 DEF Talk, Upward
      <4>2. w[i].type = "receive" => k + i <= Len(sent)
                                     /\ sent[k + i] = Message("client", w[i].data)
        BY <1>1, <1>4, <3>1 DEF Talk, Upward
      <4>3. k + i \in Nat /\ k + i >= 1
        BY <1>4, <3>1
      <4> QED
        BY <1>4, <1>5, <1>6, <3>1, <4>1, <4>2, <4>3
    <3>2. CASE i = Len(w) + 1
      <4>1. k + i = Len(sent) + 1
        BY <1>4, <1>15, <3>2
      <4>2. Append(w, r)[i] = r /\ Append(sent, m)[k + i] = m /\ k + i <= Len(sent) + 1
        BY <1>4, <1>5, <1>6, <3>2, <4>1
      <4> QED
        BY <4>2 DEF m, r, Message
    <3>3. i \in 1..Len(w) \/ i = Len(w) + 1
      BY <1>4
    <3> QED
      BY <3>1, <3>2, <3>3
  <2>3. DOMAIN Append(w, r) = 1..(Len(w) + 1)
    BY <1>4, <1>5, LenProperties
  <2>4. Len(sent) + 1 = k + (Len(w) + 1) /\ k <= Len(sent) + 1
    BY <1>4, <1>15
  <2>5. ~(transcript[c].close # None /\ transcript[c].close[1] = "client")
    BY <1>1 DEF Talk, Upward
  <2> QED
    BY <1>1, <1>2, <1>5, <1>6, <1>8, <1>9, <1>12, <2>1, <2>2, <2>3, <2>4, <2>5, SMTT(30) DEF Upward
<1>17. Seen(c)'
  <2> DEFINE a == Append(sawAt[c], Len(peer[c].got))
             of(who) == From(transcript[c].messages, who)
  <2>1. \A j \in 1..(Len(sawAt[c]) + 1) : a[j] <= Len(peer[c].got)
    <3> TAKE j \in 1..(Len(sawAt[c]) + 1)
    <3>1. CASE j \in 1..Len(sawAt[c])
      BY <1>1, <1>7, <3>1 DEF Talk, Seen
    <3>2. CASE j = Len(sawAt[c]) + 1
      <4>1. a[j] = Len(peer[c].got)
        BY <1>7, <3>2
      <4> QED
        BY <1>4, <4>1
    <3>3. j \in 1..Len(sawAt[c]) \/ j = Len(sawAt[c]) + 1
      BY <1>4
    <3> QED
      BY <3>1, <3>2, <3>3
  <2>2. \A i \in of("client") : Rank(of("server"), i) >= a[Rank(of("client"), i)]
    <3> TAKE i \in of("client")
    <3>1. Rank(of("client"), i) \in 1..k
      BY <1>1, TalkTypesAt, FromType, RankType DEF ClientTexts
    <3>2. Len(sawAt[c]) = Len(sent)
      BY <1>1 DEF Talk, Seen
    <3>3. Rank(of("client"), i) \in 1..Len(sawAt[c])
      BY <1>4, <1>15, <3>1, <3>2
    <3> QED
      BY <1>1, <1>7, <3>3 DEF Talk, Seen
  <2>3. Len(a) = Len(Append(sent, m))
    BY <1>1, <1>6, <1>7 DEF Talk, Seen
  <2> QED
    BY <1>2, <1>7, <1>8, <1>9, <2>1, <2>2, <2>3 DEF Seen
<1> QED
  BY <1>10, <1>11, <1>13, <1>14, <1>16, <1>17 DEF TalkInv, Talk

\* A client closes; it reads no more, but what it sent is still on its way.
LEMMA TalkCloses ==
  ASSUME TalkInv, NEW c \in Conns, NEW code \in Codes, ClientCloses(c, code)
  PROVE  TalkInv'
<1> DEFINE w == toServer[c]
           r == [type |-> "disconnect", data |-> code]
           k == Len(ClientTexts(c))
<1>1. TalkTypes /\ Talk(c) /\ peer[c].state = "open"
  BY DEF TalkInv, ClientCloses
<1>2. /\ peer' = [peer EXCEPT ![c].state = "closed"]
      /\ toServer' = [toServer EXCEPT ![c] = Append(@, r)]
      /\ toClient' = [toClient EXCEPT ![c] = <<>>]
      /\ transcript' = transcript /\ sending' = sending /\ step' = step /\ app' = app
      /\ sawAt' = sawAt
  BY DEF ClientCloses, recorderVars, handlerVars, socketVars
<1>3. /\ w \in Seq(Up) /\ r \in Up /\ Len(w) \in Nat /\ DOMAIN w = 1..Len(w)
      /\ k \in Nat /\ Len(peer[c].sent) \in Nat
  BY <1>1, TalkTypesAt DEF Up
<1>4. /\ Append(w, r) \in Seq(Up) /\ Len(Append(w, r)) = Len(w) + 1
      /\ \A i \in 1..Len(w) : Append(w, r)[i] = w[i]
      /\ Append(w, r)[Len(w) + 1] = r
      /\ DOMAIN Append(w, r) = 1..(Len(w) + 1)
  BY <1>3, AppendProperties, LenProperties
<1>5. /\ peer'[c].sent = peer[c].sent /\ peer'[c].got = peer[c].got
      /\ peer'[c].state = "closed" /\ peer'[c].closed = peer[c].closed
      /\ peer' \in [Conns -> Peers]
  BY <1>1, <1>2 DEF TalkTypes, Peers
<1>6. toServer'[c] = Append(w, r) /\ toClient'[c] = <<>>
  BY <1>1, <1>2 DEF TalkTypes
<1>7. TalkTypes'
  <2>1. toClient' \in [Conns -> Seq(Down)]
    BY <1>1, <1>2, EmptySeq DEF TalkTypes
  <2> QED
    BY <1>1, <1>2, <1>4, <1>5, <2>1 DEF TalkTypes
<1>8. ASSUME NEW d \in Conns, d # c PROVE Talk(d)'
  BY <1>1, <1>2, <1>8, TalkAside DEF TalkInv, TalkTypes, Aside
<1>9. /\ ServerTexts(c)' = ServerTexts(c) /\ ClientTexts(c)' = ClientTexts(c)
      /\ InFlight(c)' = InFlight(c)
  BY <1>2 DEF ServerTexts, ClientTexts, InFlight
<1>10. Downward(c)'
  BY <1>1, <1>2, <1>5, <1>6, <1>9 DEF Talk, Downward
<1>11. Framed(c)'
  BY <1>1, <1>2, <1>5, <1>6 DEF Talk, Framed
<1>12. Upward(c)'
  <2>1. Len(peer[c].sent) = k + Len(w)
    BY <1>1 DEF Talk, Upward
  <2>2. ASSUME NEW i \in 1..(Len(w) + 1)
        PROVE  /\ Append(w, r)[i].type = "receive" =>
                    /\ k + i <= Len(peer[c].sent)
                    /\ peer[c].sent[k + i] = Message("client", Append(w, r)[i].data)
               /\ Append(w, r)[i].type = "disconnect" =>
                    i = Len(w) + 1 /\ Len(peer[c].sent) = k + i - 1
    <3>1. CASE i \in 1..Len(w)
      BY <1>1, <1>3, <1>4, <3>1 DEF Talk, Upward
    <3>2. CASE i = Len(w) + 1
      <4>1. Append(w, r)[i].type = "disconnect"
        BY <1>4, <3>2
      <4> DEFINE u == Len(w)
                 l == Len(peer[c].sent)
      <4>2. u \in Nat /\ k \in Nat /\ l = k + u /\ i = u + 1
        BY <1>3, <2>1, <3>2
      <4> HIDE DEF u, l, k
      <4>3. l = k + i - 1
        BY <4>2
      <4> QED
        BY <3>2, <4>1, <4>3 DEF l
    <3>3. i \in 1..Len(w) \/ i = Len(w) + 1
      BY <1>3
    <3> QED
      BY <3>1, <3>2, <3>3
  <2>3. ~(transcript[c].close # None /\ transcript[c].close[1] = "client")
    BY <1>1 DEF Talk, Upward
  <2> QED
    BY <1>1, <1>2, <1>4, <1>5, <1>6, <1>9, <2>2, <2>3 DEF Talk, Upward
<1>13. Seen(c)'
  BY <1>1, <1>2, <1>5 DEF Talk, Seen
<1> QED
  BY <1>7, <1>8, <1>10, <1>11, <1>12, <1>13 DEF TalkInv, Talk

\* The server drops the connection.
LEMMA TalkDropped ==
  ASSUME TalkInv, NEW c \in Conns, ClientDropped(c)
  PROVE  TalkInv'
<1>1. TalkTypes /\ Talk(c) /\ peer[c].state \in {"connecting", "open"} /\ toClient[c] = <<>>
  BY DEF TalkInv, ClientDropped
<1>2. /\ peer' = [peer EXCEPT ![c].state = "closed"]
      /\ transcript' = transcript /\ sending' = sending /\ step' = step /\ app' = app
      /\ toServer' = toServer /\ toClient' = toClient /\ sawAt' = sawAt
  BY DEF ClientDropped, recorderVars, handlerVars, socketVars, wireVars
<1>3. /\ peer'[c].state = "closed" /\ peer'[c].got = peer[c].got
      /\ peer'[c].sent = peer[c].sent /\ peer'[c].closed = peer[c].closed
      /\ peer' \in [Conns -> Peers]
  BY <1>1, <1>2 DEF TalkTypes, Peers
<1>4. TalkTypes'
  BY <1>1, <1>2, <1>3 DEF TalkTypes
<1>5. ASSUME NEW d \in Conns, d # c PROVE Talk(d)'
  BY <1>1, <1>2, <1>5, TalkAside DEF TalkInv, TalkTypes, Aside
<1>6. ServerTexts(c)' = ServerTexts(c) /\ ClientTexts(c)' = ClientTexts(c)
      /\ InFlight(c)' = InFlight(c) /\ Opening(c)' = Opening(c)
  BY <1>2 DEF ServerTexts, ClientTexts, InFlight, Opening
<1>7. Downward(c)'
  BY <1>1, <1>2, <1>3, <1>6 DEF Talk, Downward
<1>8. Framed(c)'
  BY <1>1, <1>2, <1>3 DEF Talk, Framed
<1>9. Upward(c)' /\ Seen(c)'
  BY <1>1, <1>2, <1>3, <1>6 DEF Talk, Upward, Seen
<1> QED
  BY <1>4, <1>5, <1>7, <1>8, <1>9 DEF TalkInv, Talk

(***************************************************************************)
(* Conversations                                                           *)
(***************************************************************************)
LEMMA TalkInit == Init => TalkInv
<1> SUFFICES ASSUME Init PROVE TalkInv
  OBVIOUS
<1>1. TalkTypes
  BY EmptySeq DEF Init, Fresh, TalkTypes, Transcripts, Peers
<1>2. ASSUME NEW c \in Conns PROVE Talk(c)
  <2>1. /\ transcript[c].messages = <<>> /\ transcript[c].close = None
        /\ step[c] = "new" /\ app[c] = "connecting" /\ peer[c].state = "unborn"
        /\ peer[c].got = <<>> /\ peer[c].sent = <<>> /\ peer[c].closed = None
        /\ toClient[c] = <<>> /\ toServer[c] = <<>> /\ sawAt[c] = <<>>
    BY DEF Init, Fresh
  <2>2. \A who : From(transcript[c].messages, who) = {}
    BY <2>1 DEF From
  <2>3. ServerTexts(c) = <<>> /\ ClientTexts(c) = <<>>
    BY <2>2, AmongNone DEF ServerTexts, ClientTexts, Texts
  <2>4. InFlight(c) = 0 /\ Opening(c) = 0
    BY <2>1 DEF InFlight, Opening
  <2>5. Downward(c)
    BY <2>1, <2>3, <2>4 DEF Downward
  <2>6. Framed(c)
    BY <2>1 DEF Framed
  <2>7. Upward(c)
    BY <2>1, <2>3 DEF Upward
  <2>8. Seen(c)
    BY <2>1, <2>2 DEF Seen
  <2> QED
    BY <2>5, <2>6, <2>7, <2>8 DEF Talk
<1> QED
  BY <1>1, <1>2 DEF TalkInv

\* Every step of a handler says something, or is quiet, or moves a message.
LEMMA TalkHandler ==
  ASSUME TalkInv, NEW c \in Conns, Handler(c)
  PROVE  TalkInv'
<1>1. TalkTypes /\ Talk(c)
  BY DEF TalkInv
<1>2. step[c] # "new" => peer[c].state # "unborn"
  BY <1>1 DEF Talk, Framed
<1>3. \A code \in Codes : [type |-> "close", data |-> code, after |-> "done"] \in Going
  BY DEF Going
<1>4. ASSUME NEW owned \in BOOLEAN, Begin(c, owned) PROVE TalkInv'
  <2>1. step[c] # "send" /\ peer[c].state # "unborn" /\ UNCHANGED <<app, wireVars, peerVars>>
    BY <1>4 DEF Begin, socketVars
  <2>2. CASE ~owned \/ pending
    <3>1. Say(c, "close", InternalError, "done")
      BY <1>4, <2>2 DEF Begin
    <3> QED
      BY <1>3, <2>1, <3>1, TalkSay, WebsocketAssumption
  <2>3. CASE ~(~owned \/ pending)
    <3>1. step' = [step EXCEPT ![c] = "effect"] /\ UNCHANGED recorderVars
      BY <1>4, <2>3 DEF Begin
    <3> QED
      BY <2>1, <3>1, TalkQuiet
  <2> QED
    BY <2>2, <2>3
<1>5. ASSUME Accept(c) PROVE TalkInv'
  <2>1. /\ step[c] # "send" /\ peer[c].state # "unborn" /\ UNCHANGED <<app, wireVars, peerVars>>
        /\ Say(c, "accept", None, "effect")
    BY <1>2, <1>5 DEF Accept
  <2>2. [type |-> "accept", data |-> None, after |-> "effect"] \in Going
    BY DEF Going
  <2> QED
    BY <2>1, <2>2, TalkSay
<1>6. ASSUME NEW data \in Payloads, Send(c, data) PROVE TalkInv'
  <2>1. /\ step[c] # "send" /\ peer[c].state # "unborn" /\ UNCHANGED <<app, wireVars, peerVars>>
        /\ Say(c, "send", data, "effect")
    BY <1>2, <1>6 DEF Send, socketVars
  <2>2. [type |-> "send", data |-> data, after |-> "effect"] \in Going
    BY DEF Going
  <2> QED
    BY <2>1, <2>2, TalkSay
<1>7. ASSUME NEW code \in Codes, Close(c, code) PROVE TalkInv'
  <2>1. /\ step[c] # "send" /\ peer[c].state # "unborn" /\ UNCHANGED <<app, wireVars, peerVars>>
        /\ Say(c, "close", code, "effect")
    BY <1>2, <1>7 DEF Close, socketVars
  <2>2. [type |-> "close", data |-> code, after |-> "effect"] \in Going
    BY DEF Going
  <2> QED
    BY <2>1, <2>2, TalkSay
<1>8. ASSUME NEW code \in Codes \cup {None}, Return(c, code) PROVE TalkInv'
  <2>1. step[c] # "send" /\ peer[c].state # "unborn" /\ UNCHANGED <<app, wireVars, peerVars>>
    BY <1>2, <1>8 DEF Return, socketVars
  <2>2. CASE code = None
    <3>1. step' = [step EXCEPT ![c] = "done"] /\ UNCHANGED recorderVars
      BY <1>8, <2>2 DEF Return
    <3> QED
      BY <2>1, <3>1, TalkQuiet
  <2>3. CASE code # None
    <3>1. Say(c, "close", code, "done") /\ code \in Codes
      BY <1>8, <2>3 DEF Return
    <3> QED
      BY <1>3, <2>1, <3>1, TalkSay
  <2> QED
    BY <2>2, <2>3
<1>9. ASSUME Raise(c) PROVE TalkInv'
  <2>1. /\ step[c] # "send" /\ peer[c].state # "unborn" /\ UNCHANGED <<app, wireVars, peerVars>>
        /\ step' = [step EXCEPT ![c] = "raised"] /\ UNCHANGED recorderVars
    BY <1>2, <1>9 DEF Raise, socketVars
  <2> QED
    BY <2>1, TalkQuiet
<1>10. ASSUME HandleException(c) PROVE TalkInv'
  <2>1. step[c] # "send" /\ peer[c].state # "unborn" /\ UNCHANGED <<app, wireVars, peerVars>>
    BY <1>2, <1>10 DEF HandleException, socketVars
  <2>2. CASE allowAbrupt /\ error[c] = "disconnect"
    <3>1. step' = [step EXCEPT ![c] = "done"] /\ UNCHANGED recorderVars
      BY <1>10, <2>2 DEF HandleException
    <3> QED
      BY <2>1, <3>1, TalkQuiet
  <2>3. CASE ~(allowAbrupt /\ error[c] = "disconnect")
    <3>1. Say(c, "close", InternalError, "done")
      BY <1>10, <2>3 DEF HandleException
    <3> QED
      BY <1>3, <2>1, <3>1, TalkSay, WebsocketAssumption
  <2> QED
    BY <2>2, <2>3
<1> QED
  BY <1>4, <1>5, <1>6, <1>7, <1>8, <1>9, <1>10, TalkReceiveText, TalkReceiveDisconnect,
     TalkSendReturns, TalkSendRaises DEF Handler

LEMMA TalkStep == TalkInv /\ [Next]_vars => TalkInv'
<1> SUFFICES ASSUME TalkInv, [Next]_vars PROVE TalkInv'
  OBVIOUS
<1>1. ASSUME UNCHANGED <<recorderVars, handlerVars, socketVars, wireVars, peerVars>> PROVE TalkInv'
  <2>1. /\ transcript' = transcript /\ step' = step /\ sending' = sending /\ app' = app
        /\ toServer' = toServer /\ toClient' = toClient /\ peer' = peer /\ sawAt' = sawAt
    BY <1>1 DEF recorderVars, handlerVars, socketVars, wireVars, peerVars
  <2>2. TalkTypes'
    BY <2>1 DEF TalkInv, TalkTypes
  <2>3. \A c \in Conns : Talk(c)'
    BY <2>1, TalkAside DEF TalkInv, Aside
  <2> QED
    BY <2>2, <2>3 DEF TalkInv
<1>2. CASE EnterCapture \/ ExitCapture
  BY <1>1, <1>2 DEF EnterCapture, ExitCapture
<1>3. ASSUME NEW c \in Conns, Client(c) PROVE TalkInv'
  BY <1>3, TalkConnects, TalkGets, TalkDropped, TalkSends, TalkCloses DEF Client
<1>4. CASE UNCHANGED vars
  BY <1>1, <1>4 DEF vars
<1> QED
  BY <1>2, <1>3, <1>4, TalkHandler DEF Next

LEMMA Conversations == Spec => []TalkInv
BY TalkInit, TalkStep, PTL DEF Spec

\* What a client has seen of the server is in the transcript, in order and before the
\* client can see it; and what the client sent is there in order, behind what it had got.
THEOREM Causality == Spec => []CausalOrder
<1>1. TalkInv => CausalOrder
  <2> SUFFICES ASSUME TalkInv, NEW c \in Conns
               PROVE  /\ IsPrefix(peer[c].got, ServerTexts(c))
                      /\ peer[c].state = "open" => transcript[c].accepted
                      /\ peer[c].closed # None => transcript[c].close # None
                      /\ IsPrefix(ClientTexts(c), peer[c].sent)
                      /\ LET of(sender) == From(transcript[c].messages, sender)
                         IN \A i \in of("client") :
                              Rank(of("server"), i) >= sawAt[c][Rank(of("client"), i)]
    BY DEF CausalOrder
  <2>1. TalkTypes /\ Talk(c)
    BY DEF TalkInv
  <2>2. IsPrefix(peer[c].got, ServerTexts(c))
    BY <2>1, PrefixByElements, TalkTypesAt DEF Talk, Downward
  <2>3. IsPrefix(ClientTexts(c), peer[c].sent)
    BY <2>1, PrefixByElements, TalkTypesAt DEF Talk, Upward
  <2> QED
    BY <2>1, <2>2, <2>3 DEF Talk, Framed, Seen
<1> QED
  BY <1>1, Conversations, PTL

\* The transcript of a connection that its client closed holds all that the client sent.
THEOREM Completeness == Spec => []NothingMissingBeforeClose
<1>1. TalkInv => NothingMissingBeforeClose
  <2> SUFFICES ASSUME TalkInv, NEW c \in Conns, transcript[c].close # None,
                      transcript[c].close[1] = "client"
               PROVE  ClientTexts(c) = peer[c].sent
    BY DEF NothingMissingBeforeClose
  <2>1. TalkTypes /\ Talk(c)
    BY DEF TalkInv
  <2>2. /\ Len(ClientTexts(c)) = Len(peer[c].sent)
        /\ \A k \in 1..Len(ClientTexts(c)) : ClientTexts(c)[k] = peer[c].sent[k]
    BY <2>1 DEF Talk, Upward
  <2> QED
    BY <2>1, <2>2, TalkTypesAt, SeqEqual
<1> QED
  BY <1>1, Conversations, PTL

(***************************************************************************)
(* The lists of the captures                                               *)
(***************************************************************************)
LEMMA ListInit == Init => ListInv
<1> SUFFICES ASSUME Init PROVE ListInv
  OBVIOUS
<1>1. contexts = <<>> /\ begun = <<>> /\ openAt = [c \in Conns |-> {}]
  BY DEF Init
<1>2. CallsInOrderBegun
  BY <1>1 DEF CallsInOrderBegun
<1> QED
  BY <1>1, <1>2, EmptySeq DEF ListInv

\* A list is that of its capture as long as the connections that began are the same.
LEMMA ListAside ==
  ASSUME ListInv, UNCHANGED <<contexts, begun, openAt>>,
         \A c \in Conns : step[c] # "new" => step'[c] # "new"
  PROVE  ListInv'
<1>1. contexts' = contexts /\ begun' = begun /\ openAt' = openAt
  OBVIOUS
<1>2. \A i \in DOMAIN begun : begun[i] \in Conns
  BY ElementOfSeq, LenProperties DEF ListInv
<1>3. CallsInOrderBegun'
  BY <1>1 DEF ListInv, CallsInOrderBegun
<1> QED
  BY <1>1, <1>2, <1>3 DEF ListInv

LEMMA ListEnter ==
  ASSUME ListInv, EnterCapture
  PROVE  ListInv'
<1> DEFINE new == [open |-> TRUE, calls |-> <<>>]
           C == [open : BOOLEAN, calls : Seq(Conns)]
<1>1. step' = step /\ begun' = begun /\ openAt' = openAt
  BY DEF EnterCapture, handlerVars
<1>2. CASE contexts' = contexts
  BY <1>1, <1>2, ListAside
<1>3. CASE contexts' = Append(contexts, new)
  <2>1. contexts \in Seq(C) /\ new \in C /\ Len(contexts) \in Nat
        /\ DOMAIN contexts = 1..Len(contexts)
    BY EmptySeq, LenProperties DEF ListInv
  <2>2. /\ contexts' \in Seq(C) /\ Len(contexts') = Len(contexts) + 1
        /\ DOMAIN contexts' = 1..(Len(contexts) + 1)
        /\ \A k \in 1..Len(contexts) : contexts'[k] = contexts[k]
        /\ contexts'[Len(contexts) + 1] = new
    BY <1>3, <2>1, AppendProperties, LenProperties
  <2>3. \A i \in DOMAIN begun : begun[i] \in Conns
    BY ElementOfSeq, LenProperties DEF ListInv
  <2>4. \A i \in DOMAIN begun : Len(contexts) + 1 \notin openAt[begun[i]]
    BY <2>1, <2>3 DEF ListInv
  <2>5. ASSUME NEW k \in DOMAIN contexts'
        PROVE  contexts'[k].calls = Among(begun, {i \in DOMAIN begun : k \in openAt[begun[i]]})
    <3>1. CASE k \in 1..Len(contexts)
      BY <2>1, <2>2, <3>1 DEF ListInv, CallsInOrderBegun
    <3>2. CASE k = Len(contexts) + 1
      <4>1. {i \in DOMAIN begun : k \in openAt[begun[i]]} = {}
        BY <2>4, <3>2
      <4>2. Among(begun, {i \in DOMAIN begun : k \in openAt[begun[i]]}) = <<>>
        BY <4>1, AmongNone
      <4> HIDE DEF C
      <4>3. contexts'[k].calls = <<>>
        BY <2>2, <3>2
      <4> QED
        BY <4>2, <4>3
    <3> QED
      BY <2>1, <2>2, <3>1, <3>2
  <2>6. CallsInOrderBegun'
    BY <1>1, <2>5 DEF CallsInOrderBegun
  <2>7. \A c \in Conns : openAt[c] \subseteq DOMAIN contexts'
    BY <2>1, <2>2 DEF ListInv
  <2> QED
    BY <1>1, <2>2, <2>6, <2>7 DEF ListInv
<1> QED
  BY <1>2, <1>3 DEF EnterCapture

LEMMA ListExit ==
  ASSUME ListInv, ExitCapture
  PROVE  ListInv'
<1> DEFINE C == [open : BOOLEAN, calls : Seq(Conns)]
<1>1. step' = step /\ begun' = begun /\ openAt' = openAt
  BY DEF ExitCapture, handlerVars
<1>2. PICK k \in DOMAIN contexts : contexts' = [contexts EXCEPT ![k].open = FALSE]
  BY DEF ExitCapture
<1>3. contexts \in Seq(C) /\ DOMAIN contexts = 1..Len(contexts) /\ contexts[k] \in C
  BY ElementOfSeq, LenProperties DEF ListInv
<1>4. [contexts[k] EXCEPT !.open = FALSE] \in C
      /\ [contexts[k] EXCEPT !.open = FALSE].calls = contexts[k].calls
  BY <1>3
<1>5. contexts' = [contexts EXCEPT ![k] = [contexts[k] EXCEPT !.open = FALSE]]
  BY <1>2
<1>6. /\ contexts' \in Seq(C) /\ DOMAIN contexts' = DOMAIN contexts
      /\ \A l \in DOMAIN contexts : contexts'[l].calls = contexts[l].calls
  BY <1>3, <1>4, <1>5, ExceptSeq
<1>7. CallsInOrderBegun'
  BY <1>1, <1>6 DEF ListInv, CallsInOrderBegun
<1> QED
  BY <1>1, <1>6, <1>7 DEF ListInv

\* A connection begins: it joins the lists of the open captures, behind those before it.
LEMMA ListBegin ==
  ASSUME ListInv, step \in [Conns -> {"new", "effect", "send", "raised", "done"}],
         NEW c \in Conns, NEW owned, Begin(c, owned)
  PROVE  ListInv'
<1> DEFINE C == [open : BOOLEAN, calls : Seq(Conns)]
           n == Len(begun) + 1
           within(k) == {i \in DOMAIN begun : k \in openAt[begun[i]]}
           opens == {k \in DOMAIN contexts : contexts[k].open}
<1>1. /\ step[c] = "new" /\ contexts' = Sinks(c) /\ begun' = Append(begun, c)
      /\ openAt' = [openAt EXCEPT ![c] = opens]
      /\ step' = [step EXCEPT ![c] = "send"] \/ step' = [step EXCEPT ![c] = "effect"]
  BY DEF Begin, Say
<1>2. /\ contexts \in Seq(C) /\ DOMAIN contexts = 1..Len(contexts) /\ Len(contexts) \in Nat
      /\ \A k \in DOMAIN contexts : contexts[k] \in C
      /\ begun \in Seq(Conns) /\ Len(begun) \in Nat /\ DOMAIN begun = 1..Len(begun)
      /\ \A i \in DOMAIN begun : begun[i] \in Conns /\ begun[i] # c
  <2>1. contexts \in Seq(C) /\ begun \in Seq(Conns)
    BY DEF ListInv
  <2>2. DOMAIN contexts = 1..Len(contexts) /\ Len(contexts) \in Nat
        /\ DOMAIN begun = 1..Len(begun) /\ Len(begun) \in Nat
    BY <2>1, LenProperties
  <2>3. \A k \in DOMAIN contexts : contexts[k] \in C
    BY <2>1, <2>2, ElementOfSeq
  <2>4. \A i \in DOMAIN begun : begun[i] \in Conns
    BY <2>1, <2>2, ElementOfSeq
  <2>5. \A i \in DOMAIN begun : begun[i] # c
    BY <1>1 DEF ListInv
  <2> QED
    BY <2>1, <2>2, <2>3, <2>4, <2>5
<1>3. /\ begun' \in Seq(Conns) /\ DOMAIN begun' = 1..n
      /\ \A i \in 1..Len(begun) : begun'[i] = begun[i]
      /\ begun'[n] = c
  BY <1>1, <1>2, AppendProperties, LenProperties
<1>4. openAt'[c] = opens /\ \A d \in Conns \ {c} : openAt'[d] = openAt[d]
  BY <1>1 DEF ListInv
<1>5. ASSUME NEW k \in DOMAIN contexts
      PROVE  /\ contexts'[k] \in C
             /\ contexts'[k].calls = Among(begun', {i \in DOMAIN begun' : k \in openAt'[begun'[i]]})
  <2>1. contexts[k].calls = Among(begun, within(k)) /\ contexts[k] \in C
    BY <1>2 DEF ListInv, CallsInOrderBegun
  <2>2. within(k) \in SUBSET (1..Len(begun))
    BY <1>2
  <2>3. CASE contexts[k].open
    <3>1. contexts'[k] = [contexts[k] EXCEPT !.calls = Append(@, c)]
      BY <1>1, <2>3 DEF Sinks
    <3>2. contexts[k].calls \in Seq(Conns) /\ Append(contexts[k].calls, c) \in Seq(Conns)
      BY <2>1, AppendProperties
    <3>3. contexts'[k] \in C /\ contexts'[k].calls = Append(contexts[k].calls, c)
      BY <2>1, <3>1, <3>2
    <3>4. {i \in DOMAIN begun' : k \in openAt'[begun'[i]]} = within(k) \cup {n}
      <4>1. \A i \in 1..Len(begun) : k \in openAt'[begun'[i]] <=> k \in openAt[begun[i]]
        BY <1>2, <1>3, <1>4
      <4>2. k \in openAt'[begun'[n]]
        BY <1>3, <1>4, <2>3
      <4>3. 1..n = 1..Len(begun) \cup {n}
        BY <1>2
      <4> QED
        BY <1>2, <1>3, <4>1, <4>2, <4>3
    <3>5. Among(begun', within(k) \cup {n}) = Append(Among(begun, within(k)), c)
      <4> HIDE DEF within
      <4>1. Among(Append(begun, c), within(k) \cup {Len(begun) + 1})
              = Append(Among(begun, within(k)), c)
        <5>1. begun \in Seq(Conns) /\ within(k) \subseteq 1..Len(begun)
          BY <1>2, <2>2
        <5> QED
          BY <5>1, AmongAppend, SMTT(60)
      <4> QED
        BY <1>1, <1>2, <4>1
    <3> QED
      BY <2>1, <3>3, <3>4, <3>5
  <2>4. CASE ~contexts[k].open
    <3>1. contexts'[k] = contexts[k]
      BY <1>1, <2>4 DEF Sinks
    <3>2. {i \in DOMAIN begun' : k \in openAt'[begun'[i]]} = within(k)
      <4>1. \A i \in 1..Len(begun) : k \in openAt'[begun'[i]] <=> k \in openAt[begun[i]]
        BY <1>2, <1>3, <1>4
      <4>2. k \notin openAt'[begun'[n]] /\ n \notin 1..Len(begun)
        BY <1>2, <1>3, <1>4, <2>4
      <4>3. 1..n = 1..Len(begun) \cup {n}
        BY <1>2
      <4> QED
        BY <1>2, <1>3, <4>1, <4>2, <4>3
    <3>3. Among(begun', within(k)) = Among(begun, within(k))
      BY <1>1, <1>2, <2>2, AmongAppendOther
    <3> QED
      BY <2>1, <3>1, <3>2, <3>3
  <2> QED
    BY <2>3, <2>4
<1>6. DOMAIN contexts' = DOMAIN contexts /\ contexts' = [k \in 1..Len(contexts) |-> contexts'[k]]
  BY <1>1, <1>2 DEF Sinks
<1>7. contexts' \in Seq(C)
  <2>1. contexts' \in [1..Len(contexts) -> C]
    BY <1>2, <1>5, <1>6
  <2> QED
    <3>1. contexts' \in UNION {[1..m -> C] : m \in Nat}
      BY <1>2, <2>1
    <3> QED
      BY <3>1, SeqDef
<1>8. CallsInOrderBegun'
  BY <1>5, <1>6 DEF CallsInOrderBegun
<1>9. \A i \in DOMAIN begun' : step'[begun'[i]] # "new"
  <2>1. step'[c] # "new" /\ \A d \in Conns \ {c} : step'[d] = step[d]
    BY <1>1
  <2>2. \A i \in DOMAIN begun : step[begun[i]] # "new"
    BY DEF ListInv
  <2>3. 1..n = 1..Len(begun) \cup {n}
    BY <1>2
  <2> QED
    BY <1>2, <1>3, <2>1, <2>2, <2>3
<1>10. opens \in SUBSET Nat /\ opens \subseteq DOMAIN contexts'
  BY <1>2, <1>6
<1>11. openAt' \in [Conns -> SUBSET Nat]
  BY <1>1, <1>10 DEF ListInv
<1>12. \A d \in Conns : openAt'[d] \subseteq DOMAIN contexts'
  BY <1>4, <1>6, <1>10 DEF ListInv
<1> QED
  BY <1>3, <1>7, <1>8, <1>9, <1>11, <1>12 DEF ListInv

LEMMA ListStep == TalkTypes /\ ListInv /\ [Next]_vars => ListInv'
<1> SUFFICES ASSUME TalkTypes, ListInv, [Next]_vars PROVE ListInv'
  OBVIOUS
<1>1. step \in [Conns -> {"new", "effect", "send", "raised", "done"}]
  BY DEF TalkTypes
<1>2. ASSUME NEW c \in Conns, Client(c) PROVE ListInv'
  <2>1. step' = step /\ UNCHANGED <<contexts, begun, openAt>>
    BY <1>2 DEF Client, ClientConnects, ClientGets, ClientDropped, ClientSends, ClientCloses,
       endpointVars, handlerVars
  <2> QED
    BY <2>1, ListAside
<1>3. ASSUME NEW c \in Conns, UNCHANGED <<contexts, begun, openAt>>,
             NEW x, x # "new", step' = [step EXCEPT ![c] = x] \/ step' = step
      PROVE  ListInv'
  <2>1. \A d \in Conns : step[d] # "new" => step'[d] # "new"
    BY <1>1, <1>3
  <2> QED
    BY <1>3, <2>1, ListAside
<1>4. ASSUME NEW c \in Conns, Handler(c) PROVE ListInv'
  <2>1. ASSUME SendReturns(c) PROVE ListInv'
    <3>1. sending[c] \in Going
      BY <2>1 DEF SendReturns, TalkTypes
    <3>2. sending[c].after # "new"
      BY <3>1 DEF Going
    <3> QED
      BY <1>3, <2>1, <3>2 DEF SendReturns, endpointVars
  <2>2. ASSUME NEW kind, SendRaises(c, kind) PROVE ListInv'
    BY <1>3, <2>2 DEF SendRaises, endpointVars
  <2>3. ASSUME Accept(c) PROVE ListInv'
    BY <1>3, <2>3 DEF Accept, Say, endpointVars
  <2>4. ASSUME NEW data, Send(c, data) PROVE ListInv'
    BY <1>3, <2>4 DEF Send, Say, endpointVars
  <2>5. ASSUME NEW code, Close(c, code) PROVE ListInv'
    BY <1>3, <2>5 DEF Close, Say, endpointVars
  <2>6. ASSUME NEW code, Return(c, code) PROVE ListInv'
    BY <1>3, <2>6 DEF Return, Say, endpointVars
  <2>7. ASSUME Raise(c) PROVE ListInv'
    BY <1>3, <2>7 DEF Raise, endpointVars
  <2>8. ASSUME HandleException(c) PROVE ListInv'
    BY <1>3, <2>8 DEF HandleException, Say
  <2>9. ASSUME ReceiveText(c) PROVE ListInv'
    BY <1>3, <2>9 DEF ReceiveText, endpointVars, handlerVars
  <2>10. ASSUME ReceiveDisconnect(c) PROVE ListInv'
    BY <1>3, <2>10 DEF ReceiveDisconnect, endpointVars
  <2>11. ASSUME NEW owned, Begin(c, owned) PROVE ListInv'
    BY <1>1, <2>11, ListBegin
  <2> QED
    BY <1>4, <2>1, <2>2, <2>3, <2>4, <2>5, <2>6, <2>7, <2>8, <2>9, <2>10, <2>11 DEF Handler
<1>5. CASE UNCHANGED vars
  <2>1. step' = step /\ UNCHANGED <<contexts, begun, openAt>>
    BY <1>5 DEF vars, endpointVars, handlerVars
  <2> QED
    BY <2>1, ListAside
<1> QED
  BY <1>2, <1>4, <1>5, ListEnter, ListExit DEF Next

LEMMA Lists == Spec => []ListInv
<1>1. TalkInv => TalkTypes
  BY DEF TalkInv
<1> QED
  BY <1>1, ListInit, ListStep, Conversations, PTL DEF Spec

\* The list of a capture holds the connections that began while it was open, in that order.
THEOREM CaptureOrder == Spec => []CallsInOrderBegun
<1>1. ListInv => CallsInOrderBegun
  BY DEF ListInv
<1> QED
  BY <1>1, Lists, PTL

(***************************************************************************)
(* Patterns                                                                *)
(***************************************************************************)
Elements == {Ellipsis} \cup [sender : {"server", "client"}, data : Payloads \cup {Ellipsis}]

\* The messages of a pattern stand between its two ends.
First(p) == IF AnyStart(p) THEN 2 ELSE 1
Final(p) == IF AnyEnd(p) THEN Len(p) - 1 ELSE Len(p)

LEMMA PatternType ==
  ASSUME NEW p \in Patterns
  PROVE  /\ p \in Seq(Elements) /\ Len(p) \in Nat /\ DOMAIN p = 1..Len(p)
         /\ \A i \in 1..Len(p) : p[i] \in Elements
         /\ \A i \in 1..Len(p) : p[i] = Ellipsis => i = 1 \/ i = Len(p)
         /\ p = <<>> <=> Len(p) = 0
<1>1. p \in Seq(Elements) /\ \A i \in DOMAIN p : p[i] = Ellipsis => i \in {1, Len(p)}
  BY WebsocketAssumption DEF Elements
<1> QED
  BY <1>1, LenProperties, ElementOfSeq, EmptySeq

\* The end of a pattern is open if its last element is an Ellipsis that is not its first.
LEMMA AnyEndIs ==
  ASSUME NEW p \in Patterns
  PROVE  /\ AnyStart(p) <=> Len(p) >= 1 /\ p[1] = Ellipsis
         /\ AnyEnd(p) <=> Len(p) >= First(p) /\ p[Len(p)] = Ellipsis
         /\ Rest(p) \in Seq(Elements) /\ Len(Rest(p)) = Len(p) - First(p) + 1
         /\ \A k \in 1..Len(Rest(p)) : Rest(p)[k] = p[k + First(p) - 1]
<1>1. AnyStart(p) <=> Len(p) >= 1 /\ p[1] = Ellipsis
  BY PatternType DEF AnyStart
<1>2. CASE AnyStart(p)
  <2>1. /\ Tail(p) \in Seq(Elements) /\ Len(Tail(p)) = Len(p) - 1
        /\ \A k \in 1..Len(Tail(p)) : Tail(p)[k] = p[k + 1]
    BY <1>2, PatternType, HeadTailProperties DEF AnyStart
  <2>2. Rest(p) = Tail(p) /\ First(p) = 2
    BY <1>2 DEF Rest, First
  <2>3. /\ Rest(p) \in Seq(Elements) /\ Len(Rest(p)) = Len(p) - First(p) + 1
        /\ \A k \in 1..Len(Rest(p)) : Rest(p)[k] = p[k + First(p) - 1]
    BY <2>1, <2>2, PatternType
  <2>4. Rest(p) # <<>> <=> Len(p) >= 2
    <3>1. Tail(p) = <<>> <=> Len(Tail(p)) = 0
      BY <2>1, EmptySeq
    <3>2. Len(p) \in Nat /\ Len(p) >= 1
      BY <1>1, <1>2, PatternType
    <3> QED
      BY <2>1, <2>2, <3>1, <3>2
  <2>5. Len(p) >= 2 => Last(Rest(p)) = p[Len(p)]
    BY <2>1, <2>2, PatternType DEF Last
  <2> QED
    BY <1>1, <2>2, <2>3, <2>4, <2>5 DEF AnyEnd
<1>3. CASE ~AnyStart(p)
  <2>1. Rest(p) = p /\ First(p) = 1
    BY <1>3 DEF Rest, First
  <2>2. Rest(p) # <<>> <=> Len(p) >= 1
    BY <2>1, PatternType
  <2> QED
    BY <1>1, <2>1, <2>2, PatternType DEF AnyEnd, Last
<1> QED
  BY <1>2, <1>3

\* The messages of a pattern, by its elements.
LEMMA ExpectedType ==
  ASSUME NEW p \in Patterns
  PROVE  /\ Expected(p) \in Seq(Elements) /\ Len(Expected(p)) = Final(p) - First(p) + 1
         /\ \A k \in 1..(Final(p) - First(p) + 1) : Expected(p)[k] = p[k + First(p) - 1]
<1> DEFINE a == First(p)
           b == Final(p)
           n == Len(p)
           r == Rest(p)
<1>1. n \in Nat /\ a \in {1, 2} /\ a <= n + 1 /\ b \in {n - 1, n} /\ b >= 0
  BY PatternType, AnyEndIs DEF First, Final
<1>2. /\ r \in Seq(Elements) /\ Len(r) = n - a + 1
      /\ \A k \in 1..Len(r) : r[k] = p[k + a - 1] /\ r[k] \in Elements
  BY AnyEndIs, ElementOfSeq, LenProperties
<1>3. /\ Expected(p) \in Seq(Elements) /\ Len(Expected(p)) = b - a + 1
      /\ \A k \in 1..(b - a + 1) : Expected(p)[k] = p[k + a - 1]
  <2>1. CASE AnyEnd(p)
    <3>1. Expected(p) = SubSeq(r, 1, Len(r) - 1) /\ b = n - 1 /\ Len(r) >= 1
      BY <1>1, <1>2, <2>1, AnyEndIs DEF Expected, Front, Final
    <3>2. \A i \in 1..(Len(r) - 1) : r[i] \in Elements
      BY <1>1, <1>2
    <3>3. /\ SubSeq(r, 1, Len(r) - 1) \in Seq(Elements)
          /\ Len(SubSeq(r, 1, Len(r) - 1)) = Len(r) - 1
          /\ \A i \in 1..(Len(r) - 1) : SubSeq(r, 1, Len(r) - 1)[i] = r[i]
      <4> DEFINE l == Len(r) - 1
      <4>1. l \in Nat /\ \A i \in 1..l : r[i] \in Elements
        BY <1>1, <1>2, <3>1, <3>2
      <4> HIDE DEF l, r
      <4>2. /\ SubSeq(r, 1, l) \in Seq(Elements)
            /\ Len(SubSeq(r, 1, l)) = IF 1 <= l THEN l - 1 + 1 ELSE 0
            /\ \A i \in 1..(l - 1 + 1) : SubSeq(r, 1, l)[i] = r[1 + i - 1]
        BY <4>1, SubSeqProperties
      <4>3. /\ Len(SubSeq(r, 1, l)) = l
            /\ \A i \in 1..l : SubSeq(r, 1, l)[i] = r[i]
        BY <4>1, <4>2
      <4> QED
        BY <4>2, <4>3 DEF l
    <3>4. Len(r) - 1 = b - a + 1
      BY <1>1, <1>2, <3>1
    <3> HIDE DEF r, a, b
    <3>5. \A i \in 1..(b - a + 1) : i \in 1..Len(r)
      BY <3>1, <3>4, <1>1, <1>2
    <3> QED
      BY <1>2, <3>1, <3>3, <3>4, <3>5
  <2>2. CASE ~AnyEnd(p)
    <3>1. Expected(p) = r /\ b = n
      BY <2>2 DEF Expected, Final
    <3> QED
      BY <1>1, <1>2, <3>1
  <2> QED
    BY <2>1, <2>2
<1> QED
  BY <1>3

\* What is left of a pattern without its Ellipses is what stands between its ends.
LEMMA ExpectedIs ==
  ASSUME NEW p \in Patterns
  PROVE  Expected(p) = Among(p, {i \in DOMAIN p : p[i] # Ellipsis})
<1> DEFINE a == First(p)
           b == Final(p)
           n == Len(p)
           r == Rest(p)
<1>1. n \in Nat /\ a \in {1, 2} /\ a <= n + 1 /\ b \in {n - 1, n} /\ b >= 0
  BY PatternType, AnyEndIs DEF First, Final
<1>2. /\ r \in Seq(Elements) /\ Len(r) = n - a + 1
      /\ \A k \in 1..Len(r) : r[k] = p[k + a - 1] /\ r[k] \in Elements
  BY AnyEndIs, ElementOfSeq, LenProperties
<1>3. /\ Expected(p) \in Seq(Elements) /\ Len(Expected(p)) = b - a + 1
      /\ \A k \in 1..(b - a + 1) : Expected(p)[k] = p[k + a - 1]
  BY ExpectedType
<1>4. {i \in DOMAIN p : p[i] # Ellipsis} = a..b
  <2>1. DOMAIN p = 1..n /\ \A i \in 1..n : p[i] = Ellipsis => i = 1 \/ i = n
    BY PatternType
  <2>2. a = 2 <=> n >= 1 /\ p[1] = Ellipsis
    BY AnyEndIs DEF First
  <2>3. b = n - 1 <=> n >= a /\ p[n] = Ellipsis
    BY <1>1, AnyEndIs DEF Final
  <2> HIDE DEF a, b
  <2>4. ASSUME NEW i \in 1..n PROVE p[i] # Ellipsis <=> a <= i /\ i <= b
    <3>1. CASE i = 1 /\ p[1] = Ellipsis
      BY <1>1, <2>2, <3>1
    <3>2. CASE i = n /\ p[n] = Ellipsis /\ ~(i = 1 /\ p[1] = Ellipsis)
      <4>1. n >= a
        BY <1>1, <2>2, <3>2
      <4> QED
        BY <1>1, <2>3, <3>2, <4>1
    <3>3. CASE p[i] # Ellipsis
      <4>1. a <= i
        BY <1>1, <2>2, <3>3
      <4>2. i <= b
        BY <1>1, <2>3, <3>3
      <4> QED
        BY <3>3, <4>1, <4>2
    <3>4. p[i] = Ellipsis => i = 1 \/ i = n
      BY <2>1
    <3>5. i = 1 /\ p[i] = Ellipsis => i = 1 /\ p[1] = Ellipsis
      OBVIOUS
    <3>6. i = n /\ p[i] = Ellipsis => i = n /\ p[n] = Ellipsis
      OBVIOUS
    <3> QED
      BY <3>1, <3>2, <3>3, <3>4, <3>5, <3>6
  <2>5. a..b \subseteq 1..n
    BY <1>1
  <2>6. \A i : i \in a..b <=> i \in 1..n /\ a <= i /\ i <= b
    BY <1>1, <2>5
  <2>7. {i \in DOMAIN p : p[i] # Ellipsis} = {i \in 1..n : a <= i /\ i <= b}
    BY <2>1, <2>4
  <2> QED
    BY <2>6, <2>7
<1>5. Among(p, a..b) = SubSeq(p, a, b)
  <2>1. p \in Seq(Elements) /\ a \in 1..(Len(p) + 1) /\ b \in 0..Len(p)
    BY <1>1, PatternType
  <2> HIDE DEF a, b
  <2> QED
    BY <2>1, AmongInterval
<1>6. /\ SubSeq(p, a, b) \in Seq(Elements) /\ Len(SubSeq(p, a, b)) = b - a + 1
      /\ \A k \in 1..(b - a + 1) : SubSeq(p, a, b)[k] = p[a + k - 1]
  <2>1. a \in Int /\ b \in Int /\ b - a + 1 >= 0 /\ \A i \in a..b : p[i] \in Elements
    BY <1>1, <1>3, PatternType, LenProperties
  <2> HIDE DEF a, b
  <2>2. /\ SubSeq(p, a, b) \in Seq(Elements)
        /\ Len(SubSeq(p, a, b)) = IF a <= b THEN b - a + 1 ELSE 0
        /\ \A k \in 1..(b - a + 1) : SubSeq(p, a, b)[k] = p[a + k - 1]
    BY <2>1, SubSeqProperties
  <2> QED
    BY <2>1, <2>2
<1>7. \A k \in 1..(b - a + 1) : Expected(p)[k] = SubSeq(p, a, b)[k]
  BY <1>1, <1>3, <1>6, SMTT(30)
<1> HIDE DEF a, b
<1>8. Expected(p) = SubSeq(p, a, b)
  BY <1>3, <1>6, <1>7, SeqEqual
<1> QED
  BY <1>4, <1>5, <1>8

\* The least of a set of numbers is one of them.
LEMMA LeastIn ==
  ASSUME NEW S \in SUBSET Nat, S # {}
  PROVE  Min(S) \in S
<1> DEFINE R == OpToRel(<, Nat)
<1>1. PICK x \in S : \A y \in S : ~(<<y, x>> \in R)
  BY WFMin, NatLessThanWellFounded
<1>2. ASSUME NEW y \in S PROVE x <= y
  <2>1. x \in Nat /\ y \in Nat
    OBVIOUS
  <2>2. ~(y < x)
    BY <1>1, <2>1 DEF OpToRel
  <2> QED
    BY <2>1, <2>2
<1> QED
  BY <1>2 DEF Min

\* Trying the candidate indices is placing the messages of the pattern.
LEMMA PatternPlaced ==
  ASSUME NEW p \in Patterns, NEW ms \in Seq(Recorded)
  PROVE  MatchesMessages(p, ms) <=> Placed(p, ms)
<1> DEFINE n == Len(ms)
           es == Expected(p)
           l == Len(es)
           fits(s) == \A i \in DOMAIN es : MatchesMessage(es[i], ms[s + i])
<1>1. n \in Nat /\ es \in Seq(Elements) /\ l \in Nat /\ l = Final(p) - First(p) + 1
  <2>1. es \in Seq(Elements) /\ l = Final(p) - First(p) + 1
    BY ExpectedType
  <2> QED
    BY <2>1, LenProperties
<1>2. /\ AnyStart(p) <=> p # <<>> /\ p[1] = Ellipsis
      /\ p # <<>> /\ p[Len(p)] = Ellipsis <=> AnyEnd(p) \/ (AnyStart(p) /\ Len(p) = 1)
  <2>1. Len(p) \in Nat /\ (p = <<>> <=> Len(p) = 0)
    BY PatternType
  <2>2. /\ AnyStart(p) <=> Len(p) >= 1 /\ p[1] = Ellipsis
        /\ AnyEnd(p) <=> Len(p) >= First(p) /\ p[Len(p)] = Ellipsis
    BY AnyEndIs
  <2>3. First(p) = IF AnyStart(p) THEN 2 ELSE 1
    BY DEF First
  <2> DEFINE f == p[1] = Ellipsis
             last == p[Len(p)] = Ellipsis
             size == Len(p)
  <2>4. size = 1 => (f <=> last)
    OBVIOUS
  <2>5. /\ size \in Nat /\ (p = <<>> <=> size = 0)
        /\ AnyStart(p) <=> size >= 1 /\ f
        /\ AnyEnd(p) <=> size >= (IF AnyStart(p) THEN 2 ELSE 1) /\ last
    BY <2>1, <2>2, <2>3
  <2> HIDE DEF f, last, size
  <2>6. /\ AnyStart(p) <=> p # <<>> /\ f
        /\ p # <<>> /\ last <=> AnyEnd(p) \/ (AnyStart(p) /\ size = 1)
    BY <2>4, <2>5
  <2> QED
    BY <2>6 DEF f, last, size
<1>3. Len(p) = 1 /\ AnyStart(p) => l = 0 /\ ~AnyEnd(p)
  BY <1>1, AnyEndIs DEF First, Final
<1>4. MatchesMessages(p, ms) <=>
        /\ ~AnyStart(p) /\ ~AnyEnd(p) => n = l
        /\ n >= l
        /\ \E s \in Starts(p, n) : fits(s)
  BY DEF MatchesMessages
<1>5. Placed(p, ms) <=>
        \E a \in 0..(n - l) :
          /\ a > 0 => AnyStart(p)
          /\ a + l < n => AnyEnd(p) \/ (AnyStart(p) /\ Len(p) = 1)
          /\ fits(a)
  BY <1>2, ExpectedIs DEF Placed
<1> HIDE DEF fits, n, l, es
<1>6. CASE ~AnyStart(p)
  <2>1. Starts(p, n) = {0}
    BY <1>6 DEF Starts
  <2>2. ASSUME MatchesMessages(p, ms) PROVE Placed(p, ms)
    <3>1. 0 \in 0..(n - l) /\ ~(0 > 0) /\ (0 + l < n => AnyEnd(p)) /\ fits(0)
      BY <1>1, <1>4, <1>6, <2>1, <2>2
    <3> QED
      BY <1>5, <3>1
  <2>3. ASSUME Placed(p, ms) PROVE MatchesMessages(p, ms)
    <3>1. PICK a \in 0..(n - l) : /\ a > 0 => AnyStart(p)
                                  /\ a + l < n => AnyEnd(p) \/ (AnyStart(p) /\ Len(p) = 1)
                                  /\ fits(a)
      BY <1>5, <2>3
    <3>2. a = 0 /\ n >= l
      BY <1>1, <1>6, <3>1
    <3>3. ~AnyEnd(p) => n = l
      BY <1>1, <1>6, <3>1, <3>2
    <3> QED
      BY <1>4, <2>1, <3>1, <3>2, <3>3
  <2> QED
    BY <2>2, <2>3
<1>7. CASE AnyStart(p) /\ ~AnyEnd(p)
  <2>1. Starts(p, n) = {n - l}
    BY <1>7 DEF Starts, l, es
  <2>2. ASSUME MatchesMessages(p, ms) PROVE Placed(p, ms)
    <3>1. n - l \in 0..(n - l) /\ ~((n - l) + l < n) /\ fits(n - l)
      BY <1>1, <1>4, <2>1, <2>2
    <3> QED
      BY <1>5, <1>7, <3>1
  <2>3. ASSUME Placed(p, ms) PROVE MatchesMessages(p, ms)
    <3>1. PICK a \in 0..(n - l) : /\ a + l < n => AnyEnd(p) \/ (AnyStart(p) /\ Len(p) = 1)
                                  /\ fits(a)
      BY <1>5, <2>3
    <3>2. n >= l
      BY <1>1, <3>1
    <3>3. CASE Len(p) = 1
      <4>1. DOMAIN es = {}
        BY <1>1, <1>3, <1>7, <3>3, LenProperties DEF l
      <4>2. fits(n - l)
        BY <4>1 DEF fits
      <4> QED
        BY <1>4, <1>7, <2>1, <3>2, <4>2
    <3>4. CASE Len(p) # 1
      <4>1. a = n - l
        BY <1>1, <1>7, <3>1, <3>4
      <4> QED
        BY <1>4, <1>7, <2>1, <3>1, <3>2, <4>1
    <3> QED
      BY <3>3, <3>4
  <2> QED
    BY <2>2, <2>3
<1>8. CASE AnyStart(p) /\ AnyEnd(p)
  <2>1. Starts(p, n) = 0..(n - l)
    BY <1>8 DEF Starts, l, es
  <2>2. (\E s \in 0..(n - l) : fits(s)) => n >= l
    BY <1>1
  <2> QED
    BY <1>4, <1>5, <1>8, <2>1, <2>2
<1> QED
  BY <1>6, <1>7, <1>8

\* The transcripts of a list, as an assertion reads them.
LEMMA AnswerIs ==
  ASSUME NEW p \in Patterns, NEW t \in Transcripts
  PROVE  /\ Matches(p, t) = "error" <=> t.close = None
         /\ Matches(p, t) = "passed" <=> t.close # None /\ t.accepted /\ Placed(p, t.messages)
         /\ Matches(p, t) \in {"error", "passed", "raised"}
<1>1. t.messages \in Seq(Recorded)
  BY DEF Transcripts
<1> QED
  BY <1>1, PatternPlaced DEF Matches

\* What each assertion says of a list, from what it makes of the transcripts in it.
LEMMA AssertedIs ==
  ASSUME NEW p, NEW list, NEW X, list \in Seq(X), list # <<>>
  PROVE  /\ Asserted("last", p, list) = Matches(p, list[Len(list)])
         /\ Asserted("once", p, list) =
              IF Len(list) = 1 THEN Matches(p, list[1]) ELSE "raised"
         /\ \/ /\ Asserted("any", p, list) = "raised"
               /\ \A i \in DOMAIN list : Matches(p, list[i]) = "raised"
            \/ \E i \in DOMAIN list : /\ Asserted("any", p, list) = Matches(p, list[i])
                                      /\ Matches(p, list[i]) # "raised"
<1>1. Asserted("last", p, list) = Matches(p, list[Len(list)])
  BY DEF Asserted, Last
<1>2. Asserted("once", p, list) = IF Len(list) = 1 THEN Matches(p, list[1]) ELSE "raised"
  BY DEF Asserted
<1> DEFINE telling == {i \in DOMAIN list : Matches(p, list[i]) # "raised"}
<1>3. Asserted("any", p, list) =
        IF telling = {} THEN "raised" ELSE Matches(p, list[Min(telling)])
  BY DEF Asserted
<1>4. telling # {} => Min(telling) \in telling
  <2>1. telling \in SUBSET Nat
    BY LenProperties
  <2> HIDE DEF telling
  <2> QED
    BY <2>1, LeastIn
<1> QED
  BY <1>1, <1>2, <1>3, <1>4

\* A pattern matches a transcript as it is written, and an assertion that passes or fails is
\* right about the connections of the list, whatever those without a close may still say.
THEOREM PatternsAsPlaced == Spec => []MatchedAsPlaced
<1>1. TalkInv /\ ListInv => MatchedAsPlaced
  <2> SUFFICES ASSUME TalkInv, ListInv PROVE MatchedAsPlaced
    OBVIOUS
  <2>1. \A c \in Conns : transcript[c] \in Transcripts
    BY DEF TalkInv, TalkTypes
  <2>2. ASSUME NEW c \in Conns, transcript[c].close # None, NEW p \in Patterns
        PROVE  Matches(p, transcript[c]) = "passed" <=> Described(p, c)
    BY <2>1, <2>2, AnswerIs DEF Described
  <2>3. ASSUME NEW k \in DOMAIN contexts,
               NEW d \in Range(contexts[k].calls), transcript[d].close # None,
               NEW p \in Patterns
        PROVE  LET calls == contexts[k].calls
                   list == [i \in DOMAIN calls |-> transcript[calls[i]]]
                   of == {c \in Range(calls) : Described(p, c)}
                   last == Asserted("last", p, list)
                   once == Asserted("once", p, list)
                   any == Asserted("any", p, list)
                   open == \E c \in Range(calls) : transcript[c].close = None
               IN /\ any = "passed" => of # {}
                  /\ any = "raised" => of = {}
                  /\ any = "error" => open
                  /\ once = "passed" => Len(calls) = 1 /\ calls[1] \in of
                  /\ once = "raised" => ~(Len(calls) = 1 /\ calls[1] \in of)
                  /\ once = "error" => open
                  /\ last = "passed" => calls # <<>> /\ Last(calls) \in of
                  /\ last = "raised" => ~(calls # <<>> /\ Last(calls) \in of)
                  /\ last = "error" => open
    <3> DEFINE calls == contexts[k].calls
               list == [i \in DOMAIN calls |-> transcript[calls[i]]]
               answer(i) == Matches(p, list[i])
    <3>1. calls \in Seq(Conns)
      <4>1. contexts[k] \in [open : BOOLEAN, calls : Seq(Conns)]
        BY ElementOfSeq, LenProperties DEF ListInv
      <4> QED
        BY <4>1
    <3>2. /\ Len(calls) \in Nat /\ DOMAIN calls = 1..Len(calls)
          /\ \A i \in DOMAIN calls : calls[i] \in Conns
          /\ Range(calls) = {calls[i] : i \in DOMAIN calls}
      BY <3>1, LenProperties, ElementOfSeq DEF Range
    <3>3. Len(calls) >= 1 /\ calls # <<>>
      BY <3>1, <3>2, EmptySeq
    <3>4. list \in Seq(Transcripts) /\ Len(list) = Len(calls) /\ DOMAIN list = DOMAIN calls
      <4>1. list \in [1..Len(calls) -> Transcripts]
        BY <2>1, <3>2
      <4>2. list \in UNION {[1..m -> Transcripts] : m \in Nat}
        BY <3>2, <4>1
      <4>3. list \in Seq(Transcripts)
        BY <4>2, SeqDef
      <4> QED
        BY <3>2, <4>3, LenProperties
    <3>5. \A i \in DOMAIN calls :
            /\ answer(i) = "error" <=> transcript[calls[i]].close = None
            /\ answer(i) = "passed" <=> transcript[calls[i]].close # None /\ Described(p, calls[i])
            /\ answer(i) \in {"error", "passed", "raised"}
      BY <2>1, <3>2, AnswerIs DEF Described
    <3>6. list # <<>>
      BY <3>3, <3>4, EmptySeq
    <3> HIDE DEF list
    <3>7. /\ Asserted("last", p, list) = answer(Len(calls))
          /\ Asserted("once", p, list) = IF Len(calls) = 1 THEN answer(1) ELSE "raised"
          /\ \/ Asserted("any", p, list) = "raised" /\ \A i \in DOMAIN calls : answer(i) = "raised"
             \/ \E i \in DOMAIN calls :
                  Asserted("any", p, list) = answer(i) /\ answer(i) # "raised"
      BY <3>4, <3>6, AssertedIs, ZenonT(60)
    <3> HIDE DEF answer, calls
    <3>8. Len(calls) \in DOMAIN calls /\ 1 \in DOMAIN calls /\ Last(calls) = calls[Len(calls)]
      BY <3>2, <3>3 DEF Last
    <3>9. \A i \in DOMAIN calls : calls[i] \in Range(calls)
      BY <3>2
    <3>10. /\ Asserted("any", p, list) = "passed" => {c \in Range(calls) : Described(p, c)} # {}
           /\ Asserted("any", p, list) = "raised" => {c \in Range(calls) : Described(p, c)} = {}
           /\ Asserted("any", p, list) = "error" =>
                \E c \in Range(calls) : transcript[c].close = None
      BY <3>2, <3>5, <3>7, <3>9
    <3>11. LET of == {c \in Range(calls) : Described(p, c)}
               once == Asserted("once", p, list)
           IN /\ once = "passed" => Len(calls) = 1 /\ calls[1] \in of
              /\ once = "raised" => ~(Len(calls) = 1 /\ calls[1] \in of)
              /\ once = "error" => \E c \in Range(calls) : transcript[c].close = None
      BY <3>5, <3>7, <3>8, <3>9
    <3>12. LET of == {c \in Range(calls) : Described(p, c)}
               last == Asserted("last", p, list)
           IN /\ last = "passed" => calls # <<>> /\ Last(calls) \in of
              /\ last = "raised" => ~(calls # <<>> /\ Last(calls) \in of)
              /\ last = "error" => \E c \in Range(calls) : transcript[c].close = None
      BY <3>3, <3>5, <3>7, <3>8, <3>9
    <3> QED
      BY <3>10, <3>11, <3>12 DEF calls, list
  <2> QED
    BY <2>2, <2>3 DEF MatchedAsPlaced
<1> QED
  BY <1>1, Conversations, Lists, PTL
==============================================================================
