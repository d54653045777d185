--------------------------- MODULE LogstashProofs ----------------------------
(***************************************************************************)
(* The background thread of FakeLogstashService ends by an exception only  *)
(* if a client has reset its connection, and the records it keeps of a     *)
(* connection are the lines of its stream however recv broke it: what      *)
(* bytes.split finds in two parts of a stream it finds in their whole.     *)
(***************************************************************************)
EXTENDS Logstash, FiniteSetTheorems, SequenceTheorems, WellFoundedInduction, TLAPS

\* A client that has reset its connection stays "reset", which takes the type of client.
ClientTyped == client \in [Conns -> {"unborn", "open", "finished", "reset"}]
DeathInv == ClientTyped /\ DiesOnlyByReset

\* Only a client that is not "reset" makes a move.
LEMMA ClientMove ==
  ASSUME DeathInv, NEW c \in Conns, client[c] # "reset",
         NEW s \in {"unborn", "open", "finished", "reset"},
         client' = [client EXCEPT ![c] = s], thread' = thread
  PROVE  DeathInv'
<1>1. ClientTyped'
  BY DEF DeathInv, ClientTyped
<1>2. ASSUME NEW d \in Conns, client[d] = "reset"
      PROVE  client'[d] = "reset"
  BY <1>2 DEF DeathInv, ClientTyped
<1>3. DiesOnlyByReset'
  BY <1>2 DEF DeathInv, DiesOnlyByReset
<1> QED
  BY <1>1, <1>3 DEF DeathInv

\* A step of anyone else keeps the clients as they are.
LEMMA ServiceMove ==
  ASSUME DeathInv, client' = client,
         thread' = "dead" => thread = "dead" \/ \E c \in Conns : client[c] = "reset"
  PROVE  DeathInv'
BY DEF DeathInv, ClientTyped, DiesOnlyByReset

LEMMA DeathStep == DeathInv /\ [Next]_vars => DeathInv'
<1> SUFFICES ASSUME DeathInv, [Next]_vars PROVE DeathInv'
  OBVIOUS
<1> USE DEF serviceVars, connVars, clientVars
<1>1. ASSUME NEW c \in Conns, Connect(c) PROVE DeathInv'
  BY <1>1, ClientMove DEF Connect
<1>2. ASSUME NEW c \in Conns, Send(c) PROVE DeathInv'
  BY <1>2, ServiceMove DEF Send
<1>3. ASSUME NEW c \in Conns, Finish(c) PROVE DeathInv'
  BY <1>3, ClientMove DEF Finish
<1>4. ASSUME NEW c \in Conns, Reset(c) PROVE DeathInv'
  BY <1>4, ClientMove DEF Reset
<1>5. CASE Background
  <2>1. CASE Select
    BY <2>1, ServiceMove DEF Select
  <2>2. CASE HandleWake
    BY <2>2, ServiceMove DEF HandleWake
  <2>3. ASSUME NEW c \in Conns, Accept(c) PROVE DeathInv'
    BY <2>3, ServiceMove DEF Accept
  <2>4. ASSUME NEW c \in Conns, ReceiveLines(c) PROVE DeathInv'
    BY <2>4, ServiceMove DEF ReceiveLines, Receive
  <2>5. ASSUME NEW c \in Conns, ReceiveBadLine(c) PROVE DeathInv'
    BY <2>5, ServiceMove DEF ReceiveBadLine, Receive
  <2>6. ASSUME NEW c \in Conns, ReceiveEnd(c) PROVE DeathInv'
    BY <2>6, ServiceMove DEF ReceiveEnd
  <2>7. ASSUME NEW c \in Conns, ReceiveReset(c) PROVE DeathInv'
    BY <2>7, ServiceMove DEF ReceiveReset
  <2> QED
    BY <1>5, <2>1, <2>2, <2>3, <2>4, <2>5, <2>6, <2>7 DEF Background
<1>6. CASE Start
  BY <1>6, ServiceMove DEF Start
<1>7. CASE Stop
  BY <1>7, ServiceMove DEF Stop
<1>8. CASE JoinReturns
  BY <1>8, ServiceMove DEF JoinReturns
<1>9. CASE JoinTimesOut
  BY <1>9, ServiceMove DEF JoinTimesOut
<1>10. ASSUME NEW d \in Delimiters, SetDelimiter(d) PROVE DeathInv'
  BY <1>10, ServiceMove DEF SetDelimiter
<1>11. CASE UNCHANGED vars
  BY <1>11, ServiceMove DEF vars
<1> QED
  BY <1>1, <1>2, <1>3, <1>4, <1>5, <1>6, <1>7, <1>8, <1>9, <1>10, <1>11 DEF Next

\* Nothing that clients send, and no order in which they come and go, ends the thread
\* that serves them all, unless one of them resets its connection.
THEOREM DiesOnlyByResetCorrect == Spec => []DiesOnlyByReset
<1>1. Init => DeathInv
  BY DEF Init, DeathInv, ClientTyped, DiesOnlyByReset
<1> QED
  BY <1>1, DeathStep, PTL DEF Spec, DeathInv

(***************************************************************************)
(* Splitting a stream                                                      *)
(***************************************************************************)
\* A set of positions that holds one whenever it holds all behind it holds all.
LEMMA FromTheEnd ==
  ASSUME NEW n \in Nat, NEW G \in SUBSET (1..n),
         \A i \in 1..n : (\A j \in (i + 1)..n : j \in G) => i \in G
  PROVE  G = 1..n
<1> DEFINE R == OpToRel(<, Nat)
           T == {n - i : i \in (1..n) \ G}
<1> SUFFICES ASSUME (1..n) \ G # {} PROVE FALSE
  OBVIOUS
<1>1. T \subseteq Nat /\ T # {}
  <2>1. \A i \in (1..n) \ G : n - i \in Nat
    OBVIOUS
  <2> QED
    BY <2>1
<1>2. PICK k \in T : \A l \in T : ~(<<l, k>> \in R)
  BY <1>1, WFMin, NatLessThanWellFounded
<1>3. PICK i \in (1..n) \ G : k = n - i
  OBVIOUS
<1>4. ASSUME NEW j \in (i + 1)..n PROVE j \in G
  <2> SUFFICES ASSUME j \notin G PROVE FALSE
    OBVIOUS
  <2>1. n - j \in T /\ n - j \in Nat /\ n - i \in Nat /\ n - j < n - i
    OBVIOUS
  <2> QED
    BY <1>2, <1>3, <2>1 DEF OpToRel
<1> QED
  BY <1>4

\* The least of a set of numbers.
LEMMA LeastIs ==
  ASSUME NEW S \in SUBSET Nat, S # {}
  PROVE  Min(S) \in S /\ \A y \in S : Min(S) <= y
<1> DEFINE R == OpToRel(<, Nat)
<1>1. PICK x \in S : \A y \in S : ~(<<y, x>> \in R)
  BY WFMin, NatLessThanWellFounded
<1>2. ASSUME NEW y \in S PROVE x <= y
  <2>1. x \in Nat /\ y \in Nat
    OBVIOUS
  <2>2. ~(y < x)
    BY <1>1, <2>1 DEF OpToRel
  <2> QED
    BY <2>1, <2>2
<1> QED
  BY <1>2 DEF Min

\* The equation that the function in Split solves.
PiecesAt(f, s, d, i) ==
  LET hits == Hits(s, d, i)
  IN IF hits = {} THEN <<SubSeq(s, i, Len(s))>>
     ELSE <<SubSeq(s, i, Min(hits) - 1)>> \o f[Min(hits) + Len(d)]

\* Behind a delimiter that was found there are fewer positions left.
LEMMA HitsType ==
  ASSUME NEW X, NEW s \in Seq(X), NEW d \in Seq(X), d # <<>>, NEW i \in 1..(Len(s) + 1),
         Hits(s, d, i) # {}
  PROVE  /\ Min(Hits(s, d, i)) \in Hits(s, d, i)
         /\ Min(Hits(s, d, i)) \in i..Len(s)
         /\ Min(Hits(s, d, i)) + Len(d) \in (i + 1)..(Len(s) + 1)
         /\ \A j \in Hits(s, d, i) : Min(Hits(s, d, i)) <= j
<1>1. Len(s) \in Nat /\ Len(d) \in Nat /\ Len(d) >= 1
  <2>1. Len(s) \in Nat /\ Len(d) \in Nat /\ Len(d) # 0
    BY LenProperties, EmptySeq
  <2> QED
    BY <2>1
<1>2. Hits(s, d, i) \subseteq i..(Len(s) + 1 - Len(d))
  BY DEF Hits
<1> DEFINE H == Hits(s, d, i)
           n == Len(s)
           l == Len(d)
<1>3. n \in Nat /\ l \in Nat /\ l >= 1 /\ i \in 1..(n + 1) /\ H \subseteq i..(n + 1 - l) /\ H # {}
  BY <1>1, <1>2
<1> HIDE DEF H, n, l
<1>4. H \in SUBSET Nat
  BY <1>3
<1>5. Min(H) \in H /\ \A y \in H : Min(H) <= y
  BY <1>3, <1>4, LeastIs
<1>6. Min(H) \in i..(n + 1 - l)
  BY <1>3, <1>5
<1>7. Min(H) \in i..n /\ Min(H) + l \in (i + 1)..(n + 1)
  BY <1>3, <1>6
<1> QED
  BY <1>5, <1>7 DEF H, n, l

LEMMA SplitSolves ==
  ASSUME NEW X, NEW s \in Seq(X), NEW d \in Seq(X), d # <<>>
  PROVE  \E f : /\ f = [i \in 1..(Len(s) + 1) |-> PiecesAt(f, s, d, i)]
                /\ Split(s, d) = f[1]
<1> DEFINE n == Len(s) + 1
           G == {i \in 1..n : \E f : f = [j \in i..n |-> PiecesAt(f, s, d, j)]}
<1>1. n \in Nat /\ n >= 1
  BY LenProperties
<1>2. ASSUME NEW i \in 1..n, \A j \in (i + 1)..n : j \in G
      PROVE  i \in G
  <2>1. PICK g : g = [j \in (i + 1)..n |-> PiecesAt(g, s, d, j)]
    <3>1. CASE i = n
      <4>1. (i + 1)..n = {}
        BY <1>1, <3>1
      <4> DEFINE g == [j \in {} |-> j]
      <4>2. g = [j \in {} |-> PiecesAt(g, s, d, j)]
        OBVIOUS
      <4> QED
        BY <4>1, <4>2
    <3>2. CASE i # n
      <4>1. i + 1 \in (i + 1)..n
        BY <1>1, <3>2
      <4> QED
        BY <1>2, <4>1
    <3> QED
      BY <3>1, <3>2
  <2> DEFINE f == [j \in i..n |-> IF j = i THEN PiecesAt(g, s, d, i) ELSE g[j]]
  <2>2. ASSUME NEW j \in i..n PROVE f[j] = PiecesAt(f, s, d, j)
    <3>1. PiecesAt(f, s, d, j) = PiecesAt(g, s, d, j)
      <4>1. CASE Hits(s, d, j) = {}
        BY <4>1 DEF PiecesAt
      <4>2. CASE Hits(s, d, j) # {}
        <5> DEFINE next == Min(Hits(s, d, j)) + Len(d)
        <5>1. next \in (j + 1)..n
          BY <1>1, <4>2, HitsType
        <5>2. next \in i..n /\ next # i
          BY <1>1, <5>1
        <5>3. f[next] = g[next]
          BY <5>2
        <5> HIDE DEF f
        <5> QED
          BY <5>3 DEF PiecesAt
      <4> QED
        BY <4>1, <4>2
    <3>2. CASE j = i
      BY <3>1, <3>2
    <3>3. CASE j # i
      <4>1. j \in (i + 1)..n
        BY <1>1, <3>3
      <4>2. g[j] = PiecesAt(g, s, d, j)
        BY <2>1, <4>1
      <4> QED
        BY <3>1, <3>3, <4>2
    <3> QED
      BY <3>2, <3>3
  <2>3. f = [j \in i..n |-> PiecesAt(f, s, d, j)]
    BY <2>2
  <2> QED
    BY <2>3
<1>3. G = 1..n
  <2>1. G \in SUBSET (1..n)
    OBVIOUS
  <2> HIDE DEF G
  <2> QED
    BY <1>1, <1>2, <2>1, FromTheEnd
<1>4. 1 \in G
  BY <1>1, <1>3
<1>5. \E f : f = [i \in 1..n |-> PiecesAt(f, s, d, i)]
  BY <1>4
<1> DEFINE F == CHOOSE f : f = [i \in 1..n |-> PiecesAt(f, s, d, i)]
<1>6. F = [i \in 1..n |-> PiecesAt(F, s, d, i)]
  BY <1>5
<1>7. Split(s, d) = F[1]
  BY DEF Split, PiecesAt
<1> QED
  BY <1>6, <1>7

\* The pieces of a stream whose first part has the pieces P and whose rest has the pieces Q.
Glue(P, Q) ==
  [k \in 1..(Len(P) + Len(Q) - 1) |->
     IF k < Len(P) THEN P[k] ELSE IF k = Len(P) THEN P[k] \o Q[1] ELSE Q[k - Len(P) + 1]]

Pieces(X) == {P \in Seq(Seq(X)) : Len(P) >= 1}

LEMMA PiecesAre ==
  ASSUME NEW X, NEW P \in Pieces(X)
  PROVE  /\ P \in Seq(Seq(X)) /\ Len(P) \in Nat /\ Len(P) >= 1 /\ DOMAIN P = 1..Len(P)
         /\ \A k \in 1..Len(P) : P[k] \in Seq(X)
BY LenProperties, ElementOfSeq DEF Pieces

\* A list of one piece, and a piece before a list.
Alone(p) == <<p>>
Followed(p, P) == <<p>> \o P

LEMMA FollowedIs ==
  ASSUME NEW X, NEW p \in Seq(X), NEW P \in Seq(Seq(X))
  PROVE  /\ Followed(p, P) \in Pieces(X)
         /\ Len(Followed(p, P)) = Len(P) + 1
         /\ Followed(p, P)[1] = p
         /\ \A k \in 1..Len(P) : Followed(p, P)[k + 1] = P[k]
<1>1. <<p>> \in Seq(Seq(X)) /\ Len(<<p>>) = 1 /\ <<p>>[1] = p
  OBVIOUS
<1>2. Len(P) \in Nat
  BY LenProperties
<1>3. /\ Followed(p, P) \in Seq(Seq(X))
      /\ Len(Followed(p, P)) = 1 + Len(P)
      /\ \A i \in 1..(1 + Len(P)) : Followed(p, P)[i] = IF i <= 1 THEN <<p>>[i] ELSE P[i - 1]
  BY <1>1, ConcatProperties DEF Followed
<1>4. ASSUME NEW k \in 1..Len(P) PROVE Followed(p, P)[k + 1] = P[k]
  <2>1. k + 1 \in 1..(1 + Len(P)) /\ ~(k + 1 <= 1) /\ (k + 1) - 1 = k
    BY <1>2
  <2> QED
    BY <1>3, <2>1
<1>5. Followed(p, P)[1] = p
  BY <1>1, <1>2, <1>3
<1> QED
  BY <1>2, <1>3, <1>4, <1>5 DEF Pieces

LEMMA AloneIs ==
  ASSUME NEW X, NEW p \in Seq(X)
  PROVE  /\ Alone(p) \in Pieces(X) /\ Len(Alone(p)) = 1 /\ Alone(p)[1] = p
         /\ Alone(p) = Followed(p, <<>>)
<1>1. <<p>> \in Seq(Seq(X)) /\ Len(<<p>>) = 1 /\ <<p>>[1] = p
  OBVIOUS
<1>2. Followed(p, <<>>) = <<p>>
  BY <1>1, ConcatEmptySeq DEF Followed
<1> QED
  BY <1>1, <1>2 DEF Pieces, Alone

LEMMA GlueType ==
  ASSUME NEW X, NEW P \in Pieces(X), NEW Q \in Pieces(X)
  PROVE  /\ Glue(P, Q) \in Pieces(X)
         /\ Len(Glue(P, Q)) = Len(P) + Len(Q) - 1
         /\ \A k \in 1..(Len(P) + Len(Q) - 1) : Glue(P, Q)[k] =
              IF k < Len(P) THEN P[k] ELSE IF k = Len(P) THEN P[k] \o Q[1] ELSE Q[k - Len(P) + 1]
<1> DEFINE n == Len(P)
           m == Len(Q)
           l == n + m - 1
<1>1. n \in Nat /\ m \in Nat /\ n >= 1 /\ m >= 1 /\ l \in Nat /\ l >= 1
  <2>1. n \in Nat /\ m \in Nat /\ n >= 1 /\ m >= 1
    BY PiecesAre
  <2> QED
    BY <2>1
<1>2. P[n] \o Q[1] \in Seq(X)
  <2>1. P[n] \in Seq(X) /\ Q[1] \in Seq(X)
    BY <1>1, PiecesAre
  <2> QED
    BY <2>1, ConcatProperties
<1>3. ASSUME NEW k \in 1..l
      PROVE  (IF k < n THEN P[k] ELSE IF k = n THEN P[k] \o Q[1] ELSE Q[k - n + 1]) \in Seq(X)
  <2>1. CASE k < n
    <3>1. P[k] \in Seq(X)
      BY <1>1, <2>1, PiecesAre
    <3> QED
      BY <2>1, <3>1
  <2>2. CASE k = n
    BY <1>2, <2>2
  <2>3. CASE k > n
    <3>1. k - n + 1 \in 1..m
      BY <1>1, <2>3
    <3>2. Q[k - n + 1] \in Seq(X)
      BY <3>1, PiecesAre
    <3> QED
      BY <1>1, <2>3, <3>2
  <2> QED
    BY <1>1, <2>1, <2>2, <2>3
<1> DEFINE g == Glue(P, Q)
<1>4. g = [k \in 1..l |-> IF k < n THEN P[k] ELSE IF k = n THEN P[k] \o Q[1] ELSE Q[k - n + 1]]
  BY DEF Glue
<1>5. g \in [1..l -> Seq(X)]
  BY <1>3, <1>4
<1>6. g \in Seq(Seq(X)) /\ Len(g) = l
  <2> HIDE DEF g, l
  <2>1. g \in UNION {[1..i -> Seq(X)] : i \in Nat}
    BY <1>1, <1>5
  <2>2. g \in Seq(Seq(X))
    BY <2>1, SeqDef
  <2>3. Len(g) \in Nat /\ DOMAIN g = 1..Len(g)
    BY <2>2, LenProperties
  <2>4. DOMAIN g = 1..l
    BY <1>5
  <2>5. 1..Len(g) = 1..l
    BY <2>3, <2>4
  <2> DEFINE e == Len(g)
  <2>6. e \in Nat /\ l \in Nat /\ 1..e = 1..l
    BY <1>1, <2>3, <2>5
  <2> HIDE DEF e
  <2>7. e = l
    <3>1. CASE e < l
      <4>1. l \in 1..l /\ l \notin 1..e
        BY <2>6, <3>1
      <4> QED
        BY <2>6, <4>1
    <3>2. CASE l < e
      <4>1. e \in 1..e /\ e \notin 1..l
        BY <2>6, <3>2
      <4> QED
        BY <2>6, <4>1
    <3> QED
      BY <2>6, <3>1, <3>2
  <2>8. Len(g) = l
    BY <2>7 DEF e
  <2> QED
    BY <2>2, <2>8
<1> QED
  BY <1>1, <1>4, <1>6 DEF Pieces

\* Two lists of pieces that agree everywhere are one.
LEMMA PiecesEqual ==
  ASSUME NEW X, NEW P \in Pieces(X), NEW Q \in Pieces(X), Len(P) = Len(Q),
         \A k \in 1..Len(P) : P[k] = Q[k]
  PROVE  P = Q
BY PiecesAre, SeqEqual

LEMMA GlueOne ==
  ASSUME NEW X, NEW p \in Seq(X), NEW q \in Seq(X), NEW R \in Seq(Seq(X))
  PROVE  Glue(Alone(p), Followed(q, R)) = Followed(p \o q, R)
<1> DEFINE pq == p \o q
           one == Alone(p)
           Q == Followed(q, R)
           G == Glue(one, Q)
           H == Followed(pq, R)
           m == Len(R)
<1>1. pq \in Seq(X)
  BY ConcatProperties
<1>4. one \in Pieces(X) /\ Len(one) = 1 /\ one[1] = p
  BY AloneIs
<1> HIDE DEF pq, one
<1>2. /\ Q \in Pieces(X) /\ Len(Q) = m + 1 /\ Q[1] = q
      /\ \A k \in 1..m : Q[k + 1] = R[k]
  BY FollowedIs
<1>3. /\ H \in Pieces(X) /\ Len(H) = m + 1 /\ H[1] = pq
      /\ \A k \in 1..m : H[k + 1] = R[k]
  BY <1>1, FollowedIs
<1>5. m \in Nat
  BY LenProperties
<1> HIDE DEF Q, H, m
<1>6. /\ G \in Pieces(X) /\ Len(G) = Len(one) + Len(Q) - 1
      /\ \A k \in 1..(Len(one) + Len(Q) - 1) : G[k] =
           IF k < Len(one) THEN one[k]
           ELSE IF k = Len(one) THEN one[k] \o Q[1] ELSE Q[k - Len(one) + 1]
  BY <1>2, <1>4, GlueType
<1> HIDE DEF G
<1>7. Len(G) = m + 1
  BY <1>2, <1>4, <1>5, <1>6
<1>8. ASSUME NEW k \in 1..(m + 1) PROVE G[k] = H[k]
  <2>1. CASE k = 1
    <3>1. k \in 1..(Len(one) + Len(Q) - 1) /\ ~(k < Len(one)) /\ k = Len(one)
      BY <1>2, <1>4, <1>5, <2>1
    <3>2. G[k] = one[1] \o Q[1]
      BY <1>6, <2>1, <3>1
    <3>3. H[k] = p \o q
      BY <1>3, <2>1 DEF pq
    <3> QED
      BY <1>2, <1>4, <3>2, <3>3
  <2>2. CASE k # 1
    <3>1. k - 1 \in 1..m /\ (k - 1) + 1 = k /\ k - Len(one) + 1 = k /\ ~(k < Len(one))
      BY <1>4, <1>5, <2>2
    <3>2. Q[k] = R[k - 1] /\ H[k] = R[k - 1]
      BY <1>2, <1>3, <3>1
    <3>3. k \in 1..(Len(one) + Len(Q) - 1) /\ k # Len(one)
      BY <1>2, <1>4, <1>5, <2>2
    <3> QED
      BY <1>6, <3>1, <3>2, <3>3
  <2> QED
    BY <2>1, <2>2
<1>9. G = H
  BY <1>3, <1>6, <1>7, <1>8, PiecesEqual
<1> QED
  BY <1>9 DEF G, H, Q, one, pq

LEMMA GlueCons ==
  ASSUME NEW X, NEW p \in Seq(X), NEW P \in Pieces(X), NEW Q \in Pieces(X)
  PROVE  Glue(Followed(p, P), Q) = Followed(p, Glue(P, Q))
<1> DEFINE A == Followed(p, P)
           G == Glue(P, Q)
           L == Glue(A, Q)
           H == Followed(p, G)
           n == Len(P)
           m == Len(Q)
<1>1. n \in Nat /\ m \in Nat /\ n >= 1 /\ m >= 1 /\ P \in Seq(Seq(X))
  BY PiecesAre
<1>2. A \in Pieces(X) /\ Len(A) = n + 1 /\ A[1] = p /\ \A k \in 1..n : A[k + 1] = P[k]
  BY <1>1, FollowedIs
<1>3. /\ G \in Pieces(X) /\ Len(G) = n + m - 1
      /\ \A k \in 1..(n + m - 1) : G[k] =
           IF k < n THEN P[k] ELSE IF k = n THEN P[k] \o Q[1] ELSE Q[k - n + 1]
  BY GlueType
<1> HIDE DEF G
<1>4. /\ H \in Pieces(X) /\ Len(H) = Len(G) + 1 /\ H[1] = p
      /\ \A k \in 1..Len(G) : H[k + 1] = G[k]
  <2>1. G \in Seq(Seq(X))
    BY <1>3, PiecesAre
  <2> QED
    BY <2>1, FollowedIs
<1> HIDE DEF H, A, n, m
<1>5. /\ L \in Pieces(X) /\ Len(L) = (n + 1) + m - 1
      /\ \A k \in 1..((n + 1) + m - 1) : L[k] =
           IF k < n + 1 THEN A[k] ELSE IF k = n + 1 THEN A[k] \o Q[1] ELSE Q[k - (n + 1) + 1]
  <2>1. /\ L \in Pieces(X) /\ Len(L) = Len(A) + Len(Q) - 1
        /\ \A k \in 1..(Len(A) + Len(Q) - 1) : L[k] =
           IF k < Len(A) THEN A[k] ELSE IF k = Len(A) THEN A[k] \o Q[1] ELSE Q[k - Len(A) + 1]
    BY <1>2, GlueType
  <2> QED
    BY <1>2, <2>1 DEF m
<1> HIDE DEF L
<1>6. Len(L) = n + m /\ Len(H) = n + m
  BY <1>1, <1>3, <1>4, <1>5
<1>7. ASSUME NEW k \in 1..(n + m) PROVE L[k] = H[k]
  <2>0. k \in 1..((n + 1) + m - 1)
    BY <1>1
  <2>1. CASE k = 1
    <3>1. k < n + 1
      BY <1>1, <2>1
    <3> QED
      BY <1>2, <1>4, <1>5, <2>0, <2>1, <3>1
  <2>2. CASE k # 1
    <3> DEFINE j == k - 1
    <3>1. j \in 1..(n + m - 1) /\ j + 1 = k /\ j \in 1..Len(G) /\ j \in Nat
      BY <1>1, <1>3, <2>2
    <3> HIDE DEF j
    <3>2. H[k] = G[j]
      BY <1>4, <3>1
    <3>3. CASE j < n
      <4>1. k < n + 1 /\ j \in 1..n
        BY <1>1, <3>1, <3>3
      <4>2. L[k] = P[j]
        BY <1>2, <1>5, <2>0, <3>1, <4>1
      <4> QED
        BY <1>3, <3>1, <3>2, <3>3, <4>2
    <3>4. CASE j = n
      <4>1. k = n + 1 /\ ~(k < n + 1) /\ j \in 1..n
        BY <1>1, <3>1, <3>4
      <4>2. L[k] = P[j] \o Q[1]
        BY <1>2, <1>5, <2>0, <3>1, <4>1
      <4>3. G[j] = P[j] \o Q[1]
        <5>1. ~(j < n) /\ j \in 1..(n + m - 1)
          BY <1>1, <3>1, <3>4
        <5> QED
          BY <1>3, <3>4, <5>1
      <4> QED
        BY <3>2, <4>2, <4>3
    <3>5. CASE j > n
      <4>1. k # n + 1 /\ ~(k < n + 1) /\ k - (n + 1) + 1 = j - n + 1 /\ ~(j < n) /\ j # n
        BY <1>1, <3>1, <3>5
      <4>2. L[k] = Q[j - n + 1]
        BY <1>5, <2>0, <4>1
      <4> QED
        BY <1>3, <3>1, <3>2, <4>1, <4>2
    <3> QED
      BY <1>1, <3>1, <3>3, <3>4, <3>5
  <2> QED
    BY <2>1, <2>2
<1>8. L = H
  BY <1>4, <1>5, <1>6, <1>7, PiecesEqual
<1> QED
  BY <1>8 DEF L, H, A, G

(***************************************************************************)
(* A delimiter of one byte                                                 *)
(***************************************************************************)
LEMMA HitsOfByte ==
  ASSUME NEW X, NEW s \in Seq(X), NEW b \in X, NEW i \in 1..(Len(s) + 1)
  PROVE  Hits(s, <<b>>, i) = {j \in i..Len(s) : s[j] = b}
<1>1. Len(<<b>>) = 1 /\ Len(s) \in Nat
  BY LenProperties
<1>2. ASSUME NEW j \in i..Len(s)
      PROVE  SubSeq(s, j, j + Len(<<b>>) - 1) = <<b>> <=> s[j] = b
  <2>1. j + Len(<<b>>) - 1 = j /\ j \in 1..Len(s) /\ j \in Int
    BY <1>1
  <2>2. \A k \in j..j : s[k] \in X
    BY <2>1, ElementOfSeq
  <2> DEFINE t == SubSeq(s, j, j)
  <2>3. t \in Seq(X) /\ Len(t) = 1 /\ \A k \in 1..(j - j + 1) : t[k] = s[j + k - 1]
    <3>1. /\ t \in Seq(X) /\ Len(t) = IF j <= j THEN j - j + 1 ELSE 0
          /\ \A k \in 1..(j - j + 1) : t[k] = s[j + k - 1]
      BY <2>1, <2>2, SubSeqProperties
    <3> QED
      BY <2>1, <3>1
  <2>4. t[1] = s[j]
    <3>1. 1 \in 1..(j - j + 1) /\ j + 1 - 1 = j
      BY <2>1
    <3> QED
      BY <2>3, <3>1
  <2>5. <<b>> \in Seq(X) /\ <<b>>[1] = b
    OBVIOUS
  <2> HIDE DEF t
  <2>6. s[j] = b => t = <<b>>
    <3>1. ASSUME s[j] = b PROVE \A k \in 1..Len(t) : t[k] = <<b>>[k]
      BY <2>3, <2>4, <2>5, <3>1
    <3> QED
      BY <1>1, <2>3, <2>5, <3>1, SeqEqual
  <2>7. t = <<b>> => s[j] = b
    BY <2>4, <2>5
  <2> QED
    BY <2>1, <2>6, <2>7 DEF t
<1>3. Hits(s, <<b>>, i) = {j \in i..Len(s) : SubSeq(s, j, j + Len(<<b>>) - 1) = <<b>>}
  <2>1. Len(s) + 1 - Len(<<b>>) = Len(s)
    BY <1>1
  <2> QED
    BY <2>1 DEF Hits
<1> QED
  BY <1>2, <1>3

Solves(f, s, d) == f = [i \in 1..(Len(s) + 1) |-> PiecesAt(f, s, d, i)]

\* The stream from i on begins with the piece that the next delimiter ends.
FirstOf(s, b, i, h) == h \in i..Len(s) /\ s[h] = b /\ \A j \in i..(h - 1) : s[j] # b
NoneOf(s, b, i) == \A j \in i..Len(s) : s[j] # b

LEMMA FirstOrNone ==
  ASSUME NEW X, NEW s \in Seq(X), NEW b \in X, NEW i \in 1..(Len(s) + 1)
  PROVE  NoneOf(s, b, i) \/ \E h \in i..Len(s) : FirstOf(s, b, i, h)
<1> DEFINE S == {j \in i..Len(s) : s[j] = b}
<1>1. CASE S = {}
  BY <1>1 DEF NoneOf
<1>2. CASE S # {}
  <2>1. Len(s) \in Nat /\ S \in SUBSET Nat
    BY LenProperties
  <2>2. Min(S) \in S /\ \A y \in S : Min(S) <= y
    BY <1>2, <2>1, LeastIs
  <2> DEFINE h == Min(S)
  <2>3. h \in i..Len(s) /\ s[h] = b /\ \A y \in S : h <= y
    BY <2>2
  <2> HIDE DEF h
  <2>4. ASSUME NEW j \in i..(h - 1) PROVE s[j] # b
    <3>1. j \in i..Len(s) /\ ~(h <= j)
      BY <2>1, <2>3
    <3> QED
      BY <2>3, <3>1
  <2> QED
    BY <2>3, <2>4 DEF FirstOf
<1> QED
  BY <1>1, <1>2

LEMMA SolvesAt ==
  ASSUME NEW X, NEW s \in Seq(X), NEW b \in X, NEW f, Solves(f, s, <<b>>),
         NEW i \in 1..(Len(s) + 1)
  PROVE  /\ NoneOf(s, b, i) => f[i] = Alone(SubSeq(s, i, Len(s)))
         /\ \A h \in i..Len(s) : FirstOf(s, b, i, h) => f[i] = Followed(SubSeq(s, i, h - 1), f[h + 1])
<1>1. f[i] = PiecesAt(f, s, <<b>>, i)
  BY DEF Solves
<1>2. Hits(s, <<b>>, i) = {j \in i..Len(s) : s[j] = b}
  BY HitsOfByte
<1>3. ASSUME NoneOf(s, b, i) PROVE f[i] = Alone(SubSeq(s, i, Len(s)))
  <2>1. Hits(s, <<b>>, i) = {}
    BY <1>2, <1>3 DEF NoneOf
  <2> QED
    BY <1>1, <2>1 DEF PiecesAt, Alone
<1>4. ASSUME NEW h \in i..Len(s), FirstOf(s, b, i, h)
      PROVE  f[i] = Followed(SubSeq(s, i, h - 1), f[h + 1])
  <2> DEFINE S == Hits(s, <<b>>, i)
  <2>1. Len(s) \in Nat /\ h \in S /\ S \in SUBSET Nat
    BY <1>2, <1>4, LenProperties DEF FirstOf
  <2>2. Min(S) \in S /\ Min(S) <= h
    BY <2>1, LeastIs
  <2>3. Min(S) = h
    <3> DEFINE l == Min(S)
    <3>1. l \in i..Len(s) /\ s[l] = b /\ l <= h
      BY <1>2, <2>2
    <3> HIDE DEF l
    <3>2. l \notin i..(h - 1)
      BY <1>4, <3>1 DEF FirstOf
    <3>3. l = h
      BY <2>1, <3>1, <3>2
    <3> QED
      BY <3>3 DEF l
  <2>4. f[i] = Followed(SubSeq(s, i, Min(S) - 1), f[Min(S) + Len(<<b>>)])
    BY <1>1, <2>1 DEF PiecesAt, Followed
  <2>5. Len(<<b>>) = 1
    OBVIOUS
  <2> QED
    BY <2>3, <2>4, <2>5
<1> QED
  BY <1>3, <1>4

\* A part of a stream is a stream.
LEMMA PartType ==
  ASSUME NEW X, NEW s \in Seq(X), NEW i \in 1..(Len(s) + 1), NEW j \in 0..Len(s)
  PROVE  SubSeq(s, i, j) \in Seq(X)
<1>1. i \in Int /\ j \in Int /\ \A k \in i..j : k \in 1..Len(s)
  BY LenProperties
<1>2. \A k \in i..j : s[k] \in X
  BY <1>1, ElementOfSeq
<1> QED
  BY <1>1, <1>2, SubSeqProperties

LEMMA SolvesType ==
  ASSUME NEW X, NEW s \in Seq(X), NEW b \in X, NEW f, Solves(f, s, <<b>>)
  PROVE  \A i \in 1..(Len(s) + 1) : f[i] \in Pieces(X)
<1> DEFINE n == Len(s) + 1
           G == {i \in 1..n : f[i] \in Pieces(X)}
<1>1. n \in Nat /\ Len(s) \in Nat
  BY LenProperties
<1>2. ASSUME NEW i \in 1..n, \A j \in (i + 1)..n : j \in G
      PROVE  i \in G
  <2>1. CASE NoneOf(s, b, i)
    <3>1. f[i] = Alone(SubSeq(s, i, Len(s)))
      BY <2>1, SolvesAt
    <3>2. SubSeq(s, i, Len(s)) \in Seq(X)
      BY <1>1, PartType
    <3> QED
      BY <3>1, <3>2, AloneIs
  <2>2. ASSUME NEW h \in i..Len(s), FirstOf(s, b, i, h) PROVE i \in G
    <3>1. f[i] = Followed(SubSeq(s, i, h - 1), f[h + 1])
      <4>1. \A l \in i..Len(s) : FirstOf(s, b, i, l) => f[i] = Followed(SubSeq(s, i, l - 1), f[l + 1])
        BY SolvesAt
      <4> QED
        BY <2>2, <4>1
    <3>2. h + 1 \in (i + 1)..n /\ h - 1 \in 0..Len(s)
      BY <1>1
    <3>3. f[h + 1] \in Pieces(X)
      BY <1>2, <3>2
    <3>4. SubSeq(s, i, h - 1) \in Seq(X) /\ f[h + 1] \in Seq(Seq(X))
      BY <3>2, <3>3, PartType, PiecesAre
    <3>5. Followed(SubSeq(s, i, h - 1), f[h + 1]) \in Pieces(X)
      BY <3>4, FollowedIs
    <3> QED
      BY <3>1, <3>5
  <2> QED
    BY <2>1, <2>2, FirstOrNone
<1>3. G = 1..n
  <2>1. G \in SUBSET (1..n)
    OBVIOUS
  <2> HIDE DEF G
  <2> QED
    BY <1>1, <1>2, <2>1, FromTheEnd
<1> QED
  BY <1>3

(***************************************************************************)
(* The parts of a stream of two parts                                      *)
(***************************************************************************)
LEMMA PartIs ==
  ASSUME NEW X, NEW s \in Seq(X), NEW i \in 1..(Len(s) + 1), NEW j \in 0..Len(s)
  PROVE  /\ SubSeq(s, i, j) \in Seq(X)
         /\ Len(SubSeq(s, i, j)) = IF i <= j THEN j - i + 1 ELSE 0
         /\ \A k \in 1..(j - i + 1) : SubSeq(s, i, j)[k] = s[i + k - 1]
<1>1. i \in Int /\ j \in Int /\ \A k \in i..j : k \in 1..Len(s)
  BY LenProperties
<1>2. \A k \in i..j : s[k] \in X
  BY <1>1, ElementOfSeq
<1> QED
  BY <1>1, <1>2, SubSeqProperties

LEMMA PartsEqual ==
  ASSUME NEW X, NEW s \in Seq(X), NEW i \in 1..(Len(s) + 1), NEW j \in 0..Len(s),
         NEW t \in Seq(X), Len(t) = IF i <= j THEN j - i + 1 ELSE 0,
         \A k \in 1..(j - i + 1) : t[k] = s[i + k - 1]
  PROVE  SubSeq(s, i, j) = t
<1> DEFINE p == SubSeq(s, i, j)
<1>1. p \in Seq(X) /\ Len(p) = Len(t) /\ \A k \in 1..(j - i + 1) : p[k] = s[i + k - 1]
  BY PartIs
<1> HIDE DEF p
<1>2. \A k \in 1..Len(p) : k \in 1..(j - i + 1)
  BY <1>1, LenProperties
<1>3. \A k \in 1..Len(p) : p[k] = t[k]
  BY <1>1, <1>2
<1>4. p = t
  BY <1>1, <1>3, SeqEqual
<1> QED
  BY <1>4 DEF p

LEMMA BothParts ==
  ASSUME NEW X, NEW s \in Seq(X), NEW t \in Seq(X)
  PROVE  /\ s \o t \in Seq(X) /\ Len(s \o t) = Len(s) + Len(t)
         /\ Len(s) \in Nat /\ Len(t) \in Nat
         /\ \A k \in 1..Len(s) : (s \o t)[k] = s[k]
         /\ \A k \in 1..Len(t) : (s \o t)[Len(s) + k] = t[k]
<1> DEFINE u == s \o t
           n == Len(s)
           m == Len(t)
<1>1. n \in Nat /\ m \in Nat
  BY LenProperties
<1>2. /\ u \in Seq(X) /\ Len(u) = n + m
      /\ \A i \in 1..(n + m) : u[i] = IF i <= n THEN s[i] ELSE t[i - n]
  BY ConcatProperties
<1> HIDE DEF u, n, m
<1>3. ASSUME NEW k \in 1..n PROVE u[k] = s[k]
  BY <1>1, <1>2
<1>4. ASSUME NEW k \in 1..m PROVE u[n + k] = t[k]
  <2>1. n + k \in 1..(n + m) /\ ~(n + k <= n) /\ (n + k) - n = k
    BY <1>1
  <2> QED
    BY <1>2, <2>1
<1> QED
  BY <1>1, <1>2, <1>3, <1>4 DEF u, n, m

LEMMA PartOfFirst ==
  ASSUME NEW X, NEW s \in Seq(X), NEW t \in Seq(X),
         NEW i \in 1..(Len(s) + 1), NEW j \in 0..Len(s)
  PROVE  SubSeq(s \o t, i, j) = SubSeq(s, i, j)
<1> DEFINE u == s \o t
           n == Len(s)
           m == Len(t)
           p == SubSeq(s, i, j)
<1>1. /\ u \in Seq(X) /\ Len(u) = n + m /\ n \in Nat /\ m \in Nat
      /\ \A k \in 1..n : u[k] = s[k]
  BY BothParts
<1>2. /\ p \in Seq(X) /\ Len(p) = IF i <= j THEN j - i + 1 ELSE 0
      /\ \A k \in 1..(j - i + 1) : p[k] = s[i + k - 1]
  BY PartIs
<1> HIDE DEF u, m, p
<1>3. i \in 1..(Len(u) + 1) /\ j \in 0..Len(u)
  BY <1>1
<1>4. ASSUME NEW k \in 1..(j - i + 1) PROVE p[k] = u[i + k - 1]
  <2>1. i + k - 1 \in 1..n
    BY <1>1
  <2> QED
    BY <1>1, <1>2, <2>1
<1>5. SubSeq(u, i, j) = p
  BY <1>1, <1>2, <1>3, <1>4, PartsEqual
<1> QED
  BY <1>5 DEF u, p

LEMMA PartOfRest ==
  ASSUME NEW X, NEW s \in Seq(X), NEW t \in Seq(X),
         NEW i \in 1..(Len(t) + 1), NEW j \in 0..Len(t)
  PROVE  SubSeq(s \o t, Len(s) + i, Len(s) + j) = SubSeq(t, i, j)
<1> DEFINE u == s \o t
           n == Len(s)
           m == Len(t)
           p == SubSeq(t, i, j)
           g == n + i
           h == n + j
<1>1. /\ u \in Seq(X) /\ Len(u) = n + m /\ n \in Nat /\ m \in Nat
      /\ \A k \in 1..m : u[n + k] = t[k]
  BY BothParts
<1>2. /\ p \in Seq(X) /\ Len(p) = IF i <= j THEN j - i + 1 ELSE 0
      /\ \A k \in 1..(j - i + 1) : p[k] = t[i + k - 1]
  BY PartIs
<1> HIDE DEF u, n, p
<1>3. /\ g \in 1..(Len(u) + 1) /\ h \in 0..Len(u) /\ (i <= j <=> g <= h)
      /\ h - g + 1 = j - i + 1
  BY <1>1
<1>4. ASSUME NEW k \in 1..(h - g + 1) PROVE p[k] = u[g + k - 1]
  <2>1. i + k - 1 \in 1..m /\ n + (i + k - 1) = g + k - 1 /\ k \in 1..(j - i + 1)
    BY <1>1, <1>3
  <2> QED
    BY <1>1, <1>2, <2>1
<1> HIDE DEF g, h
<1>5. Len(p) = IF g <= h THEN h - g + 1 ELSE 0
  BY <1>2, <1>3
<1>6. SubSeq(u, g, h) = p
  BY <1>1, <1>2, <1>3, <1>4, <1>5, PartsEqual
<1> QED
  BY <1>6 DEF u, p, g, h, n

LEMMA PartOfBoth ==
  ASSUME NEW X, NEW s \in Seq(X), NEW t \in Seq(X),
         NEW i \in 1..(Len(s) + 1), NEW j \in 0..Len(t)
  PROVE  SubSeq(s \o t, i, Len(s) + j) = SubSeq(s, i, Len(s)) \o SubSeq(t, 1, j)
<1> DEFINE u == s \o t
           n == Len(s)
           m == Len(t)
           p == SubSeq(s, i, n)
           q == SubSeq(t, 1, j)
           l == n - i + 1
           h == n + j
<1>1. /\ u \in Seq(X) /\ Len(u) = n + m /\ n \in Nat /\ m \in Nat
      /\ \A k \in 1..n : u[k] = s[k]
      /\ \A k \in 1..m : u[n + k] = t[k]
  BY BothParts
<1>2. /\ p \in Seq(X) /\ Len(p) = IF i <= n THEN n - i + 1 ELSE 0
      /\ \A k \in 1..(n - i + 1) : p[k] = s[i + k - 1]
  <2>1. n \in 0..Len(s)
    BY <1>1
  <2> QED
    BY <2>1, PartIs
<1>3. /\ q \in Seq(X) /\ Len(q) = IF 1 <= j THEN j - 1 + 1 ELSE 0
      /\ \A k \in 1..(j - 1 + 1) : q[k] = t[1 + k - 1]
  <2>1. 1 \in 1..(Len(t) + 1) /\ j \in 0..Len(t)
    BY <1>1
  <2> QED
    BY <2>1, PartIs
<1> HIDE DEF u, n, m, p, q
<1>4. Len(p) = l /\ l \in Nat /\ \A k \in 1..l : p[k] = s[i + k - 1]
  BY <1>1, <1>2 DEF n
<1>5. Len(q) = j /\ \A k \in 1..j : q[k] = t[k]
  <2>1. j \in Nat
    BY <1>1 DEF m
  <2>2. ASSUME NEW k \in 1..j PROVE q[k] = t[k]
    <3>1. k \in 1..(j - 1 + 1) /\ 1 + k - 1 = k
      BY <2>1
    <3> QED
      BY <1>3, <3>1
  <2> QED
    BY <1>3, <2>1, <2>2
<1> DEFINE r == p \o q
<1>6. /\ r \in Seq(X) /\ Len(r) = l + j
      /\ \A k \in 1..l : r[k] = p[k]
      /\ \A k \in 1..j : r[l + k] = q[k]
  <2>1. /\ r \in Seq(X) /\ Len(r) = Len(p) + Len(q)
        /\ \A k \in 1..Len(p) : r[k] = p[k]
        /\ \A k \in 1..Len(q) : r[Len(p) + k] = q[k]
    <3>1. p \in Seq(X) /\ q \in Seq(X)
      BY <1>2, <1>3
    <3> QED
      BY <3>1, BothParts
  <2> HIDE DEF r, l
  <2> QED
    BY <1>4, <1>5, <2>1
<1> HIDE DEF r
<1>7. /\ i \in 1..(Len(u) + 1) /\ h \in 0..Len(u) /\ h - i + 1 = l + j
      /\ l + j = IF i <= h THEN h - i + 1 ELSE 0
  BY <1>1 DEF n, m
<1>8. ASSUME NEW k \in 1..(h - i + 1) PROVE r[k] = u[i + k - 1]
  <2>1. CASE k <= l
    <3>1. k \in 1..l /\ i + k - 1 \in 1..n
      BY <1>1, <1>4, <2>1 DEF n
    <3>2. r[k] = p[k]
      BY <1>6, <3>1
    <3>3. p[k] = s[i + k - 1]
      BY <1>4, <3>1
    <3>4. s[i + k - 1] = u[i + k - 1]
      BY <1>1, <3>1
    <3> QED
      BY <3>2, <3>3, <3>4
  <2>2. CASE k > l
    <3> DEFINE e == k - l
    <3>1. e \in 1..j /\ l + e = k /\ n + e = i + k - 1 /\ e \in 1..m
      BY <1>1, <1>4, <1>7, <2>2 DEF n, m
    <3> HIDE DEF e, l
    <3>2. r[l + e] = q[e]
      BY <1>6, <3>1
    <3>3. q[e] = t[e]
      BY <1>5, <3>1
    <3>4. t[e] = u[n + e]
      BY <1>1, <3>1
    <3> QED
      BY <3>1, <3>2, <3>3, <3>4
  <2> QED
    BY <1>4, <2>1, <2>2
<1> HIDE DEF l, h
<1>9. SubSeq(u, i, h) = r
  <2>1. u \in Seq(X) /\ r \in Seq(X) /\ i \in 1..(Len(u) + 1) /\ h \in 0..Len(u)
    BY <1>1, <1>6, <1>7
  <2>2. Len(r) = IF i <= h THEN h - i + 1 ELSE 0
    BY <1>6, <1>7
  <2> QED
    BY <1>8, <2>1, <2>2, PartsEqual
<1> QED
  BY <1>9 DEF u, n, p, q, r, h

(***************************************************************************)
(* Splitting a stream of two parts                                         *)
(***************************************************************************)
\* From the first position of the rest on, the pieces are those of the rest.
LEMMA RestSolved ==
  ASSUME NEW X, NEW s \in Seq(X), NEW t \in Seq(X), NEW b \in X,
         NEW e, Solves(e, s \o t, <<b>>), NEW g, Solves(g, t, <<b>>)
  PROVE  \A i \in 1..(Len(t) + 1) : e[Len(s) + i] = g[i]
<1> DEFINE u == s \o t
           n == Len(s)
           m == Len(t)
           G == {i \in 1..(m + 1) : e[n + i] = g[i]}
<1>1. /\ u \in Seq(X) /\ Len(u) = n + m /\ n \in Nat /\ m \in Nat
      /\ \A k \in 1..m : u[n + k] = t[k]
  BY BothParts
<1>2. /\ \A i \in 1..(m + 1) : NoneOf(t, b, i) => g[i] = Alone(SubSeq(t, i, m))
      /\ \A i \in 1..(m + 1) : \A h \in i..m : FirstOf(t, b, i, h) =>
           g[i] = Followed(SubSeq(t, i, h - 1), g[h + 1])
  BY SolvesAt
<1>3. /\ \A i \in 1..(Len(u) + 1) : NoneOf(u, b, i) => e[i] = Alone(SubSeq(u, i, Len(u)))
      /\ \A i \in 1..(Len(u) + 1) : \A h \in i..Len(u) : FirstOf(u, b, i, h) =>
           e[i] = Followed(SubSeq(u, i, h - 1), e[h + 1])
  <2>1. u \in Seq(X) /\ Solves(e, u, <<b>>)
    BY <1>1
  <2> HIDE DEF u
  <2> QED
    BY <2>1, SolvesAt
<1>4. \A i \in 1..(m + 1) : \A j \in 0..m : SubSeq(u, n + i, n + j) = SubSeq(t, i, j)
  BY PartOfRest
<1>5. \A i \in 1..(m + 1) : NoneOf(t, b, i) \/ \E h \in i..m : FirstOf(t, b, i, h)
  BY FirstOrNone
<1> HIDE DEF u, n, m
<1>6. ASSUME NEW i \in 1..(m + 1), \A j \in (i + 1)..(m + 1) : j \in G
      PROVE  i \in G
  <2>1. n + i \in 1..(Len(u) + 1)
    BY <1>1
  <2>2. CASE NoneOf(t, b, i)
    <3>1. ASSUME NEW j \in (n + i)..Len(u) PROVE u[j] # b
      <4>1. j - n \in i..m /\ n + (j - n) = j /\ j - n \in 1..m
        BY <1>1
      <4> QED
        BY <1>1, <2>2, <4>1 DEF NoneOf, n, m
    <3>2. e[n + i] = Alone(SubSeq(u, n + i, n + m))
      BY <1>1, <1>3, <2>1, <3>1 DEF NoneOf
    <3>3. SubSeq(u, n + i, n + m) = SubSeq(t, i, m)
      <4>1. m \in 0..m
        BY <1>1
      <4> QED
        BY <1>4, <4>1
    <3> QED
      BY <1>2, <2>2, <3>2, <3>3
  <2>3. ASSUME NEW h \in i..m, FirstOf(t, b, i, h) PROVE i \in G
    <3>1. /\ n + h \in (n + i)..Len(u) /\ h - 1 \in 0..m /\ (n + h) - 1 = n + (h - 1)
          /\ h + 1 \in (i + 1)..(m + 1) /\ (n + h) + 1 = n + (h + 1) /\ h \in 1..m
      BY <1>1
    <3>2. ASSUME NEW j \in (n + i)..((n + h) - 1) PROVE u[j] # b
      <4>1. j - n \in i..(h - 1) /\ n + (j - n) = j /\ j - n \in 1..m
        BY <1>1
      <4> QED
        BY <1>1, <2>3, <4>1 DEF FirstOf
    <3>3. u[n + h] = b
      BY <1>1, <2>3, <3>1 DEF FirstOf
    <3>4. FirstOf(u, b, n + i, n + h)
      BY <3>1, <3>2, <3>3 DEF FirstOf
    <3>5. e[n + i] = Followed(SubSeq(u, n + i, (n + h) - 1), e[(n + h) + 1])
      BY <1>3, <2>1, <3>1, <3>4
    <3>6. SubSeq(u, n + i, (n + h) - 1) = SubSeq(t, i, h - 1)
      BY <1>4, <3>1
    <3>7. e[(n + h) + 1] = g[h + 1]
      BY <1>6, <3>1
    <3>8. g[i] = Followed(SubSeq(t, i, h - 1), g[h + 1])
      BY <1>2, <2>3
    <3> QED
      BY <3>5, <3>6, <3>7, <3>8
  <2> QED
    BY <1>5, <2>2, <2>3
<1>7. G = 1..(m + 1)
  <2>1. G \in SUBSET (1..(m + 1)) /\ m + 1 \in Nat
    BY <1>1
  <2> HIDE DEF G
  <2> QED
    BY <1>6, <2>1, FromTheEnd
<1>8. \A i \in 1..(m + 1) : e[n + i] = g[i]
  BY <1>7
<1> QED
  BY <1>8 DEF n, m

\* Before it, the pieces are those of the first part, of which the last is still open.
LEMMA FirstSolved ==
  ASSUME NEW X, NEW s \in Seq(X), NEW t \in Seq(X), NEW b \in X,
         NEW e, Solves(e, s \o t, <<b>>), NEW f, Solves(f, s, <<b>>),
         NEW g, Solves(g, t, <<b>>)
  PROVE  \A i \in 1..(Len(s) + 1) : e[i] = Glue(f[i], g[1])
<1> DEFINE u == s \o t
           n == Len(s)
           m == Len(t)
           G == {i \in 1..(n + 1) : e[i] = Glue(f[i], g[1])}
<1>1. /\ u \in Seq(X) /\ Len(u) = n + m /\ n \in Nat /\ m \in Nat
      /\ \A k \in 1..n : u[k] = s[k]
      /\ \A k \in 1..m : u[n + k] = t[k]
  BY BothParts
<1>2. /\ \A i \in 1..(n + 1) : NoneOf(s, b, i) => f[i] = Alone(SubSeq(s, i, n))
      /\ \A i \in 1..(n + 1) : \A h \in i..n : FirstOf(s, b, i, h) =>
           f[i] = Followed(SubSeq(s, i, h - 1), f[h + 1])
  BY SolvesAt
<1>3. /\ \A i \in 1..(Len(u) + 1) : NoneOf(u, b, i) => e[i] = Alone(SubSeq(u, i, Len(u)))
      /\ \A i \in 1..(Len(u) + 1) : \A h \in i..Len(u) : FirstOf(u, b, i, h) =>
           e[i] = Followed(SubSeq(u, i, h - 1), e[h + 1])
  <2>1. u \in Seq(X) /\ Solves(e, u, <<b>>)
    BY <1>1
  <2> HIDE DEF u
  <2> QED
    BY <2>1, SolvesAt
<1>4. /\ NoneOf(t, b, 1) => g[1] = Alone(SubSeq(t, 1, m))
      /\ \A h \in 1..m : FirstOf(t, b, 1, h) => g[1] = Followed(SubSeq(t, 1, h - 1), g[h + 1])
  <2>1. 1 \in 1..(Len(t) + 1)
    BY <1>1
  <2> QED
    BY <2>1, SolvesAt
<1>5. \A i \in 1..(n + 1) : \A j \in 0..m :
        SubSeq(u, i, n + j) = SubSeq(s, i, n) \o SubSeq(t, 1, j)
  BY PartOfBoth
<1>6. \A i \in 1..(n + 1) : \A j \in 0..n : SubSeq(u, i, j) = SubSeq(s, i, j)
  BY PartOfFirst
<1>7. \A i \in 1..(n + 1) : NoneOf(s, b, i) \/ \E h \in i..n : FirstOf(s, b, i, h)
  BY FirstOrNone
<1>8. NoneOf(t, b, 1) \/ \E h \in 1..m : FirstOf(t, b, 1, h)
  <2>1. 1 \in 1..(Len(t) + 1)
    BY <1>1
  <2> QED
    BY <2>1, FirstOrNone
<1>9. \A i \in 1..(m + 1) : e[n + i] = g[i]
  BY RestSolved
<1>10. /\ \A i \in 1..(n + 1) : f[i] \in Pieces(X)
       /\ \A i \in 1..(m + 1) : g[i] \in Pieces(X)
  BY SolvesType
<1>11. /\ \A i \in 1..(n + 1) : \A j \in 0..n : SubSeq(s, i, j) \in Seq(X)
       /\ \A j \in 0..m : SubSeq(t, 1, j) \in Seq(X)
  <2>1. 1 \in 1..(Len(t) + 1)
    BY <1>1
  <2> QED
    BY <2>1, PartIs
<1>12. g[1] \in Pieces(X)
  BY <1>1, <1>10
<1> HIDE DEF u, n, m
<1>13. ASSUME NEW i \in 1..(n + 1), \A j \in (i + 1)..(n + 1) : j \in G
       PROVE  i \in G
  <2> DEFINE p == SubSeq(s, i, n)
  <2>1. i \in 1..(Len(u) + 1) /\ p \in Seq(X)
    <3>1. n \in 0..n
      BY <1>1
    <3> QED
      BY <1>1, <1>11, <3>1
  <2>2. CASE NoneOf(s, b, i) /\ NoneOf(t, b, 1)
    <3>1. ASSUME NEW j \in i..Len(u) PROVE u[j] # b
      <4>1. CASE j <= n
        BY <1>1, <2>2, <4>1 DEF NoneOf, n, m
      <4>2. CASE j > n
        <5>1. j - n \in 1..m /\ n + (j - n) = j
          BY <1>1, <4>2
        <5> QED
          BY <1>1, <2>2, <5>1 DEF NoneOf, n, m
      <4> QED
        BY <1>1, <4>1, <4>2
    <3> DEFINE q == SubSeq(t, 1, m)
    <3>2. e[i] = Alone(SubSeq(u, i, n + m))
      BY <1>1, <1>3, <2>1, <3>1 DEF NoneOf
    <3>3. m \in 0..m
      BY <1>1
    <3>4. SubSeq(u, i, n + m) = p \o q
      BY <1>5, <3>3
    <3>5. q \in Seq(X) /\ f[i] = Alone(p) /\ g[1] = Alone(q)
      BY <1>2, <1>4, <1>11, <2>2, <3>3
    <3> HIDE DEF p, q
    <3>6. p \o q \in Seq(X)
      BY <2>1, <3>5, ConcatProperties
    <3>7. Glue(Alone(p), Followed(q, <<>>)) = Followed(p \o q, <<>>)
      <4>1. <<>> \in Seq(Seq(X))
        BY EmptySeq
      <4>2. p \in Seq(X) /\ q \in Seq(X)
        BY <2>1, <3>5
      <4>3. \A x, y \in Seq(X) : \A T \in Seq(Seq(X)) :
              Glue(Alone(x), Followed(y, T)) = Followed(x \o y, T)
        BY GlueOne
      <4> QED
        BY <4>1, <4>2, <4>3
    <3>8. Alone(q) = Followed(q, <<>>)
      BY <3>5, AloneIs
    <3>9. Alone(p \o q) = Followed(p \o q, <<>>)
      BY <3>6, AloneIs
    <3> QED
      BY <3>2, <3>4, <3>5, <3>7, <3>8, <3>9
  <2>3. ASSUME NoneOf(s, b, i), NEW h \in 1..m, FirstOf(t, b, 1, h) PROVE i \in G
    <3>1. ASSUME NEW j \in i..((n + h) - 1) PROVE u[j] # b
      <4>1. CASE j <= n
        BY <1>1, <2>3, <4>1 DEF NoneOf, n, m
      <4>2. CASE j > n
        <5>1. j - n \in 1..(h - 1) /\ n + (j - n) = j /\ j - n \in 1..m
          BY <1>1, <4>2
        <5> QED
          BY <1>1, <2>3, <5>1 DEF FirstOf
      <4> QED
        BY <1>1, <4>1, <4>2
    <3> DEFINE q == SubSeq(t, 1, h - 1)
               R == g[h + 1]
    <3>2. /\ n + h \in i..Len(u) /\ h - 1 \in 0..m /\ (n + h) - 1 = n + (h - 1)
          /\ h + 1 \in 1..(m + 1) /\ (n + h) + 1 = n + (h + 1)
      BY <1>1
    <3>3. u[n + h] = b
      BY <1>1, <2>3 DEF FirstOf
    <3>4. FirstOf(u, b, i, n + h)
      BY <3>1, <3>2, <3>3 DEF FirstOf
    <3>5. e[i] = Followed(SubSeq(u, i, (n + h) - 1), e[(n + h) + 1])
      BY <1>3, <2>1, <3>2, <3>4
    <3>6. SubSeq(u, i, (n + h) - 1) = p \o q
      BY <1>5, <3>2
    <3>7. e[(n + h) + 1] = R
      BY <1>9, <3>2
    <3>8. q \in Seq(X) /\ R \in Pieces(X) /\ f[i] = Alone(p) /\ g[1] = Followed(q, R)
      BY <1>2, <1>4, <1>10, <1>11, <2>3, <3>2
    <3> HIDE DEF p, q, R
    <3>9. R \in Seq(Seq(X))
      BY <3>8, PiecesAre
    <3>10. Glue(Alone(p), Followed(q, R)) = Followed(p \o q, R)
      <4>1. p \in Seq(X) /\ q \in Seq(X)
        BY <2>1, <3>8
      <4>3. \A x, y \in Seq(X) : \A T \in Seq(Seq(X)) :
              Glue(Alone(x), Followed(y, T)) = Followed(x \o y, T)
        BY GlueOne
      <4> QED
        BY <3>9, <4>1, <4>3
    <3> QED
      BY <3>5, <3>6, <3>7, <3>8, <3>10
  <2>4. ASSUME NEW h \in i..n, FirstOf(s, b, i, h) PROVE i \in G
    <3> DEFINE q == SubSeq(s, i, h - 1)
               P == f[h + 1]
               Q == g[1]
    <3>1. /\ h \in i..Len(u) /\ h - 1 \in 0..n /\ h + 1 \in (i + 1)..(n + 1)
          /\ h + 1 \in 1..(n + 1)
      BY <1>1
    <3>2. \A j \in i..(h - 1) : u[j] # b
      <4>1. \A j \in i..(h - 1) : j \in 1..n
        BY <1>1
      <4> QED
        BY <1>1, <2>4, <4>1 DEF FirstOf
    <3>3. u[h] = b
      BY <1>1, <2>4 DEF FirstOf
    <3>4. FirstOf(u, b, i, h)
      BY <3>1, <3>2, <3>3 DEF FirstOf
    <3>5. e[i] = Followed(SubSeq(u, i, h - 1), e[h + 1])
      BY <1>3, <2>1, <3>1, <3>4
    <3>6. SubSeq(u, i, h - 1) = q /\ q \in Seq(X)
      BY <1>6, <1>11, <3>1
    <3>7. e[h + 1] = Glue(P, Q)
      BY <1>13, <3>1
    <3>8. f[i] = Followed(q, P) /\ P \in Pieces(X) /\ Q \in Pieces(X)
      BY <1>2, <1>10, <1>12, <2>4, <3>1
    <3> HIDE DEF q, P, Q
    <3>9. Glue(Followed(q, P), Q) = Followed(q, Glue(P, Q))
      <4>1. q \in Seq(X) /\ P \in Pieces(X) /\ Q \in Pieces(X)
        BY <3>6, <3>8
      <4>2. \A x \in Seq(X) : \A S, T \in Pieces(X) :
              Glue(Followed(x, S), T) = Followed(x, Glue(S, T))
        BY GlueCons
      <4> QED
        BY <4>1, <4>2
    <3> QED
      BY <3>5, <3>6, <3>7, <3>8, <3>9 DEF Q
  <2> QED
    BY <1>7, <1>8, <2>2, <2>3, <2>4
<1>14. G = 1..(n + 1)
  <2>1. G \in SUBSET (1..(n + 1)) /\ n + 1 \in Nat
    BY <1>1
  <2> HIDE DEF G
  <2> QED
    BY <1>13, <2>1, FromTheEnd
<1>15. \A i \in 1..(n + 1) : e[i] = Glue(f[i], g[1])
  BY <1>14
<1> QED
  BY <1>15 DEF n

\* The pieces of a stream of two parts are those of the parts, glued together.
LEMMA SplitConcat ==
  ASSUME NEW X, NEW s \in Seq(X), NEW t \in Seq(X), NEW b \in X
  PROVE  /\ Split(s, <<b>>) \in Pieces(X) /\ Split(t, <<b>>) \in Pieces(X)
         /\ Split(s \o t, <<b>>) = Glue(Split(s, <<b>>), Split(t, <<b>>))
<1> DEFINE d == <<b>>
<1>1. d \in Seq(X) /\ d # <<>> /\ s \o t \in Seq(X)
  BY ConcatProperties
<1>2. /\ 1 \in 1..(Len(s) + 1) /\ 1 \in 1..(Len(t) + 1)
  BY LenProperties
<1> HIDE DEF d
<1>3. PICK f : Solves(f, s, d) /\ Split(s, d) = f[1]
  BY <1>1, SplitSolves DEF Solves
<1>4. PICK g : Solves(g, t, d) /\ Split(t, d) = g[1]
  BY <1>1, SplitSolves DEF Solves
<1>5. PICK e : Solves(e, s \o t, d) /\ Split(s \o t, d) = e[1]
  BY <1>1, SplitSolves DEF Solves
<1>6. f[1] \in Pieces(X) /\ g[1] \in Pieces(X)
  BY <1>2, <1>3, <1>4, SolvesType DEF d
<1>7. e[1] = Glue(f[1], g[1])
  BY <1>2, <1>3, <1>4, <1>5, FirstSolved DEF d
<1> QED
  BY <1>3, <1>4, <1>5, <1>6, <1>7 DEF d

\* The lines that a chunk with the pieces Q completes, and what is left of it, if partial has
\* been left before.
Completed(partly, Q) == IF Len(Q) = 1 THEN <<>> ELSE <<partly \o Head(Q)>> \o Tail(Front(Q))
Left(partly, Q) == IF Len(Q) = 1 THEN partly \o Head(Q) ELSE Last(Q)

\* All pieces but the last.
LEMMA FrontIs ==
  ASSUME NEW X, NEW P \in Pieces(X)
  PROVE  /\ SubSeq(P, 1, Len(P) - 1) \in Seq(Seq(X))
         /\ Len(SubSeq(P, 1, Len(P) - 1)) = Len(P) - 1
         /\ \A k \in 1..(Len(P) - 1) : SubSeq(P, 1, Len(P) - 1)[k] = P[k]
         /\ Front(P) = SubSeq(P, 1, Len(P) - 1) /\ Last(P) = P[Len(P)] /\ Head(P) = P[1]
<1> DEFINE n == Len(P)
           j == n - 1
<1>1. P \in Seq(Seq(X)) /\ n \in Nat /\ n >= 1
  BY PiecesAre
<1>2. 1 \in 1..(Len(P) + 1) /\ j \in 0..Len(P) /\ j - 1 + 1 = j /\ j \in Nat
  BY <1>1
<1>3. /\ SubSeq(P, 1, j) \in Seq(Seq(X))
      /\ Len(SubSeq(P, 1, j)) = IF 1 <= j THEN j - 1 + 1 ELSE 0
      /\ \A k \in 1..(j - 1 + 1) : SubSeq(P, 1, j)[k] = P[1 + k - 1]
  BY <1>1, <1>2, PartIs
<1>4. \A k \in 1..j : 1 + k - 1 = k
  BY <1>2
<1>5. Len(SubSeq(P, 1, j)) = j
  BY <1>2, <1>3
<1>6. \A k \in 1..j : SubSeq(P, 1, j)[k] = P[k]
  BY <1>2, <1>3, <1>4
<1>7. Front(P) = SubSeq(P, 1, n - 1) /\ Last(P) = P[n]
  BY DEF Front, Last
<1>8. Head(P) = P[1]
  BY <1>1
<1> QED
  BY <1>3, <1>5, <1>6, <1>7, <1>8

LEMMA CompletedType ==
  ASSUME NEW X, NEW p \in Seq(X), NEW Q \in Pieces(X)
  PROVE  /\ Completed(p, Q) \in Seq(Seq(X)) /\ Len(Completed(p, Q)) = Len(Q) - 1
         /\ \A k \in 1..(Len(Q) - 1) : Completed(p, Q)[k] = IF k = 1 THEN p \o Q[1] ELSE Q[k]
         /\ Left(p, Q) = IF Len(Q) = 1 THEN p \o Q[1] ELSE Q[Len(Q)]
         /\ Left(p, Q) \in Seq(X)
<1> DEFINE m == Len(Q)
           F == Front(Q)
           pq == p \o Q[1]
<1>1. Q \in Seq(Seq(X)) /\ m \in Nat /\ m >= 1 /\ \A k \in 1..m : Q[k] \in Seq(X)
  BY PiecesAre
<1>2. /\ F \in Seq(Seq(X)) /\ Len(F) = m - 1 /\ \A k \in 1..(m - 1) : F[k] = Q[k]
      /\ Last(Q) = Q[m] /\ Head(Q) = Q[1]
  BY FrontIs
<1>3. pq \in Seq(X)
  <2>1. Q[1] \in Seq(X)
    BY <1>1
  <2> QED
    BY <2>1, ConcatProperties
<1> HIDE DEF m, F, pq
<1>4. Left(p, Q) = IF m = 1 THEN pq ELSE Q[m]
  BY <1>2 DEF Left, m, pq
<1>5. Left(p, Q) \in Seq(X)
  <2>1. m \in 1..m
    BY <1>1
  <2> QED
    BY <1>1, <1>3, <1>4, <2>1
<1>6. CASE m = 1
  <2>1. Completed(p, Q) = <<>>
    BY <1>6 DEF Completed, m
  <2>2. <<>> \in Seq(Seq(X)) /\ Len(<<>>) = 0
    BY EmptySeq
  <2> QED
    BY <1>4, <1>5, <1>6, <2>1, <2>2 DEF m, pq
<1>7. CASE m # 1
  <2> DEFINE R == Tail(F)
             C == Completed(p, Q)
  <2>1. F # <<>>
    <3>1. Len(F) # 0
      BY <1>1, <1>2, <1>7
    <3> QED
      BY <3>1, EmptySeq
  <2>2. R \in Seq(Seq(X)) /\ Len(R) = m - 2 /\ \A k \in 1..Len(R) : R[k] = F[k + 1]
    <3>1. R \in Seq(Seq(X)) /\ Len(R) = Len(F) - 1 /\ \A k \in 1..Len(R) : R[k] = F[k + 1]
      BY <1>2, <2>1, HeadTailProperties
    <3> QED
      BY <1>1, <1>2, <3>1
  <2> HIDE DEF R
  <2>3. C = Followed(pq, R)
    BY <1>2, <1>7 DEF Completed, Followed, m, R, F, pq
  <2>4. C \in Pieces(X) /\ Len(C) = Len(R) + 1 /\ C[1] = pq /\ \A k \in 1..Len(R) : C[k + 1] = R[k]
    BY <1>3, <2>2, <2>3, FollowedIs
  <2> HIDE DEF C
  <2>5. C \in Seq(Seq(X)) /\ Len(C) = m - 1
    BY <1>1, <2>2, <2>4, PiecesAre
  <2>6. ASSUME NEW k \in 1..(m - 1) PROVE C[k] = IF k = 1 THEN pq ELSE Q[k]
    <3>1. CASE k = 1
      BY <2>4, <3>1
    <3>2. CASE k # 1
      <4>1. k - 1 \in 1..Len(R) /\ (k - 1) + 1 = k
        BY <1>1, <2>2, <3>2
      <4>2. C[(k - 1) + 1] = R[k - 1] /\ R[k - 1] = F[(k - 1) + 1]
        BY <2>2, <2>4, <4>1
      <4>3. F[k] = Q[k]
        BY <1>2
      <4> QED
        BY <3>2, <4>1, <4>2, <4>3
    <3> QED
      BY <3>1, <3>2
  <2> QED
    BY <1>4, <1>5, <2>5, <2>6 DEF C, m, pq
<1> QED
  BY <1>6, <1>7

\* What a chunk adds to the lines and to the rest of the stream.
LEMMA GluedLines ==
  ASSUME NEW X, NEW P \in Pieces(X), NEW Q \in Pieces(X)
  PROVE  LET G == Glue(P, Q) p == P[Len(P)]
         IN /\ SubSeq(G, 1, Len(G) - 1) = SubSeq(P, 1, Len(P) - 1) \o Completed(p, Q)
            /\ Last(G) = Left(p, Q)
<1> DEFINE G == Glue(P, Q)
           n == Len(P)
           m == Len(Q)
           p == P[n]
           A == SubSeq(P, 1, n - 1)
           C == Completed(p, Q)
           F == SubSeq(G, 1, Len(G) - 1)
           r == A \o C
<1>1. n \in Nat /\ n >= 1 /\ m \in Nat /\ m >= 1 /\ p \in Seq(X)
  <2>1. n \in Nat /\ n >= 1 /\ m \in Nat /\ m >= 1
    BY PiecesAre
  <2>2. n \in 1..n
    BY <2>1
  <2> QED
    BY <2>1, <2>2, PiecesAre
<1>2. /\ G \in Pieces(X) /\ Len(G) = n + m - 1
      /\ \A k \in 1..(n + m - 1) : G[k] =
           IF k < n THEN P[k] ELSE IF k = n THEN P[k] \o Q[1] ELSE Q[k - n + 1]
  BY GlueType
<1>3. A \in Seq(Seq(X)) /\ Len(A) = n - 1 /\ \A k \in 1..(n - 1) : A[k] = P[k]
  BY FrontIs
<1> HIDE DEF A, G, n, m, p
<1>4. /\ C \in Seq(Seq(X)) /\ Len(C) = m - 1
      /\ \A k \in 1..(m - 1) : C[k] = IF k = 1 THEN p \o Q[1] ELSE Q[k]
      /\ Left(p, Q) = IF m = 1 THEN p \o Q[1] ELSE Q[m]
  <2>1. /\ C \in Seq(Seq(X)) /\ Len(C) = Len(Q) - 1
        /\ \A k \in 1..(Len(Q) - 1) : C[k] = IF k = 1 THEN p \o Q[1] ELSE Q[k]
        /\ Left(p, Q) = IF Len(Q) = 1 THEN p \o Q[1] ELSE Q[Len(Q)]
    <3>1. p \in Seq(X)
      BY <1>1
    <3>2. C \in Seq(Seq(X)) /\ Len(C) = Len(Q) - 1
      BY <3>1, CompletedType
    <3>3. \A k \in 1..(Len(Q) - 1) : C[k] = IF k = 1 THEN p \o Q[1] ELSE Q[k]
      BY <3>1, CompletedType
    <3>4. Left(p, Q) = IF Len(Q) = 1 THEN p \o Q[1] ELSE Q[Len(Q)]
      BY <3>1, CompletedType
    <3> QED
      BY <3>2, <3>3, <3>4
  <2> QED
    BY <2>1 DEF m
<1>5. /\ F \in Seq(Seq(X)) /\ Len(F) = Len(G) - 1 /\ \A k \in 1..(Len(G) - 1) : F[k] = G[k]
      /\ Last(G) = G[Len(G)]
  BY <1>2, FrontIs
<1> HIDE DEF C, F
<1>6. /\ r \in Seq(Seq(X)) /\ Len(r) = Len(A) + Len(C)
      /\ \A k \in 1..Len(A) : r[k] = A[k]
      /\ \A k \in 1..Len(C) : r[Len(A) + k] = C[k]
  <2>1. A \in Seq(Seq(X)) /\ C \in Seq(Seq(X))
    BY <1>3, <1>4
  <2> QED
    BY <2>1, BothParts
<1> HIDE DEF r
<1>7. Len(F) = n + m - 2 /\ Len(r) = n + m - 2
  BY <1>1, <1>2, <1>3, <1>4, <1>5, <1>6
<1>8. ASSUME NEW k \in 1..(n + m - 2) PROVE F[k] = r[k]
  <2>1. k \in 1..(Len(G) - 1) /\ k \in 1..(n + m - 1)
    BY <1>1, <1>2
  <2>2. F[k] = IF k < n THEN P[k] ELSE IF k = n THEN P[k] \o Q[1] ELSE Q[k - n + 1]
    BY <1>2, <1>5, <2>1
  <2>3. CASE k < n
    <3>1. k \in 1..Len(A) /\ k \in 1..(n - 1)
      BY <1>1, <1>3, <2>3
    <3> QED
      BY <1>3, <1>6, <2>2, <2>3, <3>1
  <2>4. CASE k >= n
    <3> DEFINE j == k - n + 1
    <3>1. j \in 1..(m - 1) /\ Len(A) + j = k /\ (j = 1 <=> k = n) /\ ~(k < n)
      BY <1>1, <1>3, <2>4
    <3> HIDE DEF j
    <3>2. r[k] = C[j]
      BY <1>4, <1>6, <3>1
    <3>3. C[j] = IF j = 1 THEN p \o Q[1] ELSE Q[j]
      BY <1>4, <3>1
    <3>4. k = n => P[k] = p
      BY DEF p
    <3> QED
      BY <2>2, <3>1, <3>2, <3>3, <3>4 DEF j
  <2> QED
    BY <1>1, <2>3, <2>4
<1>9. F = r
  BY <1>5, <1>6, <1>7, <1>8, SeqEqual
<1>10. Last(G) = Left(p, Q)
  <2> DEFINE l == n + m - 1
  <2>1. l \in 1..(n + m - 1) /\ Len(G) = l /\ (l = n <=> m = 1) /\ ~(l < n) /\ l - n + 1 = m
    BY <1>1, <1>2
  <2> HIDE DEF l
  <2>2. G[l] = IF l = n THEN P[l] \o Q[1] ELSE Q[m]
    BY <1>2, <2>1
  <2>3. l = n => P[l] = p
    BY DEF p
  <2> QED
    BY <1>4, <1>5, <2>1, <2>2, <2>3
<1> QED
  BY <1>9, <1>10 DEF G, F, r, A, C, p, n

(***************************************************************************)
(* The lines before the first that is not a record                         *)
(***************************************************************************)
LEMMA GoodPrefixIs ==
  ASSUME NEW Y, NEW s \in Seq(Y), NEW n \in 0..Len(s), \A k \in 1..n : s[k] \in Records,
         n < Len(s) => s[n + 1] \notin Records
  PROVE  GoodPrefix(s, Records) = SubSeq(s, 1, n)
<1> DEFINE bad == {k \in DOMAIN s : s[k] \notin Records}
<1>1. DOMAIN s = 1..Len(s) /\ Len(s) \in Nat /\ n \in Nat /\ n <= Len(s)
  <2>1. Len(s) \in Nat /\ DOMAIN s = 1..Len(s)
    BY LenProperties
  <2> QED
    BY <2>1
<1>2. CASE n = Len(s)
  <2>1. bad = {}
    BY <1>1, <1>2
  <2>2. GoodPrefix(s, Records) = s
    BY <2>1 DEF GoodPrefix
  <2>3. SubSeq(s, 1, Len(s)) = s
    BY SubSeqFull
  <2> QED
    BY <1>2, <2>2, <2>3
<1>3. CASE n # Len(s)
  <2> DEFINE e == Len(s)
  <2>1. e \in Nat /\ n \in Nat /\ n <= e /\ n # e
    BY <1>1, <1>3
  <2> HIDE DEF e
  <2>0. n < e /\ n + 1 \in 1..e
    BY <2>1
  <2> USE DEF e
  <2>2. n + 1 \in bad /\ bad \in SUBSET Nat
    BY <1>1, <2>0
  <2> DEFINE l == Min(bad)
  <2>3. l \in bad /\ l <= n + 1
    BY <2>2, LeastIs
  <2>4. l \in 1..Len(s) /\ l \notin 1..n
    BY <1>1, <2>3
  <2>5. GoodPrefix(s, Records) = SubSeq(s, 1, l - 1)
    BY <2>2 DEF GoodPrefix
  <2> HIDE DEF l
  <2>6. l - 1 = n
    BY <1>1, <2>3, <2>4
  <2> QED
    BY <2>5, <2>6
<1> QED
  BY <1>2, <1>3

LEMMA GoodPrefixEnds ==
  ASSUME NEW Y, NEW s \in Seq(Y)
  PROVE  \E n \in 0..Len(s) : /\ \A k \in 1..n : s[k] \in Records
                              /\ n < Len(s) => s[n + 1] \notin Records
<1> DEFINE bad == {k \in DOMAIN s : s[k] \notin Records}
<1>1. DOMAIN s = 1..Len(s) /\ Len(s) \in Nat
  BY LenProperties
<1>2. CASE bad = {}
  BY <1>1, <1>2
<1>3. CASE bad # {}
  <2>1. bad \in SUBSET Nat
    BY <1>1
  <2> DEFINE l == Min(bad)
  <2>2. l \in bad /\ \A y \in bad : l <= y
    BY <1>3, <2>1, LeastIs
  <2>3. l \in 1..Len(s) /\ s[l] \notin Records
    BY <1>1, <2>2
  <2>4. ASSUME NEW k \in 1..(l - 1) PROVE s[k] \in Records
    <3> HIDE DEF l
    <3>1. k \in DOMAIN s /\ ~(l <= k)
      BY <1>1, <2>3
    <3> QED
      BY <2>2, <3>1
  <2> HIDE DEF l
  <2>5. l - 1 \in 0..Len(s) /\ (l - 1) + 1 = l
    BY <1>1, <2>3
  <2> QED
    BY <2>3, <2>4, <2>5
<1> QED
  BY <1>2, <1>3

\* Behind lines that are all records, what counts is where the others stop to be.
LEMMA GoodBehindGood ==
  ASSUME NEW Y, NEW A \in Seq(Y), NEW B \in Seq(Y), \A k \in 1..Len(A) : A[k] \in Records
  PROVE  /\ GoodPrefix(A, Records) = A
         /\ LET G == GoodPrefix(A \o B, Records)
            IN SubSeq(G, Len(A) + 1, Len(G)) = GoodPrefix(B, Records)
<1> DEFINE u == A \o B
           n == Len(A)
           m == Len(B)
<1>1. /\ u \in Seq(Y) /\ Len(u) = n + m /\ n \in Nat /\ m \in Nat
      /\ \A k \in 1..n : u[k] = A[k]
      /\ \A k \in 1..m : u[n + k] = B[k]
  BY BothParts
<1>2. GoodPrefix(A, Records) = A
  <2>1. n \in 0..Len(A) /\ ~(n < Len(A))
    BY <1>1
  <2>2. GoodPrefix(A, Records) = SubSeq(A, 1, n)
    BY <2>1, GoodPrefixIs
  <2>3. SubSeq(A, 1, n) = A
    BY SubSeqFull
  <2> QED
    BY <2>2, <2>3
<1>3. PICK j \in 0..m : (\A k \in 1..j : B[k] \in Records) /\ (j < m => B[j + 1] \notin Records)
  BY GoodPrefixEnds
<1> DEFINE D == SubSeq(B, 1, j)
           G == A \o D
<1>4. GoodPrefix(B, Records) = D
  BY <1>3, GoodPrefixIs
<1>5. GoodPrefix(u, Records) = SubSeq(u, 1, n + j)
  <2> HIDE DEF u, m
  <2>1. n + j \in 0..Len(u) /\ j \in Nat
    BY <1>1
  <2>2. ASSUME NEW k \in 1..(n + j) PROVE u[k] \in Records
    <3>1. CASE k <= n
      <4>1. k \in 1..n
        BY <1>1, <3>1
      <4> QED
        BY <1>1, <4>1
    <3>2. CASE k > n
      <4>1. k - n \in 1..j /\ k - n \in 1..m /\ n + (k - n) = k
        BY <1>1, <3>2
      <4>2. B[k - n] \in Records
        BY <1>3, <4>1
      <4>3. u[n + (k - n)] = B[k - n]
        BY <1>1, <4>1
      <4> QED
        BY <4>1, <4>2, <4>3
    <3> QED
      BY <1>1, <3>1, <3>2
  <2>3. ASSUME n + j < Len(u) PROVE u[(n + j) + 1] \notin Records
    <3>1. j < m /\ j + 1 \in 1..m /\ n + (j + 1) = (n + j) + 1
      BY <1>1, <2>1, <2>3
    <3>2. u[n + (j + 1)] = B[j + 1]
      BY <1>1, <3>1
    <3> QED
      BY <1>3, <3>1, <3>2
  <2> QED
    BY <1>1, <2>1, <2>2, <2>3, GoodPrefixIs
<1>6. SubSeq(u, 1, n + j) = SubSeq(A, 1, n) \o D
  <2>1. 1 \in 1..(Len(A) + 1)
    BY <1>1
  <2> QED
    BY <2>1, PartOfBoth
<1>7. SubSeq(A, 1, n) = A
  BY SubSeqFull
<1>8. GoodPrefix(u, Records) = G
  BY <1>5, <1>6, <1>7
<1>9. D \in Seq(Y) /\ Len(D) = j
  <2>1. 1 \in 1..(Len(B) + 1) /\ j \in 0..Len(B) /\ j - 1 + 1 = j /\ (1 <= j \/ j = 0)
    BY <1>1
  <2>2. D \in Seq(Y) /\ Len(D) = IF 1 <= j THEN j - 1 + 1 ELSE 0
    BY <2>1, PartIs
  <2> QED
    BY <2>1, <2>2
<1>10. SubSeq(G, n + 1, Len(G)) = D
  <2> HIDE DEF D
  <2>1. Len(G) = n + Len(D) /\ Len(D) \in Nat
    BY <1>9, BothParts
  <2>2. 1 \in 1..(Len(D) + 1) /\ Len(D) \in 0..Len(D)
    BY <2>1
  <2>3. SubSeq(A \o D, Len(A) + 1, Len(A) + Len(D)) = SubSeq(D, 1, Len(D))
    BY <1>9, <2>2, PartOfRest
  <2>4. SubSeq(D, 1, Len(D)) = D
    BY <1>9, SubSeqFull
  <2> QED
    BY <2>1, <2>3, <2>4
<1> QED
  BY <1>2, <1>4, <1>8, <1>10

(***************************************************************************)
(* The records of a stream                                                 *)
(***************************************************************************)
\* A delimiter of several bytes may be torn apart by two reads, and is not found then.
OneByte == \A d \in Delimiters : Len(d) = 1

\* What has been read of the stream of c.
Taken(c) == SubSeq(sent[c], 1, taken[c])
LinesRead(c) == Lines(Taken(c), cut[c])

StreamTypes ==
  /\ sent \in [Conns -> Seq(Bytes)] /\ taken \in [Conns -> Nat] /\ partial \in [Conns -> Seq(Bytes)]
  /\ cut \in [Conns -> Delimiters \cup {None}] /\ delimiter \in Delimiters
  /\ conn \in [Conns -> {"none", "registered", "unregistered", "closed"}]

\* An event that is still to be handled is of a socket in the selector.
Handled ==
  \A c \in Conns : thread \in {"unstarted", "running"} /\ c \in batch => conn[c] = "registered"

\* A connection that is still read has given records only, and partial is what follows them.
Framed(c) ==
  /\ taken[c] <= Len(sent[c])
  /\ conn[c] = "none" => cut[c] = None /\ taken[c] = 0 /\ partial[c] = <<>>
  /\ conn[c] = "registered" =>
       /\ cut[c] \in Delimiters
       /\ partial[c] = Last(Split(Taken(c), cut[c]))
       /\ \A k \in DOMAIN LinesRead(c) : LinesRead(c)[k] \in Records

StreamInv == StreamTypes /\ Handled /\ \A c \in Conns : Framed(c)

LEMMA ByteOf ==
  ASSUME OneByte, NEW d \in Delimiters
  PROVE  \E b \in Bytes : d = <<b>>
<1>1. d \in Seq(Bytes) /\ Len(d) = 1
  BY LogstashAssumption DEF OneByte
<1>2. d[1] \in Bytes
  BY <1>1, ElementOfSeq
<1> DEFINE e == <<d[1]>>
<1>3. e \in Seq(Bytes) /\ Len(e) = 1 /\ e[1] = d[1]
  BY <1>2
<1> HIDE DEF e
<1>4. d = e
  <2>1. \A i \in 1..Len(d) : d[i] = e[i]
    BY <1>1, <1>3
  <2> QED
    BY <1>1, <1>3, <2>1, SeqEqual
<1> QED
  BY <1>2, <1>4 DEF e

\* The part of a stream that one recv takes.
LEMMA ChunkIs ==
  ASSUME StreamInv, NEW c \in Conns, Unread(c) > 0
  PROVE  /\ Chunk(c) \in Seq(Bytes) /\ Taken(c) \in Seq(Bytes)
         /\ taken[c] + Len(Chunk(c)) \in (taken[c] + 1)..Len(sent[c])
         /\ Taken(c) \o Chunk(c) = SubSeq(sent[c], 1, taken[c] + Len(Chunk(c)))
<1> DEFINE s == sent[c]
           k == taken[c]
           n == Len(s)
           M == {n, k + RecvSize}
           e == Min(M)
<1>1. s \in Seq(Bytes) /\ k \in Nat /\ n \in Nat /\ k <= n /\ RecvSize \in Nat /\ RecvSize >= 1
  <2>1. s \in Seq(Bytes) /\ k \in Nat /\ k <= n
    BY DEF StreamInv, StreamTypes, Framed
  <2>2. n \in Nat
    BY <2>1, LenProperties
  <2>3. RecvSize \in Nat /\ RecvSize >= 1
    BY LogstashAssumption
  <2> QED
    BY <2>1, <2>2, <2>3
<1>2. n - k > 0
  BY DEF Unread
<1>3. Chunk(c) = SubSeq(s, k + 1, e)
  BY DEF Chunk
<1> HIDE DEF s, k, n
<1>4. e \in (k + 1)..n
  <2>1. M \in SUBSET Nat /\ M # {}
    BY <1>1
  <2>2. e \in M /\ \A y \in M : e <= y
    BY <2>1, LeastIs
  <2> HIDE DEF e
  <2> QED
    BY <1>1, <1>2, <2>2
<1> HIDE DEF e
<1>5. k + 1 \in 1..(Len(s) + 1) /\ e \in 0..Len(s) /\ 1 \in 1..(Len(s) + 1) /\ k \in 0..Len(s)
  BY <1>1, <1>4 DEF n
<1>6. Chunk(c) \in Seq(Bytes) /\ Len(Chunk(c)) = IF k + 1 <= e THEN e - (k + 1) + 1 ELSE 0
  BY <1>1, <1>3, <1>5, PartIs
<1>7. Len(Chunk(c)) = e - k
  BY <1>1, <1>4, <1>6
<1>8. SubSeq(s, 1, k) \in Seq(Bytes)
  BY <1>1, <1>5, PartIs
<1>9. SubSeq(s, 1, k) \o SubSeq(s, k + 1, e) = SubSeq(s, 1, e)
  <2>1. k \in (1 - 1)..Len(s) /\ e \in k..Len(s)
    BY <1>1, <1>4 DEF n
  <2> QED
    BY <1>1, <1>5, <2>1, ConcatAdjacentSubSeq
<1>10. k + Len(Chunk(c)) = e
  BY <1>1, <1>4, <1>7
<1> QED
  BY <1>3, <1>4, <1>6, <1>8, <1>9, <1>10 DEF s, k, n, Taken

\* What one recv adds to what has been read.
LEMMA ChunkAdds ==
  ASSUME StreamInv, OneByte, NEW c \in Conns, conn[c] = "registered", Unread(c) > 0
  PROVE  LET s == SubSeq(sent[c], 1, taken[c] + Len(Chunk(c)))
         IN /\ Lines(s, cut[c]) = LinesRead(c) \o LinesOf(c)
            /\ Last(Split(s, cut[c])) = Rest(c)
            /\ LinesRead(c) \in Seq(Seq(Bytes)) /\ LinesOf(c) \in Seq(Seq(Bytes))
            /\ Rest(c) \in Seq(Bytes)
<1> DEFINE d == cut[c]
           P == Split(Taken(c), d)
           Q == Split(Chunk(c), d)
           p == P[Len(P)]
<1>1. PICK b \in Bytes : d = <<b>>
  <2>1. d \in Delimiters
    BY DEF StreamInv, Framed
  <2> QED
    BY <2>1, ByteOf
<1>2. P \in Pieces(Bytes) /\ Q \in Pieces(Bytes) /\ Split(Taken(c) \o Chunk(c), d) = Glue(P, Q)
  <2>1. Taken(c) \in Seq(Bytes) /\ Chunk(c) \in Seq(Bytes)
    BY ChunkIs
  <2> QED
    BY <1>1, <2>1, SplitConcat
<1>3. partial[c] = Last(P)
  BY DEF StreamInv, Framed
<1>4. Completed(partial[c], Q) = LinesOf(c) /\ Left(partial[c], Q) = Rest(c)
  BY DEF Completed, LinesOf, Left, Rest
<1>5. LinesRead(c) = SubSeq(P, 1, Len(P) - 1)
  BY DEF LinesRead, Lines
<1>6. Lines(Taken(c) \o Chunk(c), d) = SubSeq(Glue(P, Q), 1, Len(Glue(P, Q)) - 1)
  BY <1>2 DEF Lines
<1> HIDE DEF P, Q, d
<1>7. p = partial[c] /\ SubSeq(P, 1, Len(P) - 1) \in Seq(Seq(Bytes))
  BY <1>2, <1>3, FrontIs
<1>8. /\ SubSeq(Glue(P, Q), 1, Len(Glue(P, Q)) - 1) = SubSeq(P, 1, Len(P) - 1) \o Completed(p, Q)
      /\ Last(Glue(P, Q)) = Left(p, Q)
  BY <1>2, GluedLines
<1>9. p \in Seq(Bytes)
  BY <1>7 DEF StreamInv, StreamTypes
<1> HIDE DEF p
<1>10. Completed(p, Q) \in Seq(Seq(Bytes)) /\ Left(p, Q) \in Seq(Bytes)
  BY <1>2, <1>9, CompletedType
<1>11. Taken(c) \o Chunk(c) = SubSeq(sent[c], 1, taken[c] + Len(Chunk(c)))
  BY ChunkIs
<1> QED
  BY <1>2, <1>4, <1>5, <1>6, <1>7, <1>8, <1>10, <1>11 DEF d

\* The promise is stated with operators of its own instance of Framing.
LEMMA SameLines == \A s, d : Promise!Lines(s, d) = Lines(s, d)
BY DEF Promise!Lines, Lines, Promise!Split, Split, Promise!Hits, Hits, Promise!Min, Min

LEMMA SameGoodPrefix == \A s, R : Promise!GoodPrefix(s, R) = GoodPrefix(s, R)
BY DEF Promise!GoodPrefix, GoodPrefix, Promise!Min, Min

\* A recv is a step of the promise, with the records it adds.
LEMMA TakesRecords ==
  ASSUME StreamInv, OneByte, NEW c \in Conns, conn[c] = "registered", Unread(c) > 0, Receive(c)
  PROVE  Promise!Take(c)
<1> DEFINE n == taken[c] + Len(Chunk(c))
           s == SubSeq(sent[c], 1, n)
           A == LinesRead(c)
           B == LinesOf(c)
<1>1. /\ Lines(s, cut[c]) = A \o B
      /\ A \in Seq(Seq(Bytes)) /\ B \in Seq(Seq(Bytes))
  BY ChunkAdds
<1>2. \A k \in 1..Len(A) : A[k] \in Records
  <2>1. DOMAIN A = 1..Len(A)
    BY <1>1, LenProperties
  <2> QED
    BY <2>1 DEF StreamInv, Framed
<1>3. n \in (taken[c] + 1)..Len(sent[c])
  BY ChunkIs
<1> HIDE DEF A, B
<1>4. /\ GoodPrefix(A, Records) = A
      /\ LET G == GoodPrefix(A \o B, Records)
         IN SubSeq(G, Len(A) + 1, Len(G)) = GoodPrefix(B, Records)
  BY <1>1, <1>2, GoodBehindGood
<1>5. /\ Promise!LinesTaken(c, taken[c]) = A
      /\ Promise!RecordsTaken(c, taken[c]) = GoodPrefix(A, Records)
  BY SameLines, SameGoodPrefix DEF Promise!LinesTaken, Promise!RecordsTaken, A, LinesRead, Taken
<1>6. Promise!RecordsTaken(c, n) = GoodPrefix(Lines(s, cut[c]), Records)
  BY SameLines, SameGoodPrefix DEF Promise!LinesTaken, Promise!RecordsTaken
<1>7. cut[c] # None
  BY LogstashAssumption DEF StreamInv, Framed
<1>8. /\ records' = records \o Tagged(c, GoodPrefix(B, Records))
      /\ taken' = [taken EXCEPT ![c] = n] /\ sent' = sent /\ cut' = cut
  BY DEF Receive, B, clientVars
<1>9. \A lines : Promise!Tagged(c, lines) = Tagged(c, lines)
  BY DEF Promise!Tagged, Tagged
<1>10. LET before == Promise!RecordsTaken(c, taken[c])
           after == Promise!RecordsTaken(c, n)
       IN records' = records \o Promise!Tagged(c, SubSeq(after, Len(before) + 1, Len(after)))
  BY <1>1, <1>4, <1>5, <1>6, <1>8, <1>9
<1> HIDE DEF n
<1> QED
  BY <1>3, <1>4, <1>5, <1>7, <1>8, <1>10 DEF Promise!Take

LEMMA StreamInit == Init => StreamInv
<1> SUFFICES ASSUME Init PROVE StreamInv
  OBVIOUS
<1>1. StreamTypes
  <2>1. <<>> \in Seq(Bytes)
    BY EmptySeq
  <2> QED
    BY <2>1, LogstashAssumption DEF Init, StreamTypes
<1>2. Handled
  BY DEF Init, Handled
<1>3. \A c \in Conns : Framed(c)
  BY EmptySeq DEF Init, Framed
<1> QED
  BY <1>1, <1>2, <1>3 DEF StreamInv

\* What leaves a connection alone.
LEMMA FramedAside ==
  ASSUME NEW c \in Conns, Framed(c), sent'[c] = sent[c], taken'[c] = taken[c],
         cut'[c] = cut[c], partial'[c] = partial[c],
         conn'[c] = conn[c] \/ conn'[c] \notin {"none", "registered"}
  PROVE  Framed(c)'
<1>1. Taken(c)' = Taken(c) /\ LinesRead(c)' = LinesRead(c)
  BY DEF Taken, LinesRead
<1>2. Split(Taken(c)', cut'[c]) = Split(Taken(c), cut[c])
  BY <1>1
<1>3. CASE conn'[c] = conn[c]
  BY <1>1, <1>2, <1>3 DEF Framed
<1>4. CASE conn'[c] \notin {"none", "registered"}
  BY <1>4 DEF Framed
<1> QED
  BY <1>3, <1>4

\* Steps that touch no stream.
LEMMA StreamAside ==
  ASSUME StreamInv, UNCHANGED <<sent, taken, cut, partial>>, delimiter' \in Delimiters,
         conn' \in [Conns -> {"none", "registered", "unregistered", "closed"}],
         \A c \in Conns : conn'[c] = conn[c] \/ conn'[c] \notin {"none", "registered"},
         Handled'
  PROVE  StreamInv'
<1>1. StreamTypes'
  BY DEF StreamInv, StreamTypes
<1>2. ASSUME NEW c \in Conns PROVE Framed(c)'
  BY FramedAside DEF StreamInv
<1> QED
  BY <1>1, <1>2 DEF StreamInv

\* An event less, and a socket less, is none in the selector less that is still to be handled.
LEMMA HandledLess ==
  ASSUME Handled, NEW c \in Conns, conn \in [Conns -> {"none", "registered", "unregistered", "closed"}],
         thread' \in {"unstarted", "running"} => thread \in {"unstarted", "running"},
         \A d \in Conns \ {c} : conn'[d] = conn[d],
         \A d \in Conns : d \in batch' => d \in batch,
         c \in batch' => conn'[c] = conn[c]
  PROVE  Handled'
BY DEF Handled

LEMMA StreamClients ==
  ASSUME StreamInv, NEW c \in Conns, Connect(c) \/ Finish(c) \/ Reset(c)
  PROVE  StreamInv'
<1>1. UNCHANGED <<serviceVars, connVars, sent>>
  BY DEF Connect, Finish, Reset
<1>2. Handled'
  BY <1>1 DEF StreamInv, Handled, serviceVars, connVars
<1> QED
  BY <1>1, <1>2, StreamAside DEF StreamInv, StreamTypes, serviceVars, connVars

LEMMA SendIs ==
  ASSUME StreamInv, NEW c \in Conns, Send(c)
  PROVE  \E x \in Bytes : sent' = [sent EXCEPT ![c] = Append(@, x)]
<1>1. PICK s \in Streams[c] : Len(sent[c]) < Len(s) /\ sent' = [sent EXCEPT ![c] = Append(@, s[Len(@) + 1])]
  BY DEF Send
<1>2. s \in Seq(Bytes) /\ sent[c] \in Seq(Bytes)
  BY LogstashAssumption DEF StreamInv, StreamTypes
<1>3. Len(sent[c]) + 1 \in 1..Len(s)
  <2>1. Len(sent[c]) \in Nat /\ Len(s) \in Nat
    BY <1>2, LenProperties
  <2> QED
    BY <1>1, <2>1
<1>4. s[Len(sent[c]) + 1] \in Bytes
  BY <1>2, <1>3, ElementOfSeq
<1> QED
  BY <1>1, <1>4 DEF StreamInv, StreamTypes

LEMMA StreamSend ==
  ASSUME StreamInv, NEW c \in Conns, Send(c)
  PROVE  StreamInv' /\ Promise!Send(c)
<1>1. PICK x \in Bytes : sent' = [sent EXCEPT ![c] = Append(@, x)]
  BY SendIs
<1>2. UNCHANGED <<serviceVars, connVars>>
  BY DEF Send
<1> DEFINE s == sent[c]
           t == Append(s, x)
           n == Len(s)
           k == taken[c]
<1>3. s \in Seq(Bytes) /\ k \in Nat /\ k <= n /\ n \in Nat
  <2>1. s \in Seq(Bytes) /\ k \in Nat /\ k <= n
    BY DEF StreamInv, StreamTypes, Framed
  <2> QED
    BY <2>1, LenProperties
<1>4. sent'[c] = t /\ \A d \in Conns \ {c} : sent'[d] = sent[d]
  BY <1>1 DEF StreamInv, StreamTypes
<1>5. t \in Seq(Bytes) /\ Len(t) = n + 1
  BY <1>3, AppendProperties
<1>6. t = s \o <<x>> /\ <<x>> \in Seq(Bytes)
  BY <1>3
<1> HIDE DEF t
<1>7. \A j \in 0..n : SubSeq(t, 1, j) = SubSeq(s, 1, j)
  <2>1. 1 \in 1..(Len(s) + 1)
    BY <1>3
  <2> QED
    BY <1>3, <1>6, <2>1, PartOfFirst
<1>8. SubSeq(t, 1, n) = s /\ SubSeq(t, 1, k) = SubSeq(s, 1, k)
  <2>1. n \in 0..n /\ k \in 0..n
    BY <1>3
  <2>2. SubSeq(s, 1, n) = s
    BY <1>3, SubSeqFull
  <2> QED
    BY <1>7, <2>1, <2>2
<1>9. Promise!Send(c)
  <2>1. Len(t) > n
    BY <1>3, <1>5
  <2> QED
    BY <1>2, <1>4, <1>8, <2>1 DEF Promise!Send, serviceVars, connVars
<1>10. StreamTypes'
  BY <1>1, <1>2, <1>4, <1>5 DEF StreamInv, StreamTypes, serviceVars, connVars
<1>11. Handled'
  BY <1>2 DEF StreamInv, Handled, serviceVars, connVars
<1>12. Framed(c)'
  <2>1. Taken(c)' = Taken(c) /\ LinesRead(c)' = LinesRead(c)
    BY <1>2, <1>4, <1>8 DEF Taken, LinesRead, connVars
  <2>2. taken'[c] <= Len(sent'[c])
    BY <1>2, <1>3, <1>4, <1>5 DEF connVars
  <2>3. Framed(c) /\ cut' = cut /\ taken' = taken /\ partial' = partial /\ conn' = conn
    BY <1>2 DEF StreamInv, connVars
  <2>4. Split(Taken(c)', cut'[c]) = Split(Taken(c), cut[c])
    BY <2>1, <2>3
  <2> QED
    BY <2>1, <2>2, <2>3, <2>4 DEF Framed
<1>13. ASSUME NEW d \in Conns, d # c PROVE Framed(d)'
  BY <1>2, <1>4, <1>13, FramedAside DEF StreamInv, connVars
<1> QED
  BY <1>9, <1>10, <1>11, <1>12, <1>13 DEF StreamInv

\* Nothing read is one piece, which is empty.
LEMMA NothingRead ==
  ASSUME NEW X, NEW b \in X
  PROVE  Split(<<>>, <<b>>) = << <<>> >>
<1> DEFINE s == <<>>
           d == <<b>>
<1>1. s \in Seq(X) /\ d \in Seq(X) /\ d # <<>>
  BY EmptySeq
<1>2. 1 \in 1..(Len(s) + 1) /\ NoneOf(s, b, 1)
  BY <1>1 DEF NoneOf
<1>3. SubSeq(s, 1, Len(s)) = <<>>
  BY <1>1, SubSeqFull
<1> HIDE DEF s
<1>4. PICK f : Solves(f, s, d) /\ Split(s, d) = f[1]
  <2> HIDE DEF d
  <2>1. \E f : /\ f = [i \in 1..(Len(s) + 1) |-> PiecesAt(f, s, d, i)]
               /\ Split(s, d) = f[1]
    BY <1>1, SplitSolves
  <2> QED
    BY <2>1 DEF Solves
<1>5. f[1] = Alone(SubSeq(s, 1, Len(s)))
  <2>1. s \in Seq(X) /\ Solves(f, s, <<b>>)
    BY <1>1, <1>4
  <2>2. \A i \in 1..(Len(s) + 1) : NoneOf(s, b, i) => f[i] = Alone(SubSeq(s, i, Len(s)))
    BY <2>1, SolvesAt
  <2> QED
    BY <1>2, <2>2
<1> QED
  BY <1>3, <1>4, <1>5 DEF s, d, Alone

LEMMA StreamAccept ==
  ASSUME StreamInv, OneByte, NEW c \in Conns, Accept(c)
  PROVE  StreamInv' /\ Promise!Accept(c)
<1>1. conn[c] = "none" /\ cut[c] = None /\ taken[c] = 0 /\ partial[c] = <<>>
  BY DEF Accept, Waiting, StreamInv, Framed
<1>2. /\ batch' = batch \ {"root"} /\ thread' = thread
      /\ conn' = [conn EXCEPT ![c] = "registered"] /\ cut' = [cut EXCEPT ![c] = delimiter]
      /\ UNCHANGED <<records, delimiter, taken, partial, sent>> /\ delimiter \in Delimiters
  BY DEF Accept, StreamInv, StreamTypes, clientVars
<1>3. Promise!Accept(c)
  BY <1>1, <1>2 DEF Promise!Accept
<1>4. StreamTypes'
  BY <1>2 DEF StreamInv, StreamTypes
<1>5. Handled'
  BY <1>2 DEF StreamInv, StreamTypes, Handled
<1>6. conn'[c] = "registered" /\ cut'[c] = delimiter
  BY <1>2 DEF StreamInv, StreamTypes
<1>7. Framed(c)'
  <2>1. PICK b \in Bytes : delimiter = <<b>>
    BY <1>2, ByteOf
  <2>2. sent[c] \in Seq(Bytes) /\ Len(sent[c]) \in Nat
    BY LenProperties DEF StreamInv, StreamTypes
  <2>3. Taken(c)' = <<>>
    <3>1. SubSeq(sent[c], 1, 0) = <<>>
      BY <2>2, SubSeqEmpty
    <3> QED
      BY <1>1, <1>2, <3>1 DEF Taken
  <2> DEFINE P == Split(<<>>, <<b>>)
  <2>4. P = << <<>> >>
    BY NothingRead
  <2>5. <<>> \in Seq(Bytes)
    BY EmptySeq
  <2>6. P \in Pieces(Bytes) /\ Len(P) = 1 /\ P[1] = <<>>
    BY <2>4, <2>5, AloneIs DEF Alone
  <2> HIDE DEF P
  <2>7. Last(P) = <<>> /\ Lines(<<>>, <<b>>) = SubSeq(P, 1, 0)
    <3>1. Last(P) = <<>>
      BY <2>6 DEF Last
    <3>2. Lines(<<>>, <<b>>) = SubSeq(P, 1, Len(P) - 1)
      BY DEF Lines, P
    <3>3. Len(P) - 1 = 0
      BY <2>6
    <3> QED
      BY <3>1, <3>2, <3>3
  <2>8. SubSeq(P, 1, 0) \in Seq(Seq(Bytes)) /\ Len(SubSeq(P, 1, 0)) = 0
    BY <2>6, FrontIs
  <2>9. DOMAIN Lines(<<>>, <<b>>) = {}
    <3>1. DOMAIN SubSeq(P, 1, 0) = 1..0
      BY <2>8, LenProperties
    <3> QED
      BY <2>7, <3>1
  <2>10. LinesRead(c)' = Lines(<<>>, <<b>>) /\ Split(Taken(c)', cut'[c]) = P
    BY <1>6, <2>1, <2>3 DEF LinesRead, P
  <2>11. taken'[c] <= Len(sent'[c]) /\ partial'[c] = <<>> /\ cut'[c] \in Delimiters
    BY <1>1, <1>2, <1>6, <2>2
  <2> QED
    BY <1>6, <2>7, <2>9, <2>10, <2>11 DEF Framed
<1>8. ASSUME NEW d \in Conns, d # c PROVE Framed(d)'
  BY <1>2, <1>8, FramedAside DEF StreamInv, StreamTypes
<1> QED
  BY <1>3, <1>4, <1>5, <1>7, <1>8 DEF StreamInv

\* A recv, whether or not it finds a line that is no record.
LEMMA StreamReceive ==
  ASSUME StreamInv, OneByte, NEW c \in Conns, ReceiveLines(c) \/ ReceiveBadLine(c)
  PROVE  StreamInv' /\ Promise!Take(c)
<1> DEFINE n == taken[c] + Len(Chunk(c))
           s == SubSeq(sent[c], 1, n)
<1>1. /\ Handles(c) /\ Unread(c) > 0 /\ Receive(c)
      /\ partial' = [partial EXCEPT ![c] = Rest(c)]
      /\ \/ ~HasBadLine(c) /\ thread' = thread /\ conn' = conn
         \/ thread' \in {"dead", thread}
            /\ \E o \in {"unregistered", "closed"} : conn' = [conn EXCEPT ![c] = o]
  BY DEF ReceiveLines, ReceiveBadLine
<1>2. conn[c] = "registered" /\ cut[c] \in Delimiters
  BY <1>1 DEF StreamInv, Handled, Handles, Framed
<1>3. Promise!Take(c)
  BY <1>1, <1>2, TakesRecords
<1>4. /\ Lines(s, cut[c]) = LinesRead(c) \o LinesOf(c) /\ Last(Split(s, cut[c])) = Rest(c)
      /\ LinesRead(c) \in Seq(Seq(Bytes)) /\ LinesOf(c) \in Seq(Seq(Bytes))
      /\ Rest(c) \in Seq(Bytes)
  BY <1>1, <1>2, ChunkAdds
<1>5. n \in (taken[c] + 1)..Len(sent[c]) /\ taken[c] \in Nat /\ Len(sent[c]) \in Nat
  <2>1. sent[c] \in Seq(Bytes) /\ taken[c] \in Nat
    BY DEF StreamInv, StreamTypes
  <2>2. Len(sent[c]) \in Nat
    BY <2>1, LenProperties
  <2> QED
    BY <1>1, <2>1, <2>2, ChunkIs
<1>6. /\ batch' = batch \ {c} /\ taken' = [taken EXCEPT ![c] = n]
      /\ UNCHANGED <<delimiter, cut, sent>>
  BY <1>1 DEF Receive, clientVars
<1> HIDE DEF n
<1>7. StreamTypes'
  <2>1. conn' \in [Conns -> {"none", "registered", "unregistered", "closed"}]
    BY <1>1 DEF StreamInv, StreamTypes
  <2>2. n \in Nat
    BY <1>5
  <2> QED
    BY <1>1, <1>4, <1>6, <2>1, <2>2 DEF StreamInv, StreamTypes
<1>8. \A d \in Conns \ {c} : conn'[d] = conn[d]
  BY <1>1 DEF StreamInv, StreamTypes
<1>9. Handled'
  BY <1>1, <1>6, <1>8, HandledLess DEF StreamInv, StreamTypes
<1>10. taken'[c] = n /\ partial'[c] = Rest(c) /\ cut'[c] = cut[c] /\ sent'[c] = sent[c]
  BY <1>1, <1>6 DEF StreamInv, StreamTypes
<1>11. Framed(c)'
  <2>1. taken'[c] <= Len(sent'[c])
    BY <1>5, <1>10
  <2>2. CASE ~HasBadLine(c) /\ conn' = conn
    <3>1. Taken(c)' = s /\ LinesRead(c)' = Lines(s, cut[c])
      BY <1>10 DEF Taken, LinesRead
    <3>2. partial'[c] = Last(Split(Taken(c)', cut'[c]))
      BY <1>4, <1>10, <3>1
    <3> DEFINE A == LinesRead(c)
               B == LinesOf(c)
               u == A \o B
    <3>3. /\ \A k \in DOMAIN A : A[k] \in Records
          /\ \A k \in DOMAIN B : B[k] \in Records
      BY <1>2, <2>2 DEF StreamInv, Framed, HasBadLine, Range
    <3> HIDE DEF A, B
    <3>4. /\ u \in Seq(Seq(Bytes)) /\ Len(u) = Len(A) + Len(B) /\ Len(A) \in Nat /\ Len(B) \in Nat
          /\ \A k \in 1..Len(A) : u[k] = A[k]
          /\ \A k \in 1..Len(B) : u[Len(A) + k] = B[k]
          /\ DOMAIN A = 1..Len(A) /\ DOMAIN B = 1..Len(B)
      <4>1. A \in Seq(Seq(Bytes)) /\ B \in Seq(Seq(Bytes))
        BY <1>4 DEF A, B
      <4>2. DOMAIN A = 1..Len(A) /\ DOMAIN B = 1..Len(B)
        BY <4>1, LenProperties
      <4> QED
        BY <4>1, <4>2, BothParts
    <3>5. DOMAIN u = 1..(Len(A) + Len(B))
      BY <3>4, LenProperties
    <3> HIDE DEF u
    <3>6. ASSUME NEW k \in DOMAIN u PROVE u[k] \in Records
      <4>1. CASE k <= Len(A)
        <5>1. k \in 1..Len(A)
          BY <3>4, <3>5, <4>1
        <5> QED
          BY <3>3, <3>4, <5>1
      <4>2. CASE k > Len(A)
        <5>1. k - Len(A) \in 1..Len(B) /\ Len(A) + (k - Len(A)) = k
          BY <3>4, <3>5, <4>2
        <5>2. u[Len(A) + (k - Len(A))] = B[k - Len(A)]
          BY <3>4, <5>1
        <5>3. B[k - Len(A)] \in Records
          BY <3>3, <3>4, <5>1
        <5> QED
          BY <5>1, <5>2, <5>3
      <4>3. k \in Nat
        BY <3>4, <3>5
      <4> QED
        BY <3>4, <4>1, <4>2, <4>3
    <3>7. LinesRead(c)' = u
      BY <1>4, <3>1 DEF u, A, B
    <3> QED
      BY <1>2, <1>10, <2>1, <2>2, <3>2, <3>6, <3>7 DEF Framed
  <2>3. CASE \E o \in {"unregistered", "closed"} : conn' = [conn EXCEPT ![c] = o]
    <3>1. conn'[c] \notin {"none", "registered"}
      BY <2>3 DEF StreamInv, StreamTypes
    <3> QED
      BY <2>1, <3>1 DEF Framed
  <2> QED
    BY <1>1, <2>2, <2>3
<1>12. ASSUME NEW d \in Conns, d # c PROVE Framed(d)'
  BY <1>1, <1>6, <1>8, <1>12, FramedAside DEF StreamInv, StreamTypes
<1> QED
  BY <1>3, <1>7, <1>9, <1>11, <1>12 DEF StreamInv

\* The other steps of the thread, and those of the test.
LEMMA StreamRest ==
  ASSUME StreamInv,
         \/ Select \/ HandleWake \/ Start \/ Stop \/ JoinReturns \/ JoinTimesOut
         \/ \E d \in Delimiters : SetDelimiter(d)
         \/ \E c \in Conns : ReceiveEnd(c) \/ ReceiveReset(c)
  PROVE  StreamInv' /\ UNCHANGED <<records, sent, taken, cut>>
<1>1. /\ UNCHANGED <<records, sent, taken, cut, partial>> /\ delimiter' \in Delimiters
      /\ conn' \in [Conns -> {"none", "registered", "unregistered", "closed"}]
      /\ \A c \in Conns : conn'[c] = conn[c] \/ conn'[c] \notin {"none", "registered"}
  <2>1. CASE Select \/ HandleWake \/ Start \/ Stop \/ JoinTimesOut
    BY <2>1 DEF Select, HandleWake, Start, Stop, JoinTimesOut, connVars, clientVars, StreamInv,
                StreamTypes
  <2>2. CASE JoinReturns
    BY <2>2 DEF JoinReturns, clientVars, StreamInv, StreamTypes
  <2>3. CASE \E d \in Delimiters : SetDelimiter(d)
    BY <2>3 DEF SetDelimiter, connVars, clientVars, StreamInv, StreamTypes
  <2>4. CASE \E c \in Conns : ReceiveEnd(c) \/ ReceiveReset(c)
    BY <2>4 DEF ReceiveEnd, ReceiveReset, clientVars, StreamInv, StreamTypes
  <2> QED
    BY <2>1, <2>2, <2>3, <2>4
<1>2. Handled'
  <2>1. CASE Select
    <3>1. ASSUME NEW c \in Conns, c \in Ready PROVE conn[c] = "registered"
      BY <3>1, LogstashAssumption DEF Ready
    <3> QED
      BY <2>1, <3>1 DEF Select, Handled, connVars
  <2>2. CASE HandleWake
    <3>1. batch' = {}
      BY <2>2 DEF HandleWake
    <3> QED
      BY <3>1 DEF Handled
  <2>3. CASE Start
    BY <2>3 DEF Start, Handled, connVars, StreamInv
  <2>4. CASE Stop \/ JoinTimesOut
    BY <2>4 DEF Stop, JoinTimesOut, Handled, connVars, StreamInv
  <2>5. CASE JoinReturns
    BY <2>5 DEF JoinReturns, Handled
  <2>6. CASE \E d \in Delimiters : SetDelimiter(d)
    BY <2>6 DEF SetDelimiter, Handled, connVars, StreamInv
  <2>7. ASSUME NEW c \in Conns, ReceiveEnd(c) \/ ReceiveReset(c) PROVE Handled'
    <3>1. /\ batch' = batch \ {c} /\ conn' = [conn EXCEPT ![c] = "unregistered"]
          /\ thread' \in {thread, "dead"}
      BY <2>7 DEF ReceiveEnd, ReceiveReset
    <3> QED
      BY <3>1, HandledLess DEF StreamInv, StreamTypes
  <2> QED
    BY <2>1, <2>2, <2>3, <2>4, <2>5, <2>6, <2>7
<1> QED
  BY <1>1, <1>2, StreamAside

LEMMA StreamStep ==
  ASSUME StreamInv, OneByte, [Next]_vars
  PROVE  StreamInv' /\ [Promise!Next]_(Promise!vars)
<1> USE DEF Promise!vars
<1>1. ASSUME NEW c \in Conns, Connect(c) \/ Finish(c) \/ Reset(c)
      PROVE  StreamInv' /\ [Promise!Next]_(Promise!vars)
  <2>1. UNCHANGED <<records, sent, taken, cut>>
    BY <1>1 DEF Connect, Finish, Reset, serviceVars, connVars
  <2> QED
    BY <1>1, <2>1, StreamClients
<1>2. ASSUME NEW c \in Conns, Send(c) PROVE StreamInv' /\ [Promise!Next]_(Promise!vars)
  BY <1>2, StreamSend DEF Promise!Next
<1>3. ASSUME NEW c \in Conns, Accept(c) PROVE StreamInv' /\ [Promise!Next]_(Promise!vars)
  BY <1>3, StreamAccept DEF Promise!Next
<1>4. ASSUME NEW c \in Conns, ReceiveLines(c) \/ ReceiveBadLine(c)
      PROVE  StreamInv' /\ [Promise!Next]_(Promise!vars)
  BY <1>4, StreamReceive DEF Promise!Next
<1>5. CASE \/ Select \/ HandleWake \/ Start \/ Stop \/ JoinReturns \/ JoinTimesOut
           \/ \E d \in Delimiters : SetDelimiter(d)
           \/ \E c \in Conns : ReceiveEnd(c) \/ ReceiveReset(c)
  BY <1>5, StreamRest
<1>6. CASE UNCHANGED vars
  <2>1. UNCHANGED <<records, sent, taken, cut, partial, delimiter, conn, thread, batch>>
    BY <1>6 DEF vars, serviceVars, connVars, clientVars
  <2>2. Handled'
    BY <2>1 DEF StreamInv, Handled
  <2> QED
    BY <2>1, <2>2, StreamAside DEF StreamInv, StreamTypes
<1> QED
  BY <1>1, <1>2, <1>3, <1>4, <1>5, <1>6 DEF Next, Background

\* However a stream is broken into reads, and whatever else goes on between them, the records
\* of a connection are the lines of its stream, in order and once each, up to the first that
\* is not a record.
THEOREM RecordsAsPromisedCorrect ==
  ASSUME OneByte
  PROVE  Spec => RecordsAsPromised
<1>1. Init => StreamInv
  BY StreamInit
<1>2. Init => Promise!Init
  BY DEF Init, Promise!Init
<1>3. StreamInv /\ [Next]_vars => StreamInv' /\ [Promise!Next]_(Promise!vars)
  BY StreamStep
<1> QED
  BY <1>1, <1>2, <1>3, PTL DEF Spec, RecordsAsPromised, Promise!Spec
====
