--------------------------- MODULE MatchingProofs ---------------------------
(***************************************************************************)
(* An assertion on a list of recorded requests that grows under it answers *)
(* truly, for every list, every expectation and every number of them.      *)
(* What Matches makes of a request is left open there; it is, as the       *)
(* second part shows, what the expectation says of the raw request.        *)
(***************************************************************************)
EXTENDS Matching, SubsequenceProofs, FunctionTheorems

Records == {FromRequest(q) : q \in Requests}

\* The types of the parts of the state that the assertions read and write.
ReadTypes ==
  /\ recorded \in Seq(Records)
  /\ assertion \in Assertions
  /\ expected \in Seq(Expectations)
  /\ at \in Nat /\ next \in Nat
  /\ held \in BOOLEAN /\ missed \in BOOLEAN

\* The arguments are the assertion's, and it is at one of its steps.
Course ==
  /\ step \in {"idle", "length", "count", "match", "loop"}
  /\ step = "length" => at = 1 /\ next = 1
  /\ step = "count" => assertion \in {"single", "once"}
  /\ step = "match" => assertion \in {"last", "once"}
  /\ step = "loop" => assertion \in {"any", "has"} /\ at >= 1 /\ next \in 1..Len(expected)
  /\ step # "idle" /\ assertion \in OfOne => Len(expected) = 1
  /\ step # "idle" /\ assertion = "has" => Len(expected) >= 1
  /\ step = "loop" /\ assertion = "any" => next = 1

\* The list as it is now was observed.
Observed == step # "idle" => (Holds => held) /\ (~Holds => missed)

\* What the assertion knows of the list at its step.
Known ==
  /\ step \in {"count", "match"} => Len(recorded) >= 1
  /\ step = "match" /\ assertion = "once" =>
       /\ Matches(expected[1], recorded[1]) = "match" => held
       /\ Matches(expected[1], recorded[1]) # "match" => missed
  /\ step = "loop" => at <= Len(recorded) + 1
  /\ step = "loop" /\ assertion = "any" =>
       \A i \in 1..(at - 1) : Matches(expected[1], recorded[i]) # "match"
  /\ step = "loop" /\ assertion = "has" =>
       /\ Embeds(expected, recorded, next - 1, at - 1)
       /\ ~Embeds(expected, recorded, next, at - 1)

Running == step # "idle" => outcome = "none"

TruthInv ==
  ReadTypes /\ Course /\ Observed /\ Known /\ Running /\ AnswersTrue

--------------------------------------------------------------------------------
(* Embeddings. *)

\* There is no room for more expectations than records.
LEMMA NoRoom ==
  ASSUME NEW es, NEW rs, NEW n \in Nat, NEW m \in Nat, m < n
  PROVE  ~Embeds(es, rs, n, m)
<1> SUFFICES ASSUME NEW f \in [1..n -> 1..m],
                    \A i, j \in 1..n : i < j => f[i] < f[j]
             PROVE  FALSE
  BY DEF Embeds
<1>1. /\ IsFiniteSet(1..n) /\ Cardinality(1..n) = n
      /\ IsFiniteSet(1..m) /\ Cardinality(1..m) = m
  BY FS_Interval
<1>2. PICK x, y \in 1..n : x # y /\ f[x] = f[y]
  BY <1>1, FS_PigeonHole
<1>3. x < y \/ y < x
  BY <1>2
<1> QED
  BY <1>2, <1>3

\* No expectation embeds in no record.
LEMMA EmptyEmbeds == \A es, rs : Embeds(es, rs, 0, 0)
<1> DEFINE f == [i \in 1..0 |-> i]
<1>1. f \in [1..0 -> 1..0] /\ 1..0 = {}
  OBVIOUS
<1> QED
  BY <1>1 DEF Embeds

\* A match extends an embedding.
LEMMA Extend ==
  ASSUME NEW es, NEW rs, NEW n \in Nat, NEW m \in Nat, n >= 1, m >= 1,
         Embeds(es, rs, n - 1, m - 1), Matches(es[n], rs[m]) = "match"
  PROVE  Embeds(es, rs, n, m)
<1>1. PICK f \in [1..(n - 1) -> 1..(m - 1)] :
        /\ \A i, j \in 1..(n - 1) : i < j => f[i] < f[j]
        /\ \A i \in 1..(n - 1) : Matches(es[i], rs[f[i]]) = "match"
  BY DEF Embeds
<1> DEFINE g == [i \in 1..n |-> IF i = n THEN m ELSE f[i]]
<1>2. n \in 1..n /\ g[n] = m
  OBVIOUS
<1>3. ASSUME NEW i \in 1..n, i # n
      PROVE  i \in 1..(n - 1) /\ g[i] = f[i] /\ f[i] \in 1..(m - 1)
  <2>1. i \in 1..(n - 1)
    BY <1>3
  <2>2. f[i] \in 1..(m - 1)
    BY <2>1, <1>1
  <2> QED
    BY <1>3, <2>1, <2>2
<1>4. g \in [1..n -> 1..m]
  <2>1. ASSUME NEW i \in 1..n PROVE g[i] \in 1..m
    BY <1>2, <1>3
  <2> QED
    BY <2>1
<1> HIDE DEF g
<1>5. \A i, j \in 1..n : i < j => g[i] < g[j]
  <2> SUFFICES ASSUME NEW i \in 1..n, NEW j \in 1..n, i < j
               PROVE  g[i] < g[j]
    OBVIOUS
  <2>1. i \in 1..(n - 1) /\ g[i] = f[i] /\ f[i] \in 1..(m - 1)
    BY <1>3
  <2>2. CASE j = n
    BY <2>1, <2>2, <1>2
  <2>3. CASE j # n
    <3>1. j \in 1..(n - 1) /\ g[j] = f[j]
      BY <2>3, <1>3
    <3> QED
      BY <1>1, <2>1, <3>1
  <2> QED
    BY <2>2, <2>3
<1>6. \A i \in 1..n : Matches(es[i], rs[g[i]]) = "match"
  BY <1>1, <1>2, <1>3
<1> QED
  BY <1>4, <1>5, <1>6 DEF Embeds

\* The first expectations of an embedding are before the record of the last one.
LEMMA Shrink ==
  ASSUME NEW es, NEW rs, NEW n \in Nat, NEW m \in Nat, m >= 1, Embeds(es, rs, n + 1, m)
  PROVE  Embeds(es, rs, n, m - 1)
<1>1. PICK f \in [1..(n + 1) -> 1..m] :
        /\ \A i, j \in 1..(n + 1) : i < j => f[i] < f[j]
        /\ \A i \in 1..(n + 1) : Matches(es[i], rs[f[i]]) = "match"
  BY DEF Embeds
<1> DEFINE g == [i \in 1..n |-> f[i]]
<1>2. \A i \in 1..n : i \in 1..(n + 1) /\ g[i] = f[i] /\ f[i] < f[n + 1] /\ f[n + 1] \in 1..m
  BY <1>1
<1>3. g \in [1..n -> 1..(m - 1)]
  BY <1>2
<1> HIDE DEF g
<1>4. \A i, j \in 1..n : i < j => g[i] < g[j]
  BY <1>1, <1>2
<1>5. \A i \in 1..n : Matches(es[i], rs[g[i]]) = "match"
  BY <1>1, <1>2
<1> QED
  BY <1>3, <1>4, <1>5 DEF Embeds

\* A mismatch of the next record embeds no more.
LEMMA Skip ==
  ASSUME NEW es, NEW rs, NEW n \in Nat, NEW m \in Nat, n >= 1, m >= 1,
         Embeds(es, rs, n, m), Matches(es[n], rs[m]) # "match"
  PROVE  Embeds(es, rs, n, m - 1)
<1>1. PICK f \in [1..n -> 1..m] :
        /\ \A i, j \in 1..n : i < j => f[i] < f[j]
        /\ \A i \in 1..n : Matches(es[i], rs[f[i]]) = "match"
  BY DEF Embeds
<1>2. \A i \in 1..n : f[i] \in 1..m /\ (i = n \/ f[i] < f[n]) /\ f[n] \in 1..m /\ f[n] # m
  BY <1>1
<1>3. f \in [1..n -> 1..(m - 1)]
  BY <1>2
<1> QED
  BY <1>1, <1>3 DEF Embeds

\* Fewer expectations embed in as many records, and as many in more of them.
LEMMA Fewer ==
  ASSUME NEW es, NEW rs, NEW n \in Nat, NEW m \in Nat, NEW k \in 0..n, NEW l \in Nat,
         m <= l, Embeds(es, rs, n, m)
  PROVE  Embeds(es, rs, k, l)
<1>1. PICK f \in [1..n -> 1..m] :
        /\ \A i, j \in 1..n : i < j => f[i] < f[j]
        /\ \A i \in 1..n : Matches(es[i], rs[f[i]]) = "match"
  BY DEF Embeds
<1> DEFINE g == [i \in 1..k |-> f[i]]
<1>2. \A i \in 1..k : i \in 1..n /\ g[i] = f[i] /\ f[i] \in 1..m
  OBVIOUS
<1>3. g \in [1..k -> 1..l]
  BY <1>2
<1> HIDE DEF g
<1>4. \A i, j \in 1..k : i < j => g[i] < g[j]
  BY <1>1, <1>2
<1>5. \A i \in 1..k : Matches(es[i], rs[g[i]]) = "match"
  BY <1>1, <1>2
<1> QED
  BY <1>3, <1>4, <1>5 DEF Embeds

\* New records change no embedding in those before them.
LEMMA SameEmbeds ==
  ASSUME NEW es, NEW rs, NEW new, NEW n \in Nat, NEW m \in Nat,
         \A i \in 1..m : new[i] = rs[i]
  PROVE  Embeds(es, new, n, m) <=> Embeds(es, rs, n, m)
BY DEF Embeds

--------------------------------------------------------------------------------
(* The invariant. *)

LEMMA TruthInit == Init => TruthInv
<1> SUFFICES ASSUME Init PROVE TruthInv
  OBVIOUS
<1>1. ReadTypes
  <2>1. <<>> \in Seq(Records) /\ <<>> \in Seq(Expectations)
    BY EmptySeq
  <2>2. "any" \in Assertions
    BY DEF Assertions, OfOne
  <2> QED
    BY <2>1, <2>2 DEF Init, ReadTypes
<1>2. Course /\ Known /\ Running /\ AnswersTrue
  BY DEF Init, Course, Known, Running, AnswersTrue
<1>3. Observed
  BY DEF Init, Observed
<1> QED
  BY <1>1, <1>2, <1>3 DEF TruthInv

\* A step of the test thread that reads the list and decides nothing of the rest.
LEMMA Reads ==
  ASSUME TruthInv, step # "idle",
         UNCHANGED <<recorded, assertion, expected, received, held, missed>>,
         at' \in Nat, next' \in Nat
  PROVE  ReadTypes' /\ Observed'
<1>1. ReadTypes'
  BY DEF TruthInv, ReadTypes
<1>2. Holds' <=> Holds
  BY DEF Holds
<1> QED
  BY <1>1, <1>2 DEF TruthInv, Observed

\* An assertion ends as the list was at some moment.
LEMMA Ends ==
  ASSUME TruthInv, step # "idle", NEW how, End(how),
         UNCHANGED <<recorded, assertion, expected, at, next, received, held, missed>>,
         how = "passed" => held, how = "raised" => missed
  PROVE  TruthInv'
<1>1. ReadTypes' /\ Observed'
  BY Reads DEF TruthInv, ReadTypes
<1>2. step' = "idle" /\ outcome' = how
  BY DEF End
<1>3. Course' /\ Known' /\ Running'
  BY <1>2 DEF Course, Known, Running
<1>4. AnswersTrue'
  BY <1>2 DEF AnswersTrue
<1> QED
  BY <1>1, <1>3, <1>4 DEF TruthInv

LEMMA CallStep ==
  ASSUME TruthInv, NEW which, NEW arguments, Call(which, arguments),
         which \in Assertions, arguments \in Seq(Expectations),
         which \in OfOne => Len(arguments) = 1,
         which = "has" => Len(arguments) >= 1
  PROVE  TruthInv'
<1> USE DEF Call
<1>1. ReadTypes'
  <2>1. assertion' \in Assertions
    OBVIOUS
  <2>2. Holds' \in BOOLEAN
    BY <2>1, Zenon DEF Holds, Embeds, Assertions, Counting, OfOne
  <2>3. held' = Holds' /\ missed' = ~Holds'
    OBVIOUS
  <2>4. held' \in BOOLEAN /\ missed' \in BOOLEAN
    BY <2>2, <2>3
  <2> QED
    BY <2>4 DEF TruthInv, ReadTypes
<1>2. Course' /\ Running' /\ AnswersTrue' /\ Known'
  BY DEF Course, Running, AnswersTrue, Known
<1>3. Observed'
  BY DEF Observed
<1> QED
  BY <1>1, <1>2, <1>3 DEF TruthInv

LEMMA CheckLengthStep == TruthInv /\ CheckLength => TruthInv'
<1> SUFFICES ASSUME TruthInv, CheckLength PROVE TruthInv'
  OBVIOUS
<1>0. /\ step = "length" /\ at = 1 /\ next = 1
      /\ Len(recorded) \in Nat /\ Len(expected) \in Nat
      /\ recorded = <<>> <=> Len(recorded) = 0
      /\ UNCHANGED <<recorded, assertion, expected, at, next, received, held, missed>>
  BY DEF TruthInv, ReadTypes, Course, CheckLength
<1>1. (Holds => held) /\ (~Holds => missed)
  BY <1>0 DEF TruthInv, Observed
<1>2. ReadTypes' /\ Observed'
  BY <1>0, Reads DEF TruthInv, ReadTypes
<1>3. CASE assertion = "has"
  <2>1. CASE Len(recorded) < Len(expected)
    <3>1. ~Holds
      BY <1>0, <1>3, <2>1, NoRoom DEF Holds
    <3>2. End("raised")
      BY <1>3, <2>1 DEF CheckLength
    <3> QED
      BY <1>0, <1>1, <3>1, <3>2, Ends
  <2>2. CASE ~(Len(recorded) < Len(expected))
    <3>1. step' = "loop" /\ outcome' = outcome
      BY <1>3, <2>2 DEF CheckLength, Goto
    <3>2. Course'
      BY <1>0, <1>3, <3>1 DEF TruthInv, Course, OfOne
    <3>3. Embeds(expected, recorded, 0, 0)
      BY EmptyEmbeds
    <3>4. ~Embeds(expected, recorded, 1, 0)
      BY NoRoom
    <3>5. Known'
      BY <1>0, <1>3, <3>1, <3>3, <3>4 DEF Known
    <3>6. Running' /\ AnswersTrue'
      BY <1>0, <3>1 DEF TruthInv, Running, AnswersTrue
    <3> QED
      BY <1>2, <3>2, <3>5, <3>6 DEF TruthInv
  <2> QED
    BY <2>1, <2>2
<1>4. CASE assertion = "not"
  <2>1. PICK how \in {"passed", "raised"} : End(how) /\ (how = "passed" <=> recorded = <<>>)
    BY <1>4 DEF CheckLength
  <2>2. Holds <=> recorded = <<>>
    BY <1>4 DEF Holds
  <2> QED
    BY <1>0, <1>1, <2>1, <2>2, Ends
<1>5. CASE assertion \notin {"has", "not"} /\ recorded = <<>>
  <2>1. End("raised")
    BY <1>5 DEF CheckLength
  <2>2. ~Holds
    <3>1. assertion \in {"some", "single", "last", "once", "any"}
      BY <1>5 DEF TruthInv, ReadTypes, Assertions, Counting, OfOne
    <3>2. CASE assertion \in {"some", "last"}
      BY <1>5, <3>2 DEF Holds
    <3>3. CASE assertion \in {"single", "once"}
      <4>1. ~(Len(recorded) = 1)
        BY <1>0, <1>5
      <4>2. CASE assertion = "single"
        BY <4>1, <4>2, Zenon DEF Holds
      <4>3. CASE assertion = "once"
        BY <4>1, <4>3, Zenon DEF Holds
      <4> QED
        BY <3>3, <4>2, <4>3
    <3>4. CASE assertion = "any"
      <4>1. 1..Len(recorded) = {}
        BY <1>0, <1>5
      <4> QED
        BY <4>1, <3>4 DEF Holds
    <3> QED
      BY <3>1, <3>2, <3>3, <3>4
  <2> QED
    BY <1>0, <1>1, <2>1, <2>2, Ends
<1>6. CASE assertion = "some" /\ recorded # <<>>
  <2>1. End("passed")
    BY <1>6 DEF CheckLength
  <2>2. Holds
    BY <1>6 DEF Holds
  <2> QED
    BY <1>0, <1>1, <2>1, <2>2, Ends
<1>7. CASE assertion \in {"single", "once", "last", "any"} /\ recorded # <<>>
  <2>1. /\ step' = (CASE assertion \in {"single", "once"} -> "count"
                     [] assertion = "last" -> "match" [] assertion = "any" -> "loop")
        /\ outcome' = outcome
    BY <1>7 DEF CheckLength, Goto
  <2>2. Course'
    BY <1>0, <1>7, <2>1 DEF TruthInv, Course, OfOne
  <2>3. Known'
    BY <1>0, <1>7, <2>1 DEF Known
  <2>4. Running' /\ AnswersTrue'
    BY <1>0, <2>1 DEF TruthInv, Running, AnswersTrue
  <2> QED
    BY <1>2, <2>2, <2>3, <2>4 DEF TruthInv
<1> QED
  BY <1>3, <1>4, <1>5, <1>6, <1>7 DEF TruthInv, ReadTypes, Assertions, Counting, OfOne

LEMMA CheckOnceStep == TruthInv /\ CheckOnce => TruthInv'
<1> SUFFICES ASSUME TruthInv, CheckOnce PROVE TruthInv'
  OBVIOUS
<1>0. /\ step = "count" /\ at \in Nat /\ next \in Nat
      /\ assertion \in {"single", "once"}
      /\ Len(recorded) \in Nat /\ Len(recorded) >= 1
      /\ UNCHANGED <<recorded, assertion, expected, at, next, received, held, missed>>
  BY DEF TruthInv, ReadTypes, Course, Known, CheckOnce
<1>1. Len(recorded) > 1 \/ Len(recorded) = 1
  <2>1. Len(recorded) \in Nat /\ Len(recorded) >= 1
    BY <1>0
  <2>2. \A n \in Nat : n >= 1 => n > 1 \/ n = 1
    OBVIOUS
  <2> QED
    BY <2>1, <2>2
<1>2. (Holds => held) /\ (~Holds => missed)
  BY <1>0 DEF TruthInv, Observed
<1>3. CASE Len(recorded) > 1
  <2>1. End("raised")
    BY <1>3 DEF CheckOnce
  <2>2. ~(Len(recorded) = 1)
    BY <1>0, <1>3
  <2>3. ~Holds
    BY <1>0, <2>2 DEF Holds
  <2> QED
    BY <1>0, <1>2, <2>1, <2>3, Ends
<1>4. CASE Len(recorded) = 1 /\ assertion = "single"
  <2>1. End("passed")
    BY <1>4 DEF CheckOnce
  <2>2. Holds
    BY <1>4, Zenon DEF Holds
  <2> QED
    BY <1>0, <1>2, <2>1, <2>2, Ends
<1>5. CASE Len(recorded) = 1 /\ assertion = "once"
  <2>1. step' = "match" /\ outcome' = outcome
    BY <1>5 DEF CheckOnce, Goto
  <2>2. Holds <=> Matches(expected[1], recorded[1]) = "match"
    BY <1>5, Zenon DEF Holds
  <2>3. ReadTypes' /\ Observed'
    BY <1>0, Reads
  <2>4. Course'
    BY <1>0, <1>5, <2>1 DEF TruthInv, Course, OfOne
  <2>5. Known'
    BY <1>0, <1>2, <1>5, <2>1, <2>2 DEF Known
  <2>6. Running' /\ AnswersTrue'
    BY <1>0, <2>1 DEF TruthInv, Running, AnswersTrue
  <2> QED
    BY <2>3, <2>4, <2>5, <2>6 DEF TruthInv
<1> QED
  BY <1>0, <1>3, <1>4, <1>5, <1>1

LEMMA MatchOneStep == TruthInv /\ MatchOne => TruthInv'
<1> SUFFICES ASSUME TruthInv, MatchOne PROVE TruthInv'
  OBVIOUS
<1>0. /\ step = "match" /\ assertion \in {"last", "once"}
      /\ Len(recorded) \in Nat /\ Len(recorded) >= 1
      /\ UNCHANGED <<recorded, assertion, expected, at, next, received, held, missed>>
  BY DEF TruthInv, ReadTypes, Course, Known, MatchOne
<1> DEFINE match == Matches(expected[1], recorded[IF assertion = "last" THEN Len(recorded) ELSE 1])
<1>1. (match = "match" => held) /\ (match # "match" => missed)
  <2>1. CASE assertion = "last"
    <3>1. Holds <=> match = "match"
      BY <1>0, <2>1 DEF Holds
    <3> QED
      BY <1>0, <3>1 DEF TruthInv, Observed
  <2>2. CASE assertion = "once"
    BY <1>0, <2>2 DEF TruthInv, Known
  <2> QED
    BY <1>0, <2>1, <2>2
<1>2. Answer(match)
  BY DEF MatchOne
<1> HIDE DEF match
<1>3. PICK how \in {"passed", "raised", "error"} :
        End(how) /\ (how = "passed" => match = "match") /\ (how = "raised" => match = "mismatch")
  <2>1. CASE match = "match"
    BY <1>2, <2>1 DEF Answer
  <2>2. CASE match = "mismatch"
    BY <1>2, <2>2 DEF Answer
  <2>3. CASE match \notin {"match", "mismatch"}
    BY <1>2, <2>3 DEF Answer
  <2> QED
    BY <2>1, <2>2, <2>3
<1> QED
  BY <1>0, <1>1, <1>3, Ends

LEMMA RunOutStep == TruthInv /\ RunOut => TruthInv'
<1> SUFFICES ASSUME TruthInv, RunOut PROVE TruthInv'
  OBVIOUS
<1>0. /\ step = "loop" /\ assertion \in {"any", "has"} /\ End("raised")
      /\ Len(recorded) \in Nat /\ at = Len(recorded) + 1
      /\ Len(expected) \in Nat /\ next \in 1..Len(expected)
      /\ UNCHANGED <<recorded, assertion, expected, at, next, received, held, missed>>
  BY DEF TruthInv, ReadTypes, Course, Known, RunOut
<1>1. ~Holds
  <2>1. CASE assertion = "any"
    BY <1>0, <2>1 DEF TruthInv, Known, Holds
  <2>2. CASE assertion = "has"
    <3>1. ~Embeds(expected, recorded, next, Len(recorded))
      BY <1>0, <2>2 DEF TruthInv, Known
    <3>2. ~Embeds(expected, recorded, Len(expected), Len(recorded))
      BY <1>0, <3>1, Fewer
    <3> QED
      BY <2>2, <3>2 DEF Holds
  <2> QED
    BY <1>0, <2>1, <2>2
<1> QED
  BY <1>0, <1>1, Ends DEF TruthInv, Observed

LEMMA LookAtStep == TruthInv /\ LookAt => TruthInv'
<1> SUFFICES ASSUME TruthInv, LookAt PROVE TruthInv'
  OBVIOUS
<1>0. /\ step = "loop" /\ assertion \in {"any", "has"}
      /\ assertion = "any" => next = 1 /\ Len(expected) = 1
      /\ Len(recorded) \in Nat /\ at \in 1..Len(recorded)
      /\ Len(expected) \in Nat /\ next \in 1..Len(expected)
      /\ UNCHANGED <<recorded, assertion, expected, received, held, missed>>
  BY DEF TruthInv, ReadTypes, Course, Known, LookAt, OfOne
<1>1. /\ assertion = "any" => \A i \in 1..(at - 1) : Matches(expected[1], recorded[i]) # "match"
      /\ assertion = "has" => /\ Embeds(expected, recorded, next - 1, at - 1)
                              /\ ~Embeds(expected, recorded, next, at - 1)
  BY <1>0 DEF TruthInv, Known
<1>2. (Holds => held) /\ (~Holds => missed)
  BY <1>0 DEF TruthInv, Observed
<1>3. ReadTypes' /\ Observed'
  <2>1. at' \in {at, at + 1} /\ next' \in {next, next + 1}
    BY DEF LookAt
  <2>2. at' \in Nat /\ next' \in Nat
    BY <1>0, <2>1
  <2> QED
    BY <1>0, <2>2, Reads
<1> DEFINE match == Matches(expected[next], recorded[at])
<1>4. ASSUME match = "match", assertion = "has"
      PROVE  Embeds(expected, recorded, next, at)
  <2>1. next \in Nat /\ at \in Nat /\ next >= 1 /\ at >= 1
    BY <1>0
  <2>2. Embeds(expected, recorded, next - 1, at - 1)
    BY <1>1, <1>4
  <2>3. Matches(expected[next], recorded[at]) = "match"
    BY <1>4
  <2> QED
    BY <2>1, <2>2, <2>3, Extend
<1>5. CASE match = "match" /\ next = Len(expected) /\ End("passed") /\ UNCHANGED <<at, next>>
  <2>1. CASE assertion = "any"
    <3>1. Holds
      BY <1>0, <1>5, <2>1 DEF Holds
    <3> QED
      BY <1>0, <1>2, <1>5, <3>1, Ends
  <2>2. CASE assertion = "has"
    <3>1. Embeds(expected, recorded, next, at)
      BY <1>5, <2>2, <1>4
    <3>2. Embeds(expected, recorded, Len(expected), Len(recorded))
      BY <1>0, <1>5, <3>1, Fewer
    <3>3. Holds
      BY <2>2, <3>2 DEF Holds
    <3> QED
      BY <1>0, <1>2, <1>5, <3>3, Ends
  <2> QED
    BY <1>0, <2>1, <2>2
<1>6. CASE /\ match = "match" /\ next < Len(expected)
           /\ next' = next + 1 /\ at' = at + 1 /\ Goto("loop")
  <2>1. step' = "loop" /\ outcome' = outcome /\ assertion = "has"
    <3>1. next < Len(expected) /\ ~(1 < 1)
      BY <1>6
    <3>2. assertion # "any"
      BY <1>0, <3>1, Zenon
    <3> QED
      BY <1>0, <1>6, <3>2 DEF Goto
  <2>2. Embeds(expected, recorded, next, at)
    BY <1>6, <2>1, <1>4
  <2>3. ~Embeds(expected, recorded, next + 1, at)
    BY <1>0, <1>1, <2>1, Shrink
  <2>4. Course'
    BY <1>0, <1>6, <2>1 DEF TruthInv, Course, OfOne
  <2>5. Known'
    <3>1. next' - 1 = next /\ at' - 1 = at /\ at' <= Len(recorded') + 1
      BY <1>0, <1>6
    <3> QED
      BY <1>0, <1>6, <2>1, <2>2, <2>3, <3>1 DEF Known
  <2>6. Running' /\ AnswersTrue'
    BY <1>0, <2>1 DEF TruthInv, Running, AnswersTrue
  <2> QED
    BY <1>3, <2>4, <2>5, <2>6 DEF TruthInv
<1>7. CASE match = "mismatch" /\ at' = at + 1 /\ Goto("loop") /\ UNCHANGED next
  <2>1. step' = "loop" /\ outcome' = outcome
    BY <1>7 DEF Goto
  <2>2. Course'
    BY <1>0, <1>7, <2>1 DEF TruthInv, Course, OfOne
  <2>3. at' - 1 = at /\ at' <= Len(recorded') + 1
    BY <1>0, <1>7
  <2>4. assertion = "any" => \A i \in 1..at : Matches(expected[1], recorded[i]) # "match"
    BY <1>0, <1>1, <1>7
  <2>5. ASSUME assertion = "has"
        PROVE  /\ Embeds(expected, recorded, next - 1, at)
               /\ ~Embeds(expected, recorded, next, at)
    <3>1. Embeds(expected, recorded, next - 1, at)
      BY <1>0, <1>1, <2>5, Fewer
    <3>2. ~Embeds(expected, recorded, next, at)
      BY <1>0, <1>1, <1>7, <2>5, Skip
    <3> QED
      BY <3>1, <3>2
  <2>6. Known'
    BY <1>0, <1>7, <2>1, <2>3, <2>4, <2>5 DEF Known
  <2>7. Running' /\ AnswersTrue'
    BY <1>0, <2>1 DEF TruthInv, Running, AnswersTrue
  <2> QED
    BY <1>3, <2>2, <2>6, <2>7 DEF TruthInv
<1>8. CASE match = "error" /\ End("error") /\ UNCHANGED <<at, next>>
  BY <1>0, <1>8, Ends
<1> QED
  BY <1>5, <1>6, <1>7, <1>8 DEF LookAt

\* What is recorded in the meantime takes nothing from what the assertion knows.
LEMMA RecordStep == ASSUME TruthInv, NEW q \in Requests, Record(q) PROVE TruthInv'
<1>0. /\ UNCHANGED <<assertion, expected, step, at, next, outcome>>
      /\ Len(recorded) \in Nat /\ Len(recorded') = Len(recorded) + 1
      /\ recorded' \in Seq(Records) /\ at \in Nat /\ next \in Nat
      /\ \A i \in 1..Len(recorded) : recorded'[i] = recorded[i]
  <2>1. FromRequest(q) \in Records
    BY DEF Records
  <2> QED
    BY <2>1, AppendProperties DEF TruthInv, ReadTypes, Record, callVars
<1>1. /\ held' = (held \/ (step # "idle" /\ Holds'))
      /\ missed' = (missed \/ (step # "idle" /\ ~Holds'))
  BY DEF Record, Observe
<1>2. ReadTypes'
  BY <1>0, <1>1 DEF TruthInv, ReadTypes
<1>3. Observed' /\ (held => held') /\ (missed => missed')
  BY <1>0, <1>1 DEF Observed
<1>4. Course' /\ Running'
  BY <1>0 DEF TruthInv, Course, Running
<1>5. AnswersTrue'
  BY <1>0, <1>3 DEF TruthInv, AnswersTrue
<1>6. Known'
  <2>1. CASE step \in {"idle", "length"}
    BY <1>0, <2>1 DEF Known
  <2>2. CASE step \in {"count", "match"}
    <3>1. Len(recorded) >= 1 /\ Len(recorded') >= 1 /\ recorded'[1] = recorded[1]
      BY <1>0, <2>2 DEF TruthInv, Known
    <3> QED
      BY <1>0, <1>3, <2>2, <3>1 DEF TruthInv, Known
  <2>3. CASE step = "loop"
    <3>1. /\ at - 1 \in Nat /\ at - 1 <= Len(recorded) /\ next - 1 \in Nat
          /\ at <= Len(recorded') + 1
      BY <1>0, <2>3 DEF TruthInv, Known, Course, ReadTypes
    <3>2. \A i \in 1..(at - 1) : recorded'[i] = recorded[i]
      BY <1>0, <3>1
    <3>3. /\ Embeds(expected, recorded', next - 1, at - 1)
               <=> Embeds(expected, recorded, next - 1, at - 1)
          /\ Embeds(expected, recorded', next, at - 1)
               <=> Embeds(expected, recorded, next, at - 1)
      BY <1>0, <3>1, <3>2, SameEmbeds
    <3> QED
      BY <1>0, <2>3, <3>1, <3>2, <3>3 DEF TruthInv, Known
  <2> QED
    BY <2>1, <2>2, <2>3 DEF TruthInv, Course
<1> QED
  BY <1>2, <1>3, <1>4, <1>5, <1>6 DEF TruthInv

LEMMA TruthStep == TruthInv /\ [Next]_vars => TruthInv'
<1> SUFFICES ASSUME TruthInv, [Next]_vars PROVE TruthInv'
  OBVIOUS
<1>1. ASSUME NEW q \in Requests, Record(q) PROVE TruthInv'
  BY <1>1, RecordStep
<1>2. ASSUME NEW which \in Counting, Call(which, <<>>) PROVE TruthInv'
  <2>1. <<>> \in Seq(Expectations)
    BY EmptySeq
  <2>2. which \in Assertions /\ which \notin OfOne /\ which # "has"
    BY DEF Assertions, Counting, OfOne
  <2> QED
    BY <1>2, <2>1, <2>2, CallStep
<1>3. ASSUME NEW which \in OfOne, NEW e \in Expectations, Call(which, <<e>>) PROVE TruthInv'
  <2>1. <<e>> \in Seq(Expectations) /\ Len(<<e>>) = 1
    OBVIOUS
  <2>2. which \in Assertions /\ which # "has"
    BY DEF Assertions, OfOne
  <2> QED
    BY <1>3, <2>1, <2>2, CallStep
<1>4. ASSUME NEW n \in 1..MaxExpected, NEW es \in [1..n -> Expectations], Call("has", es)
      PROVE  TruthInv'
  <2>1. n \in Nat /\ n >= 1
    BY MatchingAssumption
  <2>2. es \in Seq(Expectations) /\ Len(es) >= 1
    BY <2>1
  <2>3. "has" \in Assertions /\ "has" \notin OfOne
    BY DEF Assertions, OfOne
  <2> QED
    BY <1>4, <2>2, <2>3, CallStep
<1>5. CASE CheckLength
  BY <1>5, CheckLengthStep
<1>6. CASE CheckOnce
  BY <1>6, CheckOnceStep
<1>7. CASE MatchOne
  BY <1>7, MatchOneStep
<1>8. CASE LookAt
  BY <1>8, LookAtStep
<1>9. CASE RunOut
  BY <1>9, RunOutStep
<1>10. CASE UNCHANGED vars
  <2>1. UNCHANGED <<recorded, assertion, expected, step, at, next, outcome, held, missed>>
    BY <1>10 DEF vars, callVars
  <2>2. Holds' <=> Holds
    BY <2>1 DEF Holds
  <2>3. ReadTypes' /\ Course' /\ Running' /\ AnswersTrue'
    BY <2>1 DEF TruthInv, ReadTypes, Course, Running, AnswersTrue
  <2>4. Observed'
    BY <2>1, <2>2 DEF TruthInv, Observed
  <2>5. Known'
    BY <2>1 DEF TruthInv, Known
  <2> QED
    BY <2>3, <2>4, <2>5 DEF TruthInv
<1> QED
  BY <1>1, <1>2, <1>3, <1>4, <1>5, <1>6, <1>7, <1>8, <1>9, <1>10 DEF Next

\* An assertion that passes was true at some moment of the call, and one that raises
\* AssertionError was false at some moment of it (http_request_capture.py:294-485),
\* whatever the requests and the expectations are.
THEOREM AnswersAreTrue == Spec => []AnswersTrue
<1>1. TruthInv => AnswersTrue
  BY DEF TruthInv
<1> QED
  BY <1>1, TruthInit, TruthStep, PTL DEF Spec
--------------------------------------------------------------------------------
(* Pairs grouped under their names. *)

\* A finite set has an injection into one that is no smaller.
LEMMA InjectionByCount ==
  ASSUME NEW S, NEW T, IsFiniteSet(S), IsFiniteSet(T), Cardinality(S) <= Cardinality(T)
  PROVE  \E f : f \in Injection(S, T)
<1> DEFINE n == Cardinality(S)
           m == Cardinality(T)
<1>1. n \in Nat /\ m \in Nat
  BY FS_CardinalityType
<1>2. \A k \in Nat : IsFiniteSet(1..k) /\ Cardinality(1..k) = k
  BY FS_Interval
<1>3. ExistsBijection(S, 1..n) /\ ExistsBijection(1..m, T)
  BY <1>1, <1>2, FS_SameCardinalityBij
<1>4. ExistsInjection(1..n, 1..m)
  BY <1>1, Fun_NatInjLeq
<1>5. ExistsInjection(S, 1..n) /\ ExistsInjection(1..m, T)
  BY <1>3 DEF ExistsBijection, ExistsInjection, Bijection
<1> HIDE DEF n, m
<1>6. ExistsInjection(S, 1..m)
  BY <1>4, <1>5, Fun_ExistsInjTransitive
<1>7. ExistsInjection(S, T)
  BY <1>5, <1>6, Fun_ExistsInjTransitive
<1> QED
  BY <1>7 DEF ExistsInjection

PairsOf(N, V) == Seq(N \X V)

\* The pairs of a name are finitely many indices.
LEMMA NamedType ==
  ASSUME NEW X, NEW pairs \in Seq(X), NEW h
  PROVE  /\ IsFiniteSet(Named(pairs, h)) /\ Named(pairs, h) \subseteq Nat
         /\ Named(pairs, h) \subseteq DOMAIN pairs
<1>1. Len(pairs) \in Nat /\ DOMAIN pairs = 1..Len(pairs)
  BY LenProperties
<1>2. IsFiniteSet(1..Len(pairs))
  BY <1>1, FS_Interval
<1>3. Named(pairs, h) \subseteq 1..Len(pairs)
  BY <1>1 DEF Named
<1> QED
  BY <1>1, <1>2, <1>3, FS_Subset

\* The pairs of a name and a value.
Bearing(pairs, h, v) == {j \in Named(pairs, h) : pairs[j][2] = v}

\* The values under a name are those of its pairs, and nothing else.
LEMMA GroupedAt ==
  ASSUME NEW N, NEW V, NEW pairs \in PairsOf(N, V), NEW h \in NamesIn(pairs)
  PROVE  /\ Grouped(pairs)[h] \in Seq(V)
         /\ Len(Grouped(pairs)[h]) = Cardinality(Named(pairs, h))
         /\ \A j \in Named(pairs, h) :
              /\ Rank(Named(pairs, h), j) \in 1..Cardinality(Named(pairs, h))
              /\ Grouped(pairs)[h][Rank(Named(pairs, h), j)] = pairs[j][2]
         /\ \A v : Count(Grouped(pairs)[h], v) = Cardinality(Bearing(pairs, h, v))
<1> DEFINE I == Named(pairs, h)
           s == [i \in DOMAIN pairs |-> pairs[i][2]]
           a == Among(s, I)
<1>1. Grouped(pairs)[h] = a
  BY DEF Grouped
<1>2. IsFiniteSet(I) /\ I \subseteq Nat /\ I \subseteq DOMAIN pairs
  <2>1. pairs \in Seq(N \X V)
    BY DEF PairsOf
  <2> QED
    BY <2>1, NamedType
<1>3. \A i \in I : s[i] = pairs[i][2] /\ s[i] \in V
  <2>1. \A i \in DOMAIN pairs : pairs[i] \in N \X V
    BY ElementOfSeq, LenProperties DEF PairsOf
  <2> QED
    BY <1>2, <2>1
<1> HIDE DEF s, I
<1>4. a \in Seq(V) /\ Len(a) = Cardinality(I)
  BY <1>2, <1>3, AmongType
<1>5. ASSUME NEW j \in I PROVE Rank(I, j) \in 1..Cardinality(I) /\ a[Rank(I, j)] = pairs[j][2]
  <2>1. Rank(I, j) \in 1..Cardinality(I)
    BY <1>2, RankType
  <2>2. a[Rank(I, j)] = s[j]
    BY <1>2, AmongAt
  <2> QED
    BY <1>3, <2>1, <2>2
<1>6. ASSUME NEW v PROVE Count(a, v) = Cardinality(Bearing(pairs, h, v))
  <2>1. Cardinality(Places(a, DOMAIN a, v)) = Cardinality(Places(s, I, v))
    BY <1>2, AmongCount
  <2>2. Places(s, I, v) = Bearing(pairs, h, v)
    BY <1>3 DEF Places, Bearing, I
  <2>3. Places(a, DOMAIN a, v) = {i \in DOMAIN a : a[i] = v}
    BY DEF Places
  <2> HIDE DEF a
  <2> QED
    BY <2>1, <2>2, <2>3 DEF Count
<1> QED
  BY <1>1, <1>4, <1>5, <1>6 DEF I

\* The values of each name are those of d, in this order, if and only if the pairs are d's.
LEMMA ExactlyIs ==
  ASSUME NEW N, NEW V, NEW pairs \in PairsOf(N, V), NEW d, d \in [DOMAIN d -> Seq(V)]
  PROVE  d = Grouped(pairs) <=> Exactly(d, pairs)
<1> DEFINE I(h) == Named(pairs, h)
<1>1. DOMAIN Grouped(pairs) = NamesIn(pairs)
  BY DEF Grouped
<1>2. \A h : IsFiniteSet(I(h)) /\ I(h) \subseteq Nat /\ I(h) \subseteq DOMAIN pairs
  <2>1. pairs \in Seq(N \X V)
    BY DEF PairsOf
  <2> QED
    BY <2>1, NamedType
<1>3. \A j \in DOMAIN pairs : pairs[j][1] \in NamesIn(pairs) /\ j \in I(pairs[j][1])
  BY DEF NamesIn, Named
<1>4. \A h, j : j \in I(h) => j \in DOMAIN pairs /\ pairs[j][1] = h
  BY DEF Named
<1>5. \A j \in DOMAIN pairs : j \in Nat
  BY LenProperties DEF PairsOf
<1>6. ASSUME d = Grouped(pairs) PROVE Exactly(d, pairs)
  <2> DEFINE g == [j \in DOMAIN pairs |-> Rank(I(pairs[j][1]), j)]
  <2>1. ASSUME NEW h \in DOMAIN d
        PROVE  /\ DOMAIN d[h] = 1..Cardinality(I(h))
               /\ \A j \in I(h) : g[j] \in DOMAIN d[h] /\ d[h][g[j]] = pairs[j][2]
               /\ \A i \in DOMAIN d[h] : \E j \in I(h) : g[j] = i
               /\ \A j, k \in I(h) : j < k => g[j] < g[k]
    <3>1. /\ d[h] \in Seq(V) /\ Len(d[h]) = Cardinality(I(h))
          /\ \A j \in I(h) : /\ Rank(I(h), j) \in 1..Cardinality(I(h))
                             /\ d[h][Rank(I(h), j)] = pairs[j][2]
      <4>1. pairs \in PairsOf(N, V) /\ h \in NamesIn(pairs)
        BY <1>1, <1>6
      <4> QED
        BY <4>1, <1>6, GroupedAt
    <3>2. DOMAIN d[h] = 1..Cardinality(I(h))
      BY <3>1, LenProperties
    <3>3. \A j \in I(h) : g[j] = Rank(I(h), j)
      BY <1>4
    <3>4. \A i \in 1..Cardinality(I(h)) : \E j \in I(h) : Rank(I(h), j) = i
      BY <1>2, RankOnto
    <3>5. \A j, k \in I(h) : j < k => Rank(I(h), j) < Rank(I(h), k)
      BY <1>2, RankMonotonic
    <3> HIDE DEF I, g
    <3> QED
      BY <3>1, <3>2, <3>3, <3>4, <3>5
  <2>2. \A j \in DOMAIN pairs : pairs[j][1] \in DOMAIN d
    BY <1>1, <1>3, <1>6
  <2>3. DOMAIN g = DOMAIN pairs
    OBVIOUS
  <2> HIDE DEF g, I
  <2>4. \A j \in DOMAIN pairs : g[j] \in DOMAIN d[pairs[j][1]] /\ pairs[j][2] = d[pairs[j][1]][g[j]]
    BY <1>3, <2>1, <2>2
  <2>5. g \in [DOMAIN pairs -> UNION {DOMAIN d[h] : h \in DOMAIN d}]
    <3>1. g = [j \in DOMAIN pairs |-> g[j]]
      BY DEF g
    <3> QED
      BY <2>2, <2>4, <3>1
  <2>6. \A h \in DOMAIN d : \A i \in DOMAIN d[h] : \E j \in I(h) : g[j] = i
    BY <2>1
  <2>7. \A j, k \in DOMAIN pairs : j < k /\ pairs[j][1] = pairs[k][1] => g[j] < g[k]
    <3> SUFFICES ASSUME NEW j \in DOMAIN pairs, NEW k \in DOMAIN pairs, j < k,
                        pairs[j][1] = pairs[k][1]
                 PROVE  g[j] < g[k]
      OBVIOUS
    <3>1. j \in I(pairs[k][1]) /\ k \in I(pairs[k][1]) /\ pairs[k][1] \in DOMAIN d
      BY <1>3, <2>2
    <3> QED
      BY <2>1, <3>1
  <2>8. DOMAIN d = NamesIn(pairs)
    BY <1>1, <1>6
  <2> QED
    BY <2>4, <2>5, <2>6, <2>7, <2>8 DEF Exactly, I
<1>7. ASSUME Exactly(d, pairs) PROVE d = Grouped(pairs)
  <2>1. PICK g \in [DOMAIN pairs -> UNION {DOMAIN d[h] : h \in DOMAIN d}] :
          /\ \A j \in DOMAIN pairs :
               g[j] \in DOMAIN d[pairs[j][1]] /\ pairs[j][2] = d[pairs[j][1]][g[j]]
          /\ \A h \in DOMAIN d : \A i \in DOMAIN d[h] : \E j \in I(h) : g[j] = i
          /\ \A j, k \in DOMAIN pairs : j < k /\ pairs[j][1] = pairs[k][1] => g[j] < g[k]
    BY <1>7 DEF Exactly
  <2>2. DOMAIN d = NamesIn(pairs)
    BY <1>7 DEF Exactly
  <2> HIDE DEF I
  <2>3. ASSUME NEW h \in DOMAIN d PROVE d[h] = Grouped(pairs)[h]
    <3> DEFINE m == Len(d[h])
               f == [j \in I(h) |-> g[j]]
               a == Grouped(pairs)[h]
    <3>1. d[h] \in Seq(V) /\ m \in Nat /\ DOMAIN d[h] = 1..m
      BY LenProperties
    <3>2. ASSUME NEW j \in I(h) PROVE f[j] \in 1..m /\ pairs[j][2] = d[h][f[j]]
      <4>1. j \in DOMAIN pairs /\ pairs[j][1] = h
        BY <1>4
      <4>2. g[j] \in DOMAIN d[h] /\ pairs[j][2] = d[h][g[j]]
        BY <2>1, <4>1
      <4> QED
        BY <3>1, <4>2
    <3>3. \A k \in 1..m : \E j \in I(h) : f[j] = k
      BY <2>1, <3>1
    <3>4. \A j, k \in I(h) : j < k => f[j] < f[k]
      <4> SUFFICES ASSUME NEW j \in I(h), NEW k \in I(h), j < k PROVE g[j] < g[k]
        OBVIOUS
      <4>1. j \in DOMAIN pairs /\ k \in DOMAIN pairs /\ pairs[j][1] = pairs[k][1]
        BY <1>4
      <4> QED
        BY <2>1, <4>1
    <3> HIDE DEF m
    <3>5. f \in [I(h) -> 1..m]
      BY <3>2
    <3> HIDE DEF f
    <3>6. IsFiniteSet(I(h)) /\ I(h) \subseteq Nat
      BY <1>2
    <3>7. Cardinality(I(h)) = m
      BY <3>1, <3>3, <3>4, <3>5, <3>6, RankUnique
    <3>8. \A j \in I(h) : Rank(I(h), j) = f[j]
      BY <3>1, <3>3, <3>4, <3>5, <3>6, RankUnique
    <3>9. /\ a \in Seq(V) /\ Len(a) = Cardinality(I(h))
          /\ \A j \in I(h) : a[Rank(I(h), j)] = pairs[j][2]
      <4>1. pairs \in PairsOf(N, V) /\ h \in NamesIn(pairs)
        BY <2>2
      <4> QED
        BY <4>1, GroupedAt DEF I
    <3> HIDE DEF a
    <3>10. ASSUME NEW k \in 1..m PROVE a[k] = d[h][k]
      <4>1. PICK j \in I(h) : f[j] = k
        BY <3>3
      <4>2. Rank(I(h), j) = k /\ pairs[j][2] = d[h][k]
        BY <3>2, <3>8, <4>1
      <4> QED
        BY <3>9, <4>2
    <3>11. a = d[h]
      BY <3>1, <3>7, <3>9, <3>10, SeqEqual DEF m
    <3> QED
      BY <3>11 DEF a
  <2>4. d = [h \in DOMAIN d |-> d[h]] /\ Grouped(pairs) = [h \in NamesIn(pairs) |-> Grouped(pairs)[h]]
    BY DEF Grouped
  <2> QED
    BY <2>2, <2>3, <2>4
<1> QED
  BY <1>6, <1>7

Enough(sub, pairs, h) == \A v \in Range(sub) : Count(sub, v) <= Cardinality(Bearing(pairs, h, v))
Found(sub, pairs, h) ==
  \E g \in Injection(DOMAIN sub, DOMAIN pairs) : \A i \in DOMAIN sub : pairs[g[i]] = <<h, sub[i]>>

\* Pairs can be found for the values of a name, one for each, if and only if none is counted
\* more often than it is among the pairs.
LEMMA FoundIs ==
  ASSUME NEW N, NEW V, NEW pairs \in PairsOf(N, V), NEW h, NEW sub \in Seq(V)
  PROVE  Enough(sub, pairs, h) <=> Found(sub, pairs, h)
<1> DEFINE D == DOMAIN sub
           S(v) == {i \in D : sub[i] = v}
           T(v) == Bearing(pairs, h, v)
<1>1. \A v : IsFiniteSet(S(v)) /\ IsFiniteSet(T(v)) /\ T(v) \subseteq DOMAIN pairs
  <2>1. pairs \in Seq(N \X V)
    BY DEF PairsOf
  <2>2. IsFiniteSet(Named(pairs, h)) /\ Named(pairs, h) \subseteq DOMAIN pairs
    BY <2>1, NamedType
  <2>3. \A v : T(v) \subseteq Named(pairs, h)
    BY DEF Bearing
  <2>4. Len(sub) \in Nat /\ D = 1..Len(sub)
    BY LenProperties
  <2>5. IsFiniteSet(D)
    BY <2>4, FS_Interval
  <2>6. \A v : S(v) \subseteq D
    OBVIOUS
  <2> HIDE DEF S, T, D
  <2> QED
    BY <2>2, <2>3, <2>5, <2>6, FS_Subset
<1>2. \A v : Count(sub, v) = Cardinality(S(v))
  BY DEF Count
<1>3. \A v, j : j \in T(v) <=> j \in DOMAIN pairs /\ pairs[j] = <<h, v>>
  <2>1. \A j \in DOMAIN pairs : pairs[j] \in N \X V
    BY ElementOfSeq, LenProperties DEF PairsOf
  <2>2. \A j \in DOMAIN pairs : pairs[j] = <<pairs[j][1], pairs[j][2]>>
    BY <2>1
  <2> QED
    BY <2>2 DEF Bearing, Named
<1>4. \A i \in D : i \in S(sub[i]) /\ sub[i] \in Range(sub)
  BY DEF Range
<1>5. \A v, i : i \in S(v) => i \in D /\ sub[i] = v
  OBVIOUS
<1> HIDE DEF S, T
<1>6. ASSUME \A v \in Range(sub) : Count(sub, v) <= Cardinality(T(v))
      PROVE  \E g \in Injection(D, DOMAIN pairs) : \A i \in D : pairs[g[i]] = <<h, sub[i]>>
  <2>1. \A v \in Range(sub) : \E f : f \in Injection(S(v), T(v))
    BY <1>1, <1>2, <1>6, InjectionByCount
  <2> DEFINE F(v) == CHOOSE f : f \in Injection(S(v), T(v))
             g == [i \in D |-> F(sub[i])[i]]
  <2>2. \A v \in Range(sub) : F(v) \in Injection(S(v), T(v))
    BY <2>1
  <2> HIDE DEF F
  <2>3. ASSUME NEW i \in D PROVE g[i] \in DOMAIN pairs /\ pairs[g[i]] = <<h, sub[i]>>
    <3>1. F(sub[i]) \in [S(sub[i]) -> T(sub[i])]
      BY <1>4, <2>2 DEF Injection
    <3>2. g[i] \in T(sub[i])
      BY <1>4, <3>1
    <3> QED
      BY <1>3, <3>2
  <2>4. ASSUME NEW i \in D, NEW k \in D, g[i] = g[k] PROVE i = k
    <3>1. sub[i] = sub[k]
      BY <2>3, <2>4
    <3>2. F(sub[i])[i] = F(sub[i])[k] /\ i \in S(sub[i]) /\ k \in S(sub[i])
      BY <1>4, <2>4, <3>1
    <3>3. F(sub[i]) \in Injection(S(sub[i]), T(sub[i]))
      BY <1>4, <2>2
    <3> QED
      BY <3>2, <3>3 DEF Injection, IsInjective
  <2>5. g \in [D -> DOMAIN pairs]
    BY <2>3
  <2>6. g \in Injection(D, DOMAIN pairs)
    BY <2>4, <2>5 DEF Injection, IsInjective
  <2> HIDE DEF g, D
  <2> QED
    BY <2>3, <2>6
<1>7. ASSUME NEW g \in Injection(D, DOMAIN pairs), \A i \in D : pairs[g[i]] = <<h, sub[i]>>,
             NEW v \in Range(sub)
      PROVE  Count(sub, v) <= Cardinality(T(v))
  <2> DEFINE f == [i \in S(v) |-> g[i]]
  <2>1. \A i \in S(v) : g[i] \in T(v)
    <3>1. g \in [D -> DOMAIN pairs]
      BY DEF Injection
    <3> QED
      BY <1>3, <1>5, <1>7, <3>1
  <2>2. \A i, k \in S(v) : g[i] = g[k] => i = k
    BY <1>5 DEF Injection, IsInjective
  <2>3. f \in Injection(S(v), T(v))
    BY <2>1, <2>2 DEF Injection, IsInjective
  <2>4. Cardinality(S(v)) <= Cardinality(T(v))
    BY <1>1, <2>3, FS_Injection
  <2> QED
    BY <1>2, <2>4
<1> QED
  BY <1>6, <1>7 DEF T, Enough, Found

\* d is a submultimap of the values grouped if and only if the pairs hold at least d.
LEMMA AtLeastIs ==
  ASSUME NEW N, NEW V, NEW pairs \in PairsOf(N, V), NEW d, d \in [DOMAIN d -> Seq(V)]
  PROVE  IsSubmultimapOf(d, Grouped(pairs)) <=> AtLeast(d, pairs)
<1>1. DOMAIN Grouped(pairs) = NamesIn(pairs)
  BY DEF Grouped
<1>2. ASSUME NEW h \in NamesIn(pairs)
      PROVE  \A v : Count(Grouped(pairs)[h], v) = Cardinality(Bearing(pairs, h, v))
  BY GroupedAt
<1>3. IsSubmultimapOf(d, Grouped(pairs))
        <=> \A h \in DOMAIN d : h \in NamesIn(pairs) /\ Enough(d[h], pairs, h)
  BY <1>1, <1>2 DEF IsSubmultimapOf, Enough
<1>4. AtLeast(d, pairs) <=> \A h \in DOMAIN d : h \in NamesIn(pairs) /\ Found(d[h], pairs, h)
  BY DEF AtLeast, Found
<1>5. \A h \in DOMAIN d : d[h] \in Seq(V)
  OBVIOUS
<1>6. \A h \in DOMAIN d : Enough(d[h], pairs, h) <=> Found(d[h], pairs, h)
  BY <1>5, FoundIs
<1> QED
  BY <1>3, <1>4, <1>6

--------------------------------------------------------------------------------
(* What an expectation makes of a record. *)

\* An empty mapping of headers, unlike one of query arguments, is taken for none given.
HeadersNamed == \A e \in Expectations : e.headers # None => DOMAIN e.headers # {}

\* Lower-case names lead to the same values, if there are any names.
LEMMA LoweredIs ==
  ASSUME NEW d, d # None, IsMultimap(d)
  PROVE  /\ DOMAIN d # {} => LowerKeys(d) = Lowered(d)
         /\ DOMAIN d = {} => LowerKeys(d) = None /\ DOMAIN Lowered(d) = {}
         /\ Lowered(d) \in [DOMAIN Lowered(d) -> Seq(STRING)]
<1>1. DOMAIN d # {} => LowerKeys(d) = Lowered(d)
  BY DEF LowerKeys, Lowered
<1>2. DOMAIN d = {} => LowerKeys(d) = None /\ DOMAIN Lowered(d) = {}
  BY DEF LowerKeys, Lowered
<1>3. ASSUME NEW n \in {Lower[h] : h \in DOMAIN d}
      PROVE  d[CHOOSE h \in DOMAIN d : Lower[h] = n] \in Seq(STRING)
  <2>1. (CHOOSE h \in DOMAIN d : Lower[h] = n) \in DOMAIN d
    OBVIOUS
  <2> QED
    BY <2>1 DEF IsMultimap
<1>4. Lowered(d) \in [DOMAIN Lowered(d) -> Seq(STRING)]
  BY <1>3 DEF Lowered
<1> QED
  BY <1>1, <1>2, <1>4

\* Headers match as documented: their names in any case, their values by count or exactly.
LEMMA HeadersAre ==
  ASSUME NEW e \in Expectations, NEW q \in Requests, HeadersNamed
  PROVE  MatchesMultimap(LowerKeys(e.headers), LowerKeys(e.headers_submap), FromRequest(q).headers)
           <=> /\ e.headers # None => Exactly(Lowered(e.headers), LowerPairs(q.headers))
               /\ e.headers_submap # None => AtLeast(Lowered(e.headers_submap), LowerPairs(q.headers))
<1> DEFINE L == {Lower[n] : n \in STRING}
           pairs == LowerPairs(q.headers)
           exact == e.headers
           submap == e.headers_submap
<1>1. FromRequest(q).headers = Grouped(pairs)
  BY DEF FromRequest
<1>2. pairs \in PairsOf(L, STRING)
  <2>1. q.headers \in Seq(STRING \X STRING)
    BY MatchingAssumption
  <2>2. Len(q.headers) \in Nat /\ DOMAIN q.headers = 1..Len(q.headers)
    BY <2>1, LenProperties
  <2>3. \A i \in 1..Len(q.headers) : q.headers[i] \in STRING \X STRING
    BY <2>1, ElementOfSeq
  <2>4. \A i \in 1..Len(q.headers) :
          <<Lower[q.headers[i][1]], q.headers[i][2]>> \in L \X STRING
    BY <2>3
  <2>5. pairs \in [1..Len(q.headers) -> L \X STRING]
    BY <2>2, <2>4 DEF LowerPairs
  <2> QED
    BY <2>2, <2>5, SeqDef DEF PairsOf
<1>3. /\ exact # None => IsMultimap(exact) /\ DOMAIN exact # {}
      /\ submap # None => IsMultimap(submap)
  BY MatchingAssumption DEF HeadersNamed
<1>4. LowerKeys(None) = None
  BY DEF LowerKeys
<1>5. None \in {LowerKeys(exact), LowerKeys(submap)}
  BY OneMappingAssumption
<1>6. exact # None => LowerKeys(exact) # None
  BY <1>3, OneMappingAssumption
<1>7. submap # None /\ DOMAIN submap # {} => LowerKeys(submap) # None
  BY OneMappingAssumption
<1> HIDE DEF L, pairs, exact, submap
<1>8. exact # None => /\ LowerKeys(exact) = Lowered(exact)
                      /\ Lowered(exact) = Grouped(pairs) <=> Exactly(Lowered(exact), pairs)
  <2> SUFFICES ASSUME exact # None
               PROVE  /\ LowerKeys(exact) = Lowered(exact)
                      /\ Lowered(exact) = Grouped(pairs) <=> Exactly(Lowered(exact), pairs)
    OBVIOUS
  <2> DEFINE d == Lowered(exact)
  <2>1. LowerKeys(exact) = d /\ d \in [DOMAIN d -> Seq(STRING)]
    BY <1>3, LoweredIs
  <2> HIDE DEF d
  <2>2. d = Grouped(pairs) <=> Exactly(d, pairs)
    BY <1>2, <2>1, ExactlyIs
  <2> QED
    BY <2>1, <2>2 DEF d
<1>9. submap # None /\ DOMAIN submap # {} =>
        /\ LowerKeys(submap) = Lowered(submap)
        /\ IsSubmultimapOf(Lowered(submap), Grouped(pairs)) <=> AtLeast(Lowered(submap), pairs)
  <2> SUFFICES ASSUME submap # None, DOMAIN submap # {}
               PROVE  /\ LowerKeys(submap) = Lowered(submap)
                      /\ IsSubmultimapOf(Lowered(submap), Grouped(pairs))
                           <=> AtLeast(Lowered(submap), pairs)
    OBVIOUS
  <2> DEFINE d == Lowered(submap)
  <2>1. LowerKeys(submap) = d /\ d \in [DOMAIN d -> Seq(STRING)]
    BY <1>3, LoweredIs
  <2> HIDE DEF d
  <2>2. IsSubmultimapOf(d, Grouped(pairs)) <=> AtLeast(d, pairs)
    BY <1>2, <2>1, AtLeastIs
  <2> QED
    BY <2>1, <2>2 DEF d
<1>10. submap # None /\ DOMAIN submap = {} =>
         LowerKeys(submap) = None /\ AtLeast(Lowered(submap), pairs)
  <2> SUFFICES ASSUME submap # None, DOMAIN submap = {}
               PROVE  LowerKeys(submap) = None /\ AtLeast(Lowered(submap), pairs)
    OBVIOUS
  <2>1. LowerKeys(submap) = None /\ DOMAIN Lowered(submap) = {}
    BY <1>3, LoweredIs
  <2> QED
    BY <2>1 DEF AtLeast
<1>11. MatchesMultimap(LowerKeys(exact), LowerKeys(submap), Grouped(pairs))
         <=> /\ LowerKeys(exact) # None => LowerKeys(exact) = Grouped(pairs)
             /\ LowerKeys(submap) # None => IsSubmultimapOf(LowerKeys(submap), Grouped(pairs))
  BY <1>5 DEF MatchesMultimap
<1>12. (LowerKeys(exact) # None => LowerKeys(exact) = Grouped(pairs))
         <=> (exact # None => Exactly(Lowered(exact), pairs))
  BY <1>4, <1>6, <1>8
<1>13. (LowerKeys(submap) # None => IsSubmultimapOf(LowerKeys(submap), Grouped(pairs)))
         <=> (submap # None => AtLeast(Lowered(submap), pairs))
  <2>1. CASE submap = None
    BY <1>4, <2>1
  <2>2. CASE submap # None /\ DOMAIN submap = {}
    BY <1>10, <2>2
  <2>3. CASE submap # None /\ DOMAIN submap # {}
    BY <1>7, <1>9, <2>3
  <2> QED
    BY <2>1, <2>2, <2>3
<1>14. MatchesMultimap(LowerKeys(exact), LowerKeys(submap), FromRequest(q).headers)
         <=> /\ exact # None => Exactly(Lowered(exact), pairs)
             /\ submap # None => AtLeast(Lowered(submap), pairs)
  BY <1>1, <1>11, <1>12, <1>13
<1> QED
  BY <1>14 DEF exact, submap, pairs

\* Query arguments match as documented.
LEMMA QueryIs ==
  ASSUME NEW e \in Expectations, NEW q \in Requests
  PROVE  MatchesMultimap(e.query_params, e.query_params_submap, FromRequest(q).query_params)
           <=> /\ e.query_params # None => Exactly(e.query_params, q.query_params)
               /\ e.query_params_submap # None => AtLeast(e.query_params_submap, q.query_params)
<1> DEFINE pairs == q.query_params
           exact == e.query_params
           submap == e.query_params_submap
<1>1. FromRequest(q).query_params = Grouped(pairs)
  BY DEF FromRequest
<1>2. pairs \in PairsOf(STRING, STRING)
  BY MatchingAssumption DEF PairsOf
<1>3. /\ exact # None => exact \in [DOMAIN exact -> Seq(STRING)]
      /\ submap # None => submap \in [DOMAIN submap -> Seq(STRING)]
  BY MatchingAssumption DEF IsMultimap
<1>4. None \in {exact, submap}
  BY OneMappingAssumption
<1> HIDE DEF pairs, exact, submap
<1>5. exact # None => (exact = Grouped(pairs) <=> Exactly(exact, pairs))
  BY <1>2, <1>3, ExactlyIs
<1>6. submap # None => (IsSubmultimapOf(submap, Grouped(pairs)) <=> AtLeast(submap, pairs))
  BY <1>2, <1>3, AtLeastIs
<1>7. MatchesMultimap(exact, submap, Grouped(pairs))
        <=> /\ exact # None => Exactly(exact, pairs)
            /\ submap # None => AtLeast(submap, pairs)
  BY <1>4, <1>5, <1>6 DEF MatchesMultimap
<1>8. MatchesMultimap(exact, submap, FromRequest(q).query_params)
        <=> /\ exact # None => Exactly(exact, pairs)
            /\ submap # None => AtLeast(submap, pairs)
  BY <1>1, <1>7
<1> QED
  BY <1>8 DEF exact, submap, pairs

\* A request matches if and only if all that the arguments say of it is so.
LEMMA MatchesIs ==
  ASSUME NEW e \in Expectations, NEW q \in Requests, HeadersNamed
  PROVE  Matches(e, FromRequest(q)) = "match" <=> Documented(e, q)
<1> DEFINE r == FromRequest(q)
<1>1. /\ r.path = q.path /\ r.path_params = q.path_params /\ r.method = q.method
      /\ r.content = q.content
  BY DEF FromRequest
<1> HIDE DEF r
<1>2. MatchesMultimap(LowerKeys(e.headers), LowerKeys(e.headers_submap), r.headers)
        <=> /\ e.headers # None => Exactly(Lowered(e.headers), LowerPairs(q.headers))
            /\ e.headers_submap # None => AtLeast(Lowered(e.headers_submap), LowerPairs(q.headers))
  BY HeadersAre DEF r
<1>3. MatchesMultimap(e.query_params, e.query_params_submap, r.query_params)
        <=> /\ e.query_params # None => Exactly(e.query_params, q.query_params)
            /\ e.query_params_submap # None => AtLeast(e.query_params_submap, q.query_params)
  BY QueryIs DEF r
<1>4. MatchesMap(e.path_params, e.path_params_submap, r.path_params)
        <=> /\ e.path_params # None => q.path_params = e.path_params
            /\ e.path_params_submap # None =>
                 \A p \in DOMAIN e.path_params_submap :
                   p \in DOMAIN q.path_params /\ q.path_params[p] = e.path_params_submap[p]
  <2>1. e.path_params = None \/ e.path_params_submap = None
    BY OneMappingAssumption
  <2> QED
    BY <1>1, <2>1 DEF MatchesMap, IsSubmapOf
<1>5. (IF e.body = None THEN "match" ELSE Validate(e.body, r.content)) = "match"
        <=> (e.body # None =>
              (IF e.body.by = "json" THEN JsonOf[q.content] ELSE q.content) \in e.body.accepts)
  <2>1. CASE e.body = None
    BY <2>1
  <2>2. CASE e.body # None
    <3>1. \/ e.body.by = "content"
          \/ e.body.by = "json" /\ "undecodable" \notin e.body.accepts
      BY <2>2, MatchingAssumption
    <3>2. CASE e.body.by = "content"
      BY <1>1, <2>2, <3>2 DEF Validate
    <3>3. CASE e.body.by = "json" /\ "undecodable" \notin e.body.accepts
      BY <1>1, <2>2, <3>3 DEF Validate
    <3> QED
      BY <3>1, <3>2, <3>3
  <2> QED
    BY <2>1, <2>2
<1>6. Matches(e, r) = "match"
        <=> /\ MatchesScope(e, r) /\ (e.method # None => Upper[e.method] = r.method)
            /\ (IF e.body = None THEN "match" ELSE Validate(e.body, r.content)) = "match"
  BY DEF Matches
<1>7. Matches(e, r) = "match" <=> Documented(e, q)
  BY <1>1, <1>2, <1>3, <1>4, <1>5, <1>6 DEF MatchesScope, Documented
<1> QED
  BY <1>7 DEF r

\* The records are those of the requests as they came in.
RecordsInv ==
  /\ received \in Seq(Requests) /\ recorded \in Seq(Records) /\ Len(recorded) = Len(received)
  /\ \A i \in 1..Len(received) : recorded[i] = FromRequest(received[i])
  /\ expected \in Seq(Expectations)

\* A handler appends a request and its record together; an assertion appends neither.
LEMMA RecordsStep == RecordsInv /\ [Next]_vars => RecordsInv'
<1> SUFFICES ASSUME RecordsInv, [Next]_vars PROVE RecordsInv'
  OBVIOUS
<1>1. ASSUME NEW q \in Requests, Record(q) PROVE RecordsInv'
  <2>1. FromRequest(q) \in Records
    BY DEF Records
  <2>2. /\ recorded' = Append(recorded, FromRequest(q)) /\ received' = Append(received, q)
        /\ expected' = expected
    BY <1>1 DEF Record, callVars
  <2>3. /\ recorded' \in Seq(Records) /\ Len(recorded') = Len(recorded) + 1
        /\ \A i \in 1..Len(recorded) : recorded'[i] = recorded[i]
        /\ recorded'[Len(recorded) + 1] = FromRequest(q)
    BY <2>1, <2>2, AppendProperties DEF RecordsInv
  <2>4. /\ received' \in Seq(Requests) /\ Len(received') = Len(received) + 1
        /\ \A i \in 1..Len(received) : received'[i] = received[i]
        /\ received'[Len(received) + 1] = q
    BY <2>2, AppendProperties DEF RecordsInv
  <2>5. Len(received) \in Nat /\ Len(recorded) = Len(received)
    BY LenProperties DEF RecordsInv
  <2>6. ASSUME NEW i \in 1..(Len(received) + 1) PROVE recorded'[i] = FromRequest(received'[i])
    <3>1. CASE i = Len(received) + 1
      BY <2>3, <2>4, <2>5, <3>1
    <3>2. CASE i \in 1..Len(received)
      BY <2>3, <2>4, <2>5, <3>2 DEF RecordsInv
    <3> QED
      BY <2>5, <3>1, <3>2
  <2> QED
    BY <2>2, <2>3, <2>4, <2>5, <2>6 DEF RecordsInv
<1>2. ASSUME UNCHANGED <<recorded, received>>, expected' \in Seq(Expectations) PROVE RecordsInv'
  BY <1>2 DEF RecordsInv
<1>3. ASSUME NEW which \in Counting, Call(which, <<>>) PROVE RecordsInv'
  BY <1>2, <1>3, EmptySeq DEF Call
<1>4. ASSUME NEW which \in OfOne, NEW e \in Expectations, Call(which, <<e>>) PROVE RecordsInv'
  <2>1. <<e>> \in Seq(Expectations)
    OBVIOUS
  <2> QED
    BY <1>2, <1>4, <2>1 DEF Call
<1>5. ASSUME NEW n \in 1..MaxExpected, NEW es \in [1..n -> Expectations], Call("has", es)
      PROVE  RecordsInv'
  <2>1. n \in Nat
    BY MatchingAssumption
  <2>2. es \in Seq(Expectations)
    BY <2>1
  <2> QED
    BY <1>2, <1>5, <2>2 DEF Call
<1>6. CASE CheckLength \/ CheckOnce \/ MatchOne \/ LookAt \/ RunOut \/ UNCHANGED vars
  <2>1. UNCHANGED <<recorded, received, expected>>
    BY <1>6 DEF CheckLength, CheckOnce, MatchOne, LookAt, RunOut, vars, callVars
  <2> QED
    BY <1>2, <2>1 DEF RecordsInv
<1> QED
  BY <1>1, <1>3, <1>4, <1>5, <1>6 DEF Next

\* What ExpectedHTTPRequest.matches makes of a recorded request
\* (http_request_capture.py:124-223) is what the arguments of the expectation say of the
\* request as it came in, whatever the requests and the expectations are.
THEOREM MatchesAsDocumentedCorrect ==
  ASSUME HeadersNamed
  PROVE  Spec => []MatchesAsDocumented
<1>1. Init => RecordsInv
  BY EmptySeq DEF Init, RecordsInv
<1>2. RecordsInv => MatchesAsDocumented
  <2> SUFFICES ASSUME RecordsInv, NEW i \in DOMAIN recorded, NEW j \in DOMAIN expected
               PROVE  Matches(expected[j], recorded[i]) = "match"
                        <=> Documented(expected[j], received[i])
    BY DEF MatchesAsDocumented
  <2>1. i \in 1..Len(received)
    BY LenProperties DEF RecordsInv
  <2>2. received[i] \in Requests /\ recorded[i] = FromRequest(received[i])
    BY <2>1, ElementOfSeq DEF RecordsInv
  <2>3. expected[j] \in Expectations
    BY ElementOfSeq, LenProperties DEF RecordsInv
  <2> QED
    BY <2>2, <2>3, MatchesIs
<1> QED
  BY <1>1, <1>2, RecordsStep, PTL DEF Spec
====
