------------------------------ MODULE Matching -------------------------------
(***************************************************************************)
(* yellowbox.extras.webserver.http_request_capture: a test thread asserts  *)
(* on a list of recorded requests to which the serve thread appends while  *)
(* the assertion runs.  An assertion reads the list more than once, and a  *)
(* loop over it sees what is appended in the meantime.                     *)
(***************************************************************************)
EXTENDS Naturals, Sequences, FiniteSets, Functions, SequencesExt, Subsequence

CONSTANTS
  Requests,     \* requests: [headers, method, path, path_params, query_params, content]
  Expectations, \* the arguments of an ExpectedHTTPRequest: see Matches
  Lower,        \* str.lower of the names of headers
  Upper,        \* str.upper of the names of methods
  JsonOf,       \* json.loads of each content: a value, "invalid" or "undecodable"
  MaxRecorded,  \* bound on the length of the list
  MaxExpected,  \* bound on the arguments of assert_has_requests
  None

\* A mapping of names to collections of values.
IsMultimap(d) == d \in [DOMAIN d -> Seq(STRING)]

ASSUME MatchingAssumption ==
  /\ MaxRecorded \in Nat /\ MaxExpected \in Nat \ {0}
  /\ \A q \in Requests : {q.headers, q.query_params} \subseteq Seq(STRING \X STRING)
  /\ \A e \in Expectations :
       /\ \A d \in {e.headers, e.headers_submap, e.query_params, e.query_params_submap} :
            d # None => IsMultimap(d)
       /\ e.body # None => \/ e.body.by = "content"
                           \/ e.body.by = "json" /\ "undecodable" \notin e.body.accepts

VARIABLES
  recorded,  \* the RecordedHTTPRequests
  assertion, \* the assert_ method that runs or ran last
  expected,  \* its arguments
  step,      \* its next step: "idle" when none runs
  at,        \* the index of the request the loop is at
  next,      \* the index of next_expected
  outcome,   \* "none", "passed", "raised" (AssertionError) or "error" (another exception)
  (* history *)
  received,  \* the requests as they came in
  held,      \* what is asserted was true at some moment of the call
  missed     \* what is asserted was false at some moment of the call

callVars == <<assertion, expected, step, at, next, outcome>>
vars == <<recorded, callVars, received, held, missed>>

\* assert_not_requested, _requested and _requested_once; _requested_with,
\* _requested_once_with and _any_request; and _has_requests.
Counting == {"not", "some", "single"}
OfOne == {"last", "once", "any"}
Assertions == Counting \cup OfOne \cup {"has"}

--------------------------------------------------------------------------------
(* From a request to its record, and what an expectation makes of a record. *)

LowerPairs(pairs) == [i \in DOMAIN pairs |-> <<Lower[pairs[i][1]], pairs[i][2]>>]

NamesIn(pairs) == {pairs[i][1] : i \in DOMAIN pairs}
Named(pairs, n) == {i \in DOMAIN pairs : pairs[i][1] = n}

\* The values of a header or a query, grouped under their names.
Grouped(pairs) ==
  [n \in NamesIn(pairs) |-> Among([i \in DOMAIN pairs |-> pairs[i][2]], Named(pairs, n))]

FromRequest(q) ==
  [headers |-> Grouped(LowerPairs(q.headers)), method |-> q.method, path |-> q.path,
   path_params |-> q.path_params, query_params |-> Grouped(q.query_params), content |-> q.content]

\* An empty mapping is no expectation; of names that differ in case only one is kept.
LowerKeys(d) ==
  IF d = None \/ DOMAIN d = {} THEN None
  ELSE [n \in {Lower[h] : h \in DOMAIN d} |-> d[CHOOSE h \in DOMAIN d : Lower[h] = n]]

\* The constructor refuses to be given a mapping and a submap for one part.
ASSUME OneMappingAssumption ==
  \A e \in Expectations :
    /\ None \in {LowerKeys(e.headers), LowerKeys(e.headers_submap)}
    /\ None \in {e.path_params, e.path_params_submap}
    /\ None \in {e.query_params, e.query_params_submap}
    /\ \A d \in {e.headers, e.headers_submap} : LowerKeys(d) = None => d = None \/ DOMAIN d = {}

Count(values, v) == Cardinality({i \in DOMAIN values : values[i] = v})

IsSubmapOf(sub, super) == \A k \in DOMAIN sub : k \in DOMAIN super /\ super[k] = sub[k]
\* (a defective variant: the values of a key are compared as sets)
IsSubmultimapOfSets(sub, super) ==
  \A k \in DOMAIN sub : k \in DOMAIN super /\ Range(sub[k]) \subseteq Range(super[k])

\* The difference of the counters of the two collections of a key has no negative count.
IsSubmultimapOf(sub, super) ==
  \A k \in DOMAIN sub : k \in DOMAIN super
    /\ \A v \in Range(sub[k]) : Count(sub[k], v) <= Count(super[k], v)

MatchesMap(exact, submap, map) ==
  (exact # None => exact = map) /\ (exact = None /\ submap # None => IsSubmapOf(submap, map))
MatchesMultimap(exact, submap, map) ==
  (exact # None => exact = map) /\ (exact = None /\ submap # None => IsSubmultimapOf(submap, map))

MatchesScope(e, r) ==
  /\ MatchesMultimap(LowerKeys(e.headers), LowerKeys(e.headers_submap), r.headers)
  /\ e.path # None => r.path \in e.path              \* the strings the pattern matches
  /\ MatchesMap(e.path_params, e.path_params_submap, r.path_params)
  /\ MatchesMultimap(e.query_params, e.query_params_submap, r.query_params)

\* json.loads raises UnicodeDecodeError, not JSONDecodeError, on bytes it cannot decode.
Validate(body, content) ==
  CASE body.by = "content" -> IF content \in body.accepts THEN "match" ELSE "mismatch"
    [] body.by = "json" /\ JsonOf[content] = "undecodable" -> "error"
    [] OTHER -> IF JsonOf[content] \in body.accepts THEN "match" ELSE "mismatch"

\* matches(): every reason is collected before any is returned.
Matches(e, r) ==
  LET fits == MatchesScope(e, r) /\ (e.method # None => Upper[e.method] = r.method)
      body == IF e.body = None THEN "match" ELSE Validate(e.body, r.content)
  IN IF body = "match" /\ ~fits THEN "mismatch" ELSE body

--------------------------------------------------------------------------------
(* What is asserted. *)

\* The first n expectations match n of the first m records, in the same order.
Embeds(es, rs, n, m) ==
  \E f \in [1..n -> 1..m] :
    /\ \A i, j \in 1..n : i < j => f[i] < f[j]
    /\ \A i \in 1..n : Matches(es[i], rs[f[i]]) = "match"

Holds ==
  CASE assertion = "not" -> recorded = <<>>
    [] assertion = "some" -> recorded # <<>>
    [] assertion = "single" -> Len(recorded) = 1
    [] assertion = "last" ->
         recorded # <<>> /\ Matches(expected[1], recorded[Len(recorded)]) = "match"
    [] assertion = "once" -> Len(recorded) = 1 /\ Matches(expected[1], recorded[1]) = "match"
    [] assertion = "any"  -> \E i \in 1..Len(recorded) : Matches(expected[1], recorded[i]) = "match"
    [] assertion = "has"  -> Embeds(expected, recorded, Len(expected), Len(recorded))

Init ==
  /\ recorded = <<>>
  /\ assertion = "any" /\ expected = <<>>
  /\ step = "idle" /\ at = 1 /\ next = 1
  /\ outcome = "none"
  /\ received = <<>>
  /\ held = FALSE /\ missed = FALSE

Observe ==
  /\ held' = (held \/ (step # "idle" /\ Holds'))
  /\ missed' = (missed \/ (step # "idle" /\ ~Holds'))

\* The serve thread: a handler appends to the list.
Record(q) ==
  /\ Len(recorded) < MaxRecorded
  /\ recorded' = Append(recorded, FromRequest(q))
  /\ received' = Append(received, q)
  /\ UNCHANGED callVars
  /\ Observe

--------------------------------------------------------------------------------
(* The test thread. *)

Call(which, arguments) ==
  /\ step = "idle"
  /\ assertion' = which
  /\ expected' = arguments
  /\ step' = "length" /\ at' = 1 /\ next' = 1
  /\ outcome' = "none"
  /\ UNCHANGED <<recorded, received>>
  /\ held' = Holds' /\ missed' = ~Holds'

End(how) == outcome' = how /\ step' = "idle"
Goto(s) == step' = s /\ UNCHANGED outcome

\* The first look at the list.
CheckLength ==
  /\ step = "length"
  /\ CASE assertion = "has" ->
            IF Len(recorded) < Len(expected) THEN End("raised") ELSE Goto("loop")
       [] assertion = "not" -> End(IF recorded = <<>> THEN "passed" ELSE "raised")
       [] assertion \notin {"has", "not"} /\ recorded = <<>> -> End("raised")
       [] assertion = "some" /\ recorded # <<>> -> End("passed")
       [] assertion \in {"single", "once"} /\ recorded # <<>> -> Goto("count")
       [] assertion = "last" /\ recorded # <<>> -> Goto("match")
       [] assertion = "any" /\ recorded # <<>> -> Goto("loop")
  /\ UNCHANGED <<recorded, assertion, expected, at, next, received, held, missed>>

\* The second look, of the assertions of one request.
CheckOnce ==
  /\ step = "count"
  /\ IF Len(recorded) > 1 THEN End("raised")
     ELSE IF assertion = "single" THEN End("passed") ELSE Goto("match")
  /\ UNCHANGED <<recorded, assertion, expected, at, next, received, held, missed>>

Answer(match) ==
  CASE match = "match" -> End("passed") [] match = "mismatch" -> End("raised")
    [] OTHER -> End("error")

\* self[-1] or self[0] against the expectation.
MatchOne ==
  /\ step = "match"
  /\ Answer(Matches(expected[1], recorded[IF assertion = "last" THEN Len(recorded) ELSE 1]))
  /\ UNCHANGED <<recorded, assertion, expected, at, next, received, held, missed>>

\* (a defective variant: a request may serve one expectation after the other)
LookAtAgain ==
  /\ step = "loop" /\ at <= Len(recorded)
  /\ LET match == Matches(expected[next], recorded[at])
     IN \/ match = "match" /\ next = Len(expected) /\ End("passed") /\ UNCHANGED <<at, next>>
        \/ match = "match" /\ next < Len(expected) /\ next' = next + 1
             /\ Goto("loop") /\ UNCHANGED at
        \/ match = "mismatch" /\ at' = at + 1 /\ Goto("loop") /\ UNCHANGED next
        \/ match = "error" /\ End("error") /\ UNCHANGED <<at, next>>
  /\ UNCHANGED <<recorded, assertion, expected, received, held, missed>>

\* One pass of "for request in self", for assert_any_request as for assert_has_requests.
LookAt ==
  /\ step = "loop" /\ at <= Len(recorded)
  /\ LET match == Matches(expected[next], recorded[at])
     IN \/ match = "match" /\ next = Len(expected) /\ End("passed") /\ UNCHANGED <<at, next>>
        \/ match = "match" /\ next < Len(expected) /\ next' = next + 1 /\ at' = at + 1 /\ Goto("loop")
        \/ match = "mismatch" /\ at' = at + 1 /\ Goto("loop") /\ UNCHANGED next
        \/ match = "error" /\ End("error") /\ UNCHANGED <<at, next>>
  /\ UNCHANGED <<recorded, assertion, expected, received, held, missed>>

RunOut ==
  /\ step = "loop" /\ at > Len(recorded)
  /\ End("raised")
  /\ UNCHANGED <<recorded, assertion, expected, at, next, received, held, missed>>

Next ==
  \/ \E q \in Requests : Record(q)
  \/ \E which \in Counting : Call(which, <<>>)
  \/ \E which \in OfOne, e \in Expectations : Call(which, <<e>>)
  \/ \E n \in 1..MaxExpected : \E es \in [1..n -> Expectations] : Call("has", es)
  \/ CheckLength \/ CheckOnce \/ MatchOne \/ LookAt \/ RunOut

Spec == Init /\ [][Next]_vars

--------------------------------------------------------------------------------
(***************************************************************************)
(* Properties                                                              *)
(***************************************************************************)

\* An assertion that passes was true, and one that raises AssertionError was false, at
\* some moment of the call, whatever is recorded while it reads the list and however
\* the greedy assert_has_requests gives requests away.
AnswersTrue ==
  (outcome = "passed" => held) /\ (outcome = "raised" => missed)

\* Pairs that hold each name of d, with at least the values of d ...
AtLeast(d, pairs) ==
  \A h \in DOMAIN d : h \in NamesIn(pairs) /\ \E g \in Injection(DOMAIN d[h], DOMAIN pairs) :
    \A i \in DOMAIN d[h] : pairs[g[i]] = <<h, d[h][i]>>
\* ... or that hold these names and values exactly, those of a name in the same order:
\* g says which value of its name a pair is.
Exactly(d, pairs) ==
  /\ DOMAIN d = NamesIn(pairs)
  /\ \E g \in [DOMAIN pairs -> UNION {DOMAIN d[h] : h \in DOMAIN d}] :
       /\ \A j \in DOMAIN pairs :
            g[j] \in DOMAIN d[pairs[j][1]] /\ pairs[j][2] = d[pairs[j][1]][g[j]]
       /\ \A h \in DOMAIN d : \A i \in DOMAIN d[h] : \E j \in Named(pairs, h) : g[j] = i
       /\ \A j, k \in DOMAIN pairs : j < k /\ pairs[j][1] = pairs[k][1] => g[j] < g[k]
Lowered(d) == [h \in {Lower[n] : n \in DOMAIN d} |-> d[CHOOSE n \in DOMAIN d : Lower[n] = h]]

\* docs/extras/webserver.rst:446-462, of a request as it came in.
Documented(e, q) ==
  /\ e.headers # None => Exactly(Lowered(e.headers), LowerPairs(q.headers))
  /\ e.headers_submap # None => AtLeast(Lowered(e.headers_submap), LowerPairs(q.headers))
  /\ e.query_params # None => Exactly(e.query_params, q.query_params)
  /\ e.query_params_submap # None => AtLeast(e.query_params_submap, q.query_params)
  /\ e.path # None => q.path \in e.path
  /\ e.path_params # None => q.path_params = e.path_params
  /\ e.path_params_submap # None =>
       \A p \in DOMAIN e.path_params_submap :
         p \in DOMAIN q.path_params /\ q.path_params[p] = e.path_params_submap[p]
  /\ e.method # None => Upper[e.method] = q.method
  /\ e.body # None =>
       (IF e.body.by = "json" THEN JsonOf[q.content] ELSE q.content) \in e.body.accepts

\* What an expectation makes of a record is what its arguments say of the request:
\* neither the grouping of headers and queries nor the counting of values loses any.
MatchesAsDocumented ==
  \A i \in DOMAIN recorded, j \in DOMAIN expected :
    Matches(expected[j], recorded[i]) = "match" <=> Documented(expected[j], received[i])
==============================================================================
