------------------------ MODULE WebsocketServiceProofs -------------------------
(***************************************************************************)
(* The lookup of a route, and the end of the generators of a               *)
(* WebsocketService, for every value of the constants.                     *)
(***************************************************************************)
EXTENDS WebsocketService, FiniteSetTheorems, SequenceTheorems, WellFoundedInduction, TLAPS

(***************************************************************************)
(* Generators                                                              *)
(***************************************************************************)
Suspended(c) == gen[c] = "suspended"

GenTyped == gen \in [Conns -> {"none", "starting", "running", "suspended", "finished"}]

\* The server thread looks up routes for a connection that it knows.
LooksUpKnown == at \in {"path", "patterns"} => busy \in connections

\* A generator that may be advanced again is that of a connection the server knows, which
\* holds it; and once stop() walks the connections, of one that it has still to close.
Tended ==
  /\ at = "running" => busy \in connections \cap held
  /\ \A c \in Conns : Suspended(c) => c \in connections \cap held
  /\ stopAt \in {"closing", "throwing"} =>
       at = "ended" /\ \A c \in Conns : Suspended(c) => c \in toClose
  /\ stopResult = "returned" => at = "ended" /\ \A c \in Conns : ~Suspended(c)

GenInv == GenTyped /\ LooksUpKnown /\ (overran \/ Tended)

LEMMA GenInit == Init => GenInv
BY DEF Init, GenInv, GenTyped, LooksUpKnown, Tended, Suspended

\* Steps that leave the generators, the connections and stop() alone.
LEMMA GenAside ==
  ASSUME GenInv, UNCHANGED <<gen, held, connections, busy, at, stopVars>>
  PROVE  GenInv'
BY DEF GenInv, GenTyped, LooksUpKnown, Tended, Suspended, stopVars

\* The server thread goes back to its loop, or to the next frame, with all as it was.
LEMMA GenBackInLoop ==
  ASSUME GenInv, at # "ended", at' \in {"events", "parse", "ended"},
         UNCHANGED <<gen, held, connections, stopVars>>
  PROVE  GenInv'
BY DEF GenInv, GenTyped, LooksUpKnown, Tended, Suspended, stopVars

\* A connection is dropped: its generator is not suspended any more.
LEMMA GenDrop ==
  ASSUME GenInv, NEW c \in Conns, at # "ended", Drop(c), UNCHANGED stopVars
  PROVE  GenInv'
<1> USE DEF GenInv, GenTyped, Drop, GiveUp, Forget
<1>1. GenTyped' /\ at' \in {"events", "throwing"}
  OBVIOUS
<1>2. ASSUME Tended PROVE Tended'
  <2>1. \A d \in Conns : Suspended(d)' => Suspended(d) /\ d # c
    BY <1>2 DEF Tended, Suspended
  <2>2. connections \subseteq connections' \cup {c} /\ held' = held \ {c}
    OBVIOUS
  <2> QED
    BY <1>1, <1>2, <2>1, <2>2 DEF Tended, stopVars
<1> QED
  BY <1>1, <1>2 DEF LooksUpKnown, stopVars

LEMMA GenTakeFrame ==
  ASSUME GenInv, NEW c \in Conns, at \in {"events", "parse"}, TakeFrame(c)
  PROVE  GenInv'
<1> DEFINE frame == Head(inbox[c])
           rest == Tail(inbox[c])
<1>1. UNCHANGED stopVars
  BY DEF TakeFrame
<1>2. CASE FrameDone(c, rest) /\ UNCHANGED <<connections, held, gen>>
  BY <1>1, <1>2, GenBackInLoop DEF FrameDone
<1>3. CASE /\ connections' = connections \cup {c} /\ at' = "path" /\ busy' = c
           /\ UNCHANGED <<held, gen>>
  BY <1>1, <1>3 DEF GenInv, GenTyped, LooksUpKnown, Tended, Suspended, stopVars
<1>4. CASE /\ c \in held /\ Suspended(c)
           /\ gen' = [gen EXCEPT ![c] = "running"]
           /\ at' = "running" /\ busy' = c
           /\ UNCHANGED <<connections, held>>
  BY <1>1, <1>4 DEF GenInv, GenTyped, LooksUpKnown, Tended, Suspended, stopVars
<1>5. CASE Drop(c)
  BY <1>1, <1>5, GenDrop
<1> QED
  BY <1>2, <1>3, <1>4, <1>5 DEF TakeFrame, Suspended

LEMMA GenLookUp ==
  ASSUME GenInv, NEW c \in Conns, LookUpPath(c) \/ LookUpPatterns(c)
  PROVE  GenInv'
<1>1. at \in {"path", "patterns"} /\ busy = c /\ UNCHANGED <<connections, stopVars>>
  BY DEF LookUpPath, LookUpPatterns, LookupStep
<1>2. CASE \E e : Connect(c, e)
  BY <1>1, <1>2 DEF Connect, GenInv, GenTyped, LooksUpKnown, Tended, Suspended, stopVars
<1>3. CASE at' = "events" /\ UNCHANGED <<gen, held>>
  BY <1>1, <1>3, GenBackInLoop
<1>4. CASE at' = "patterns" /\ UNCHANGED <<busy, gen, held>>
  BY <1>1, <1>4 DEF GenInv, GenTyped, LooksUpKnown, Tended, Suspended, stopVars
<1> QED
  BY <1>1, <1>2, <1>3, <1>4 DEF LookUpPath, LookUpPatterns, Refuse

LEMMA GenServer ==
  ASSUME GenInv, StepServer
  PROVE  GenInv'
<1>1. CASE Check
  <2>1. CASE stopEvent
    BY <1>1, <2>1, GenBackInLoop DEF Check, socketVars, genVars
  <2>2. CASE ~stopEvent
    BY <1>1, <2>2, GenAside DEF Check, socketVars, genVars
  <2> QED
    BY <2>1, <2>2
<1>2. CASE ReadDone
  BY <1>2, GenBackInLoop DEF ReadDone, socketVars, genVars
<1>3. ASSUME NEW c \in Conns, Flush(c) PROVE GenInv'
  <2>1. CASE Drop(c)
    BY <1>3, <2>1, GenDrop DEF Flush
  <2>2. CASE UNCHANGED <<at, busy, connections, held, gen>>
    BY <1>3, <2>2, GenAside DEF Flush
  <2> QED
    BY <1>3, <2>1, <2>2 DEF Flush
<1>4. ASSUME NEW c \in Conns, Read(c) PROVE GenInv'
  <2>1. CASE TakeFrame(c)
    BY <1>4, <2>1, GenTakeFrame DEF Read
  <2>2. CASE Drop(c) /\ UNCHANGED stopVars
    BY <1>4, <2>2, GenDrop DEF Read
  <2> QED
    BY <1>4, <2>1, <2>2 DEF Read
<1>5. ASSUME NEW c \in Conns, ReadMore(c) PROVE GenInv'
  BY <1>5, GenTakeFrame DEF ReadMore
<1>6. ASSUME NEW c \in Conns, LookUpPath(c) \/ LookUpPatterns(c) PROVE GenInv'
  BY <1>6, GenLookUp
<1> QED
  BY <1>1, <1>2, <1>3, <1>4, <1>5, <1>6 DEF StepServer

LEMMA GenSideEffect ==
  ASSUME GenInv, NEW c \in Conns, StepSideEffect(c) \/ Thrown(c)
  PROVE  GenInv'
<1>1. CASE YieldsOrReturns(c)
  <2>1. PICK result : Advanced(c, result)
    BY <1>1 DEF YieldsOrReturns
  <2>2. at = "running" /\ busy = c
    BY <1>1 DEF YieldsOrReturns
  <2>3. /\ gen' \in [Conns -> {"none", "starting", "running", "suspended", "finished"}]
        /\ \A d \in Conns : d # c => gen'[d] = gen[d]
    BY <2>1 DEF Advanced, GenInv, GenTyped
  <2>4. at' \in {"events", "parse"} /\ UNCHANGED <<connections, held, stopVars>>
    BY <2>1 DEF Advanced, FrameDone
  <2> QED
    BY <2>2, <2>3, <2>4 DEF GenInv, GenTyped, LooksUpKnown, Tended, Suspended, stopVars
<1>2. CASE Raises(c)
  BY <1>2 DEF Raises, Forget, GenInv, GenTyped, LooksUpKnown, Tended, Suspended, stopVars
<1>3. CASE Thrown(c)
  BY <1>3 DEF Thrown, Forget, GenInv, GenTyped, LooksUpKnown, Tended, Suspended, stopVars
<1> QED
  BY <1>1, <1>2, <1>3 DEF StepSideEffect

LEMMA GenStop ==
  ASSUME GenInv, CallStop \/ StepStop \/ ThrownByStop
  PROVE  GenInv'
<1> USE DEF GenInv, GenTyped, LooksUpKnown, Tended, Suspended, StopStep, SocketsKept, serveVars
<1>1. CASE CallStop
  BY <1>1 DEF CallStop
<1>2. CASE Joined
  BY <1>2 DEF Joined
<1>3. ASSUME NEW c \in Conns, CloseNext(c) PROVE GenInv'
  <2>1. GenTyped' /\ UNCHANGED <<at, busy, connections, overran, stopResult>>
    BY <1>3 DEF CloseNext, GiveUp
  <2>2. ASSUME Tended PROVE Tended'
    <3>1. \A d \in Conns : Suspended(d)' => Suspended(d) /\ d # c
      BY <1>3, <2>2 DEF CloseNext, GiveUp
    <3>2. stopAt = "closing" /\ at = "ended" /\ held' = held \ {c} /\ toClose' = toClose \ {c}
      BY <1>3, <2>2 DEF CloseNext, GiveUp
    <3> QED
      BY <2>1, <2>2, <3>1, <3>2
  <2> QED
    BY <2>1, <2>2
<1>4. CASE StopEnds
  BY <1>4 DEF StopEnds
<1>5. CASE ThrownByStop
  BY <1>5 DEF ThrownByStop
<1> QED
  BY <1>1, <1>2, <1>3, <1>4, <1>5 DEF StepStop

LEMMA GenStep == GenInv /\ [Next]_vars => GenInv'
<1> SUFFICES ASSUME GenInv, [Next]_vars PROVE GenInv'
  OBVIOUS
<1> USE DEF stopVars
<1>1. CASE ChangeRoutes
  <2>1. RouteStep
    BY <1>1 DEF ChangeRoutes, Add, Set, Remove, Clear
  <2> QED
    BY <2>1, GenAside DEF RouteStep, serveVars, socketVars, genVars
<1>2. ASSUME NEW c \in Conns, Dial(c) \/ SendData(c) \/ HangUp(c) PROVE GenInv'
  BY <1>2, GenAside DEF Dial, SendData, HangUp, ClientStep, serveVars, genVars
<1>3. CASE Start
  BY <1>3 DEF Start, GenInv, GenTyped, LooksUpKnown, Tended, Suspended, socketVars, genVars
<1>4. CASE UNCHANGED vars
  BY <1>4, GenAside DEF vars, serveVars, socketVars, genVars
<1> QED
  BY <1>1, <1>2, <1>3, <1>4, GenServer, GenSideEffect, GenStop DEF Next

\* No generator is left behind, whatever side effects do while they are advanced and while
\* they are thrown an exception, and whenever stop() is called.
THEOREM GeneratorsEndCorrect == Spec => []GeneratorsEnd
<1>1. GenInv => GeneratorsEnd
  BY DEF GenInv, Tended, Suspended, GeneratorsEnd
<1> QED
  BY <1>1, GenInit, GenStep, PTL DEF Spec

(***************************************************************************)
(* The lookup                                                              *)
(***************************************************************************)
Item == [pattern : Patterns, effect : Effects]

LookupTyped ==
  /\ routes \in [Paths -> Effects \cup {None}]
  /\ reRoutes \in Seq(Item) /\ untested \in Seq(Item)
  /\ effect \in [Conns -> Effects \cup {None}]

\* Both tables are noted as they are while the path is still to be looked up; then the path
\* has been found missing, and the items that are left, of the copy, answer what the whole
\* table has answered at its moment.
Noted ==
  /\ at = "path" => /\ routes[PathOf[busy]] \in seen.path
                    /\ LastMatch(busy, reRoutes) \in seen.pattern
  /\ at = "patterns" => None \in seen.path /\ LastMatch(busy, untested) \in seen.pattern

LookupInv == LookupTyped /\ Noted

LEMMA Greatest ==
  ASSUME NEW n \in Nat, NEW M, M \subseteq 1..n, M # {}
  PROVE  \E i \in M : \A j \in M : j <= i
<1> DEFINE R == OpToRel(<, Nat)
           T == {n - i : i \in M}
<1>1. T \subseteq Nat /\ T # {}
  <2>1. \A i \in M : n - i \in Nat
    OBVIOUS
  <2> QED
    BY <2>1
<1>2. PICK k \in T : \A l \in T : ~(<<l, k>> \in R)
  BY <1>1, WFMin, NatLessThanWellFounded
<1>3. PICK i \in M : k = n - i
  OBVIOUS
<1>4. ASSUME NEW j \in M PROVE j <= i
  <2>1. n - j \in T /\ n - j \in Nat /\ n - i \in Nat
    BY <1>1, <1>3
  <2>2. ~(n - j < n - i)
    BY <1>2, <1>3, <2>1 DEF OpToRel
  <2> QED
    BY <2>2
<1> QED
  BY <1>4

\* Matching the items from the last to the first finds the last that matches.
LEMMA LastMatchByItem ==
  ASSUME NEW c \in Conns, NEW items \in Seq(Item), items # <<>>
  PROVE  LET item == items[Len(items)]
         IN LastMatch(c, items) = IF item.pattern \in Matches[c] THEN item.effect
                                  ELSE LastMatch(c, SubSeq(items, 1, Len(items) - 1))
<1> DEFINE n == Len(items)
           rest == SubSeq(items, 1, n - 1)
           M == {i \in DOMAIN items : items[i].pattern \in Matches[c]}
           N == {i \in DOMAIN rest : rest[i].pattern \in Matches[c]}
           Last(S) == CHOOSE i \in S : \A j \in S : j <= i
           max == Last(M)
<1>1. n \in Nat \ {0} /\ DOMAIN items = 1..n
  BY EmptySeq
<1>2. DOMAIN rest = 1..(n - 1) /\ \A i \in 1..(n - 1) : rest[i] = items[i]
  BY <1>1
<1>3. M = {} \/ (max \in M /\ \A j \in M : j <= max)
  BY <1>1, Greatest
<1>4. CASE n \in M
  <2>1. max = n
    BY <1>1, <1>3, <1>4
  <2> QED
    BY <1>4, <2>1 DEF LastMatch
<1>5. CASE n \notin M
  <2>1. M = N
    BY <1>1, <1>2, <1>5
  <2>2. M # {} => rest[max] = items[max]
    BY <1>1, <1>2, <1>3, <1>5
  <2>3. LastMatch(c, items) = IF M = {} THEN None ELSE items[Last(M)].effect
    BY DEF LastMatch
  <2>4. LastMatch(c, rest) = IF N = {} THEN None ELSE rest[Last(N)].effect
    BY DEF LastMatch
  <2>5. LastMatch(c, items) = LastMatch(c, rest)
    <3> HIDE DEF M, N, Last, rest
    <3> QED
      BY <2>1, <2>2, <2>3, <2>4
  <2>6. items[n].pattern \notin Matches[c]
    BY <1>1, <1>5
  <2> QED
    BY <2>5, <2>6
<1> QED
  BY <1>4, <1>5

LEMMA NothingMatches ==
  ASSUME NEW c \in Conns
  PROVE  LastMatch(c, <<>>) = None
BY DEF LastMatch

LEMMA LookupInit == Init => LookupInv
BY DEF Init, LookupInv, LookupTyped, Noted

\* Steps that leave the routes and the lookup alone.
LEMMA LookupAside ==
  ASSUME LookupInv, UNCHANGED <<routes, reRoutes, seen, at, busy, untested, effect>>
  PROVE  LookupInv'
BY DEF LookupInv, LookupTyped, Noted, LastMatch

\* Steps that do not look up, and start no lookup.
LEMMA LookupElsewhere ==
  ASSUME LookupInv, at' \notin {"path", "patterns"}, UNCHANGED <<routes, reRoutes, untested>>,
         effect' \in [Conns -> Effects \cup {None}]
  PROVE  LookupInv'
BY DEF LookupInv, LookupTyped, Noted

LEMMA PlaceTyped ==
  ASSUME LookupTyped, NEW k \in Paths \cup Patterns, NEW e \in Effects, Place(k, e)
  PROVE  routes' \in [Paths -> Effects \cup {None}] /\ reRoutes' \in Seq(Item)
<1>1. CASE k \in Paths
  BY <1>1 DEF Place, LookupTyped
<1>2. CASE k \notin Paths
  <2>1. routes' = routes /\ [pattern |-> k, effect |-> e] \in Item
    BY <1>2 DEF Place, Item
  <2>2. CASE Routed(k)
    <3> DEFINE new == [i \in DOMAIN reRoutes |->
                         IF reRoutes[i].pattern = k THEN [pattern |-> k, effect |-> e] ELSE reRoutes[i]]
    <3>1. reRoutes' = new
      BY <1>2, <2>2 DEF Place
    <3>2. reRoutes \in [1..Len(reRoutes) -> Item] /\ Len(reRoutes) \in Nat
      BY DEF LookupTyped
    <3>3. new \in [1..Len(reRoutes) -> Item]
      BY <2>1, <3>2
    <3> QED
      BY <2>1, <3>1, <3>2, <3>3, SeqDef DEF LookupTyped
  <2>3. CASE ~Routed(k)
    <3>1. reRoutes' = Append(reRoutes, [pattern |-> k, effect |-> e])
      BY <1>2, <2>3 DEF Place
    <3> QED
      BY <2>1, <3>1, AppendProperties DEF LookupTyped
  <2> QED
    BY <2>2, <2>3
<1> QED
  BY <1>1, <1>2

LEMMA WithoutTyped ==
  ASSUME NEW items \in Seq(Item), NEW i \in DOMAIN items
  PROVE  SubSeq(items, 1, i - 1) \o SubSeq(items, i + 1, Len(items)) \in Seq(Item)
<1>1. i \in 1..Len(items) /\ Len(items) \in Nat
  OBVIOUS
<1>2. SubSeq(items, 1, i - 1) \in Seq(Item) /\ SubSeq(items, i + 1, Len(items)) \in Seq(Item)
  BY <1>1
<1> QED
  BY <1>2, ConcatProperties

LEMMA LookupRoutes ==
  ASSUME LookupInv, ChangeRoutes
  PROVE  LookupInv'
<1>1. RouteStep
  BY DEF ChangeRoutes, Add, Set, Remove, Clear
<1>2. routes' \in [Paths -> Effects \cup {None}] /\ reRoutes' \in Seq(Item)
  <2>1. ASSUME NEW k \in Paths \cup Patterns, NEW e \in Routable[k], Add(k, e) \/ Set(k, e)
        PROVE  routes' \in [Paths -> Effects \cup {None}] /\ reRoutes' \in Seq(Item)
    <3>1. e \in Effects
      BY WebsocketServiceAssumption
    <3> QED
      BY <2>1, <3>1, PlaceTyped DEF LookupInv, Add, Set
  <2>2. ASSUME NEW k \in Paths \cup Patterns, Remove(k)
        PROVE  routes' \in [Paths -> Effects \cup {None}] /\ reRoutes' \in Seq(Item)
    <3>1. CASE k \in Paths
      BY <2>2, <3>1 DEF Remove, LookupInv, LookupTyped
    <3>2. CASE k \notin Paths
      BY <2>2, <3>2, WithoutTyped DEF Remove, LookupInv, LookupTyped
    <3> QED
      BY <3>1, <3>2
  <2>3. CASE Clear
    BY <2>3 DEF Clear
  <2> QED
    BY <2>1, <2>2, <2>3 DEF ChangeRoutes
<1>3. UNCHANGED <<at, busy, untested, effect>>
  BY <1>1 DEF RouteStep, serveVars, genVars
<1>4. CASE at \in {"path", "patterns"}
  <2>1. seen' = [path |-> seen.path \cup {routes'[PathOf[busy]]},
                 pattern |-> seen.pattern \cup {LastMatch(busy, reRoutes')}]
    BY <1>1, <1>4 DEF RouteStep, Note
  <2>2. /\ seen.path \cup {routes'[PathOf[busy]]} = seen'.path
        /\ seen.pattern \cup {LastMatch(busy, reRoutes')} = seen'.pattern
    BY <2>1
  <2>3. LastMatch(busy, reRoutes') \in seen'.pattern /\ routes'[PathOf[busy]] \in seen'.path
    BY <2>2
  <2>4. at = "patterns" => None \in seen'.path /\ LastMatch(busy, untested) \in seen'.pattern
    BY <2>2 DEF LookupInv, Noted
  <2>5. Noted'
    BY <1>3, <2>3, <2>4 DEF Noted
  <2> QED
    BY <1>2, <1>3, <2>5 DEF LookupInv, LookupTyped
<1>5. CASE at \notin {"path", "patterns"}
  BY <1>2, <1>3, <1>5 DEF LookupInv, LookupTyped, Noted
<1> QED
  BY <1>4, <1>5

LEMMA LookupDrop ==
  ASSUME LookupInv, NEW c \in Conns, Drop(c), UNCHANGED <<routes, reRoutes, untested>>, at \notin {"path", "patterns"}
  PROVE  LookupInv'
<1>1. at' \in {"throwing", "events"} /\ effect' \in [Conns -> Effects \cup {None}]
  BY DEF Drop, Forget, LookupInv, LookupTyped
<1> QED
  BY <1>1, LookupElsewhere

LEMMA LookupTakeFrame ==
  ASSUME LookupInv, NEW c \in Conns, at \in {"events", "parse"}, TakeFrame(c)
  PROVE  LookupInv'
<1>1. UNCHANGED <<routes, reRoutes, untested>>
  BY DEF TakeFrame, routeVars
<1>2. CASE /\ at' = "path" /\ busy' = c /\ UNCHANGED effect
           /\ seen' = [path |-> {routes[PathOf[c]]}, pattern |-> {LastMatch(c, reRoutes)}]
  BY <1>1, <1>2 DEF LookupInv, LookupTyped, Noted, LastMatch
<1>3. CASE at' \in {"events", "parse", "running"} /\ UNCHANGED effect
  BY <1>1, <1>3, LookupElsewhere DEF LookupInv, LookupTyped
<1>4. CASE Drop(c)
  BY <1>1, <1>4, LookupDrop
<1> QED
  BY <1>2, <1>3, <1>4 DEF TakeFrame, FrameDone

LEMMA LookupPathStep ==
  ASSUME LookupInv, NEW c \in Conns, LookUpPath(c)
  PROVE  LookupInv'
<1>1. at = "path" /\ busy = c /\ UNCHANGED <<routes, reRoutes>>
  BY DEF LookUpPath, LookupStep, routeVars
<1>2. CASE routes[PathOf[c]] # None
  <2>1. routes[PathOf[c]] \in Effects
    BY <1>2, WebsocketServiceAssumption DEF LookupInv, LookupTyped
  <2>2. at' = "running" /\ untested' = <<>> /\ effect' = [effect EXCEPT ![c] = routes[PathOf[c]]]
    BY <1>2 DEF LookUpPath, Connect
  <2> QED
    BY <1>1, <2>1, <2>2 DEF LookupInv, LookupTyped, Noted
<1>3. CASE routes[PathOf[c]] = None
  <2>1. at' = "patterns" /\ untested' = reRoutes /\ UNCHANGED <<busy, seen, effect>>
    BY <1>3 DEF LookUpPath
  <2> QED
    BY <1>1, <1>3, <2>1 DEF LookupInv, LookupTyped, Noted, LastMatch
<1> QED
  BY <1>2, <1>3

LEMMA LookupPatternsStep ==
  ASSUME LookupInv, NEW c \in Conns, LookUpPatterns(c)
  PROVE  LookupInv'
<1> DEFINE item == untested[Len(untested)]
           rest == SubSeq(untested, 1, Len(untested) - 1)
<1>1. at = "patterns" /\ busy = c /\ UNCHANGED <<routes, reRoutes>>
  BY DEF LookUpPatterns, LookupStep, routeVars
<1>2. CASE untested = <<>>
  <2>1. at' = "events" /\ UNCHANGED <<untested, effect>>
    BY <1>2 DEF LookUpPatterns, Refuse
  <2> QED
    BY <1>1, <2>1, LookupElsewhere DEF LookupInv, LookupTyped
<1>3. CASE untested # <<>> /\ item.pattern \in Matches[c]
  <2>1. at' = "running" /\ untested' = <<>> /\ effect' = [effect EXCEPT ![c] = item.effect]
    BY <1>3 DEF LookUpPatterns, Connect
  <2>2. item \in Item
    BY <1>3 DEF LookupInv, LookupTyped
  <2>3. item.effect \in Effects
    BY <2>2 DEF Item
  <2> QED
    BY <1>1, <2>1, <2>3 DEF LookupInv, LookupTyped, Noted
<1>4. CASE untested # <<>> /\ item.pattern \notin Matches[c]
  <2>1. untested' = rest /\ UNCHANGED <<at, busy, seen, effect>>
    BY <1>4 DEF LookUpPatterns
  <2>2. rest \in Seq(Item)
    BY <1>4 DEF LookupInv, LookupTyped
  <2>3. LastMatch(c, rest) = LastMatch(c, untested)
    BY <1>4, LastMatchByItem DEF LookupInv, LookupTyped
  <2>4. Noted'
    <3>1. LastMatch(busy, untested)' = LastMatch(c, rest)
      BY <1>1, <2>1 DEF LastMatch
    <3>2. None \in seen.path /\ LastMatch(c, rest) \in seen.pattern
      BY <1>1, <2>3 DEF LookupInv, Noted
    <3>3. at' = "patterns" /\ seen' = seen
      BY <1>1, <2>1
    <3> QED
      BY <3>1, <3>2, <3>3 DEF Noted
  <2> QED
    BY <1>1, <2>1, <2>2, <2>4 DEF LookupInv, LookupTyped
<1> QED
  BY <1>2, <1>3, <1>4

LEMMA LookupServer ==
  ASSUME LookupInv, StepServer
  PROVE  LookupInv'
<1>1. CASE Check
  BY <1>1, LookupElsewhere DEF Check, routeVars, genVars, LookupInv, LookupTyped
<1>2. CASE ReadDone
  BY <1>2, LookupElsewhere DEF ReadDone, routeVars, genVars, LookupInv, LookupTyped
<1>3. ASSUME NEW c \in Conns, Flush(c) PROVE LookupInv'
  <2>1. UNCHANGED <<routes, reRoutes, untested, seen>> /\ at = "events"
    BY <1>3 DEF Flush, routeVars
  <2>2. CASE Drop(c)
    BY <2>1, <2>2, LookupDrop
  <2>3. CASE UNCHANGED <<at, busy, effect>>
    BY <2>1, <2>3, LookupAside
  <2> QED
    BY <1>3, <2>2, <2>3 DEF Flush, genVars
<1>4. ASSUME NEW c \in Conns, Read(c) PROVE LookupInv'
  <2>1. CASE TakeFrame(c)
    BY <1>4, <2>1, LookupTakeFrame DEF Read
  <2>2. CASE Drop(c) /\ UNCHANGED <<routeVars, untested>>
    BY <1>4, <2>2, LookupDrop DEF Read, routeVars
  <2> QED
    BY <1>4, <2>1, <2>2 DEF Read
<1>5. ASSUME NEW c \in Conns, ReadMore(c) PROVE LookupInv'
  BY <1>5, LookupTakeFrame DEF ReadMore
<1> QED
  BY <1>1, <1>2, <1>3, <1>4, <1>5, LookupPathStep, LookupPatternsStep DEF StepServer

LEMMA LookupSideEffect ==
  ASSUME LookupInv, NEW c \in Conns, StepSideEffect(c) \/ Thrown(c)
  PROVE  LookupInv'
<1>1. UNCHANGED <<routes, reRoutes, untested>>
  BY DEF StepSideEffect, YieldsOrReturns, Raises, Thrown, Advanced, routeVars
<1>2. at' \in {"events", "parse"}
  BY DEF StepSideEffect, YieldsOrReturns, Raises, Thrown, Advanced, FrameDone, Forget
<1>3. effect' \in [Conns -> Effects \cup {None}]
  BY DEF StepSideEffect, YieldsOrReturns, Raises, Thrown, Advanced, Forget, LookupInv, LookupTyped
<1> QED
  BY <1>1, <1>2, <1>3, LookupElsewhere

LEMMA LookupStepKeeps == LookupInv /\ [Next]_vars => LookupInv'
<1> SUFFICES ASSUME LookupInv, [Next]_vars PROVE LookupInv'
  OBVIOUS
<1>1. ASSUME NEW c \in Conns, Dial(c) \/ SendData(c) \/ HangUp(c) PROVE LookupInv'
  BY <1>1, LookupAside DEF Dial, SendData, HangUp, ClientStep, routeVars, serveVars, genVars
<1>2. CASE Start
  BY <1>2, LookupElsewhere DEF Start, routeVars, genVars, LookupInv, LookupTyped
<1>3. CASE CallStop \/ StepStop \/ ThrownByStop
  <2>1. StopStep
    BY <1>3 DEF CallStop, StepStop, ThrownByStop, Joined, StopEnds, CloseNext
  <2> QED
    BY <2>1, LookupAside DEF StopStep, routeVars, serveVars
<1>4. CASE UNCHANGED vars
  BY <1>4, LookupAside DEF vars, routeVars, serveVars, genVars
<1> QED
  BY <1>1, <1>2, <1>3, <1>4, LookupRoutes, LookupServer, LookupSideEffect DEF Next

\* A step at which a lookup ends is one of the lookup itself.
LEMMA LookupEnds ==
  ASSUME [Next]_vars, NEW c \in Conns, busy = c, at \in {"path", "patterns"},
         at' \notin {"path", "patterns"}
  PROVE  LookUpPath(c) \/ LookUpPatterns(c)
<1>1. ~UNCHANGED at
  OBVIOUS
<1>2. ~ChangeRoutes
  BY <1>1 DEF ChangeRoutes, Add, Set, Remove, Clear, RouteStep, serveVars
<1>3. ~(CallStop \/ StepStop \/ ThrownByStop)
  BY <1>1 DEF CallStop, StepStop, ThrownByStop, Joined, StopEnds, CloseNext, StopStep, serveVars
<1>4. \A d \in Conns : ~(Dial(d) \/ SendData(d) \/ HangUp(d))
  BY <1>1 DEF Dial, SendData, HangUp, ClientStep, serveVars
<1>5. \A d \in Conns : ~(StepSideEffect(d) \/ Thrown(d))
  BY DEF StepSideEffect, YieldsOrReturns, Raises, Thrown
<1>6. ~Start /\ ~Check /\ ~ReadDone /\ \A d \in Conns : ~Flush(d) /\ ~Read(d) /\ ~ReadMore(d)
  BY DEF Start, Check, ReadDone, Flush, Read, ReadMore
<1>7. \A d \in Conns : LookUpPath(d) \/ LookUpPatterns(d) => d = c
  BY DEF LookUpPath, LookUpPatterns
<1>8. ~UNCHANGED vars
  BY <1>1 DEF vars, serveVars
<1> QED
  BY <1>2, <1>3, <1>4, <1>5, <1>6, <1>7, <1>8 DEF Next, StepServer

\* What a lookup finds, or finds missing, in each of the two tables stood there at some
\* moment of the lookup, for any routes and any changes to them meanwhile.
THEOREM LookupJustifiedCorrect == Spec => LookupJustified
<1> DEFINE A == \A c \in Conns :
                  busy = c /\ at \in {"path", "patterns"} /\ at' \notin {"path", "patterns"} =>
                    LET found == IF at' = "running" THEN effect'[c] ELSE None
                    IN \/ at = "path" /\ found \in seen.path
                       \/ at = "patterns" /\ None \in seen.path /\ found \in seen.pattern
<1>1. ASSUME LookupInv, [Next]_vars PROVE [A]_vars
  <2> SUFFICES ASSUME NEW c \in Conns, busy = c, at \in {"path", "patterns"},
                      at' \notin {"path", "patterns"}
               PROVE  LET found == IF at' = "running" THEN effect'[c] ELSE None
                      IN \/ at = "path" /\ found \in seen.path
                         \/ at = "patterns" /\ None \in seen.path /\ found \in seen.pattern
    OBVIOUS
  <2>1. CASE LookUpPath(c)
    <3>1. at = "path" /\ at' = "running" /\ effect' = [effect EXCEPT ![c] = routes[PathOf[c]]]
      BY <2>1 DEF LookUpPath, Connect
    <3>2. effect'[c] = routes[PathOf[c]]
      BY <1>1, <3>1 DEF LookupInv, LookupTyped
    <3> QED
      BY <1>1, <3>1, <3>2 DEF LookupInv, Noted
  <2>2. CASE LookUpPatterns(c)
    <3> DEFINE item == untested[Len(untested)]
    <3>1. at = "patterns" /\ None \in seen.path /\ LastMatch(c, untested) \in seen.pattern
      BY <1>1, <2>2 DEF LookUpPatterns, LookupInv, Noted
    <3>2. CASE untested = <<>>
      <4>1. at' = "events"
        BY <2>2, <3>2 DEF LookUpPatterns, Refuse
      <4>2. LastMatch(c, untested) = None
        BY <3>2, NothingMatches
      <4> QED
        BY <3>1, <4>1, <4>2
    <3>3. CASE untested # <<>>
      <4>1. item.pattern \in Matches[c] /\ Connect(c, item.effect)
        BY <2>2, <3>1, <3>3 DEF LookUpPatterns
      <4>2. at' = "running" /\ effect'[c] = item.effect
        BY <1>1, <4>1 DEF Connect, LookupInv, LookupTyped
      <4>3. LastMatch(c, untested) = item.effect
        BY <1>1, <3>3, <4>1, LastMatchByItem DEF LookupInv, LookupTyped
      <4> QED
        BY <3>1, <4>2, <4>3
    <3> QED
      BY <3>2, <3>3
  <2> QED
    BY <1>1, <2>1, <2>2, LookupEnds
<1> QED
  BY <1>1, LookupInit, LookupStepKeeps, PTL DEF Spec, LookupJustified

(***************************************************************************)
(* What a client gets                                                      *)
(***************************************************************************)
Incoming == {"handshake", "data", "close", "eof"}
Outgoing == {"accept", "message", "close"}

\* The server has taken the handshake of c, if only to forget the connection since.
Known(c) == c \in connections \cup shut

LineTypes ==
  /\ connections \subseteq Conns /\ shut \subseteq Conns /\ closed \subseteq Conns
  /\ held \subseteq Conns /\ left \subseteq Conns
  /\ inbox \in [Conns -> Seq(Incoming)] /\ sendq \in [Conns -> Seq(Outgoing)]
  /\ owed \in [Conns -> Nat]
  /\ heard \in [Conns -> {"nothing", "accept", "close"}]
  /\ \A c \in writers \cup toClose : c \in Conns /\ Known(c)
  /\ busy \in Conns => Known(busy)
  /\ at = "throwing" => busy \in shut
  /\ at \in {"unstarted", "events"} => busy = None

\* The server thread looks up the route of c, or advances its generator.
Serving(c) == busy = c /\ at \in {"path", "patterns", "running"}

\* Before the handshake is taken there is nothing else.
Fresh(c) ==
  ~Known(c) => /\ inbox[c] \in {<<>>, <<"handshake">>} /\ sendq[c] = <<>> /\ owed[c] = 0
               /\ heard[c] = "nothing" /\ c \notin closed \cup held

\* A handshake comes once, and the end of the stream, or a close frame, last.
Inbound(c) ==
  \A i \in DOMAIN inbox[c] :
    /\ inbox[c][i] = "handshake" => ~Known(c)
    /\ inbox[c][i] \in {"close", "eof"} => i = Len(inbox[c]) /\ c \in left

\* As long as the socket is open, what the client is owed is queued, and a close frame comes
\* last: once close() was called, nothing can be sent any more.
Outbound(c) ==
  c \notin shut =>
    /\ owed[c] = MessagesIn(sendq[c])
    /\ \A i \in DOMAIN sendq[c] : sendq[c][i] = "close" => i = Len(sendq[c]) /\ c \in closed
    /\ c \in writers => sendq[c] # <<>>
\* For the generator of a closed connection has returned or there is none, unless it was the
\* client that closed, and that sends no data to advance it with.
Silenced(c) ==
  c \in closed \ shut =>
    /\ ~Serving(c)
    /\ \/ ~Suspended(c) \/ c \notin held
       \/ inbox[c] = <<>> /\ c \in left
HeldAfterLookup(c) == busy = c /\ at \in {"path", "patterns"} => c \notin held

\* A connection that select() found readable has frames, until the server thread is at it.
Readable(c) == c \in readers \ shut => inbox[c] # <<>> /\ busy # c

\* The server thread shuts the socket as soon as it has written a close frame, and does not
\* come back to the connection.
Told(c) == heard[c] = "close" => c \in shut /\ owed[c] = 0 /\ ~(busy = c /\ at = "parse") /\ ~Serving(c)

Line(c) ==
  /\ Fresh(c) /\ Inbound(c) /\ Outbound(c) /\ Silenced(c) /\ HeldAfterLookup(c)
  /\ Readable(c) /\ Told(c)

LineInv == LineTypes /\ \A c \in Conns : Line(c)

LEMMA NoMessages ==
  ASSUME NEW s, \A i \in DOMAIN s : s[i] # "message"
  PROVE  MessagesIn(s) = 0
<1>1. {i \in DOMAIN s : s[i] = "message"} = {}
  OBVIOUS
<1> QED
  BY <1>1, FS_EmptySet DEF MessagesIn

LEMMA OneMore ==
  ASSUME NEW s \in Seq(Outgoing), NEW e \in Outgoing
  PROVE  /\ MessagesIn(s) \in Nat
         /\ MessagesIn(Append(s, e)) = IF e = "message" THEN MessagesIn(s) + 1 ELSE MessagesIn(s)
<1> DEFINE A == {i \in DOMAIN s : s[i] = "message"}
           B == {i \in DOMAIN Append(s, e) : Append(s, e)[i] = "message"}
           n == Len(s)
<1>1. n \in Nat /\ DOMAIN s = 1..n
  BY LenProperties
<1>2. /\ DOMAIN Append(s, e) = 1..(n + 1)
      /\ \A i \in 1..n : Append(s, e)[i] = s[i]
      /\ Append(s, e)[n + 1] = e
  BY <1>1, AppendProperties, LenProperties
<1>3. IsFiniteSet(A) /\ n + 1 \notin A
  <2>1. IsFiniteSet(1..n) /\ A \subseteq 1..n
    BY <1>1, FS_Interval
  <2>2. n + 1 \notin 1..n
    BY <1>1
  <2> HIDE DEF A
  <2>3. IsFiniteSet(A)
    BY <2>1, FS_Subset
  <2> QED
    BY <2>1, <2>2, <2>3
<1>4. B = IF e = "message" THEN A \cup {n + 1} ELSE A
  BY <1>1, <1>2
<1> HIDE DEF A, B
<1>5. /\ Cardinality(A) \in Nat
      /\ Cardinality(B) = IF e = "message" THEN Cardinality(A) + 1 ELSE Cardinality(A)
  BY <1>3, <1>4, FS_CardinalityType, FS_AddElement
<1> QED
  BY <1>5 DEF MessagesIn, A, B

LEMMA LineInit == Init => LineInv
<1> SUFFICES ASSUME Init PROVE LineInv
  OBVIOUS
<1>1. LineTypes
  BY WebsocketServiceAssumption DEF Init, LineTypes
<1>2. MessagesIn(<<>>) = 0
  BY NoMessages
<1>3. \A c \in Conns : Line(c)
  BY <1>2 DEF Init, Line, Fresh, Inbound, Outbound, Silenced, HeldAfterLookup, Readable, Told, Known, Serving
<1> QED
  BY <1>1, <1>3 DEF LineInv

\* The part of the state that belongs to c.
OfConn(c) ==
  <<c \in connections, c \in shut, c \in closed, c \in held, c \in left, inbox[c], sendq[c],
    owed[c], heard[c], gen[c]>>

\* Steps that leave a connection alone, and that are none of the server thread at it.
LEMMA LineAside ==
  ASSUME NEW c, Line(c), OfConn(c)' = OfConn(c),
         c \in writers' => c \in writers, c \in readers' => c \in readers,
         busy' = c => busy = c /\ at' = at
  PROVE  Line(c)'
BY DEF OfConn, Line, Fresh, Inbound, Outbound, Silenced, HeldAfterLookup, Readable, Told, Known,
       Serving, Suspended

\* So a step on one connection is a matter of that connection.
LEMMA LineOf ==
  ASSUME LineInv, NEW c \in Conns, LineTypes', Line(c)',
         \A d \in Conns : d # c => OfConn(d)' = OfConn(d),
         writers' \subseteq writers, readers' \subseteq readers,
         busy' \in {c, None} \/ UNCHANGED <<busy, at>>
  PROVE  LineInv'
<1>1. ASSUME NEW d \in Conns, d # c PROVE Line(d)'
  <2>1. busy' = d => busy = d /\ at' = at
    BY <1>1, WebsocketServiceAssumption
  <2>2. Line(d) /\ OfConn(d)' = OfConn(d)
    BY <1>1 DEF LineInv
  <2> QED
    BY <2>1, <2>2, LineAside
<1> QED
  BY <1>1 DEF LineInv

LEMMA LineKept ==
  ASSUME LineInv, UNCHANGED <<at, busy, writers, readers, toClose, socketVars, genVars, clientVars>>
  PROVE  LineInv'
<1>1. \A c \in Conns : OfConn(c)' = OfConn(c)
  BY DEF OfConn, socketVars, genVars, clientVars
<1>2. \A c \in Conns : Line(c)'
  BY <1>1, LineAside DEF LineInv
<1>3. LineTypes'
  BY DEF LineInv, LineTypes, Known, socketVars, genVars, clientVars
<1> QED
  BY <1>2, <1>3 DEF LineInv

\* The server thread leaves what it was at.
LEMMA LineLeft ==
  ASSUME LineInv, busy' = None, at' \in {"events", "ended"}, writers' = writers, readers' = readers,
         UNCHANGED <<toClose, socketVars, genVars, clientVars>>
  PROVE  LineInv'
<1>1. \A c \in Conns : OfConn(c)' = OfConn(c)
  BY DEF OfConn, socketVars, genVars, clientVars
<1>2. \A c \in Conns : Line(c)'
  BY <1>1, LineAside, WebsocketServiceAssumption DEF LineInv
<1>3. LineTypes'
  BY WebsocketServiceAssumption DEF LineInv, LineTypes, Known, socketVars, genVars, clientVars
<1> QED
  BY <1>2, <1>3 DEF LineInv

LEMMA LineRound ==
  ASSUME LineInv, Check
  PROVE  LineInv'
<1>1. CASE stopEvent
  <2>1. busy = None
    BY DEF Check, LineInv, LineTypes
  <2> QED
    BY <1>1, <2>1, LineLeft DEF Check, stopVars
<1>2. CASE ~stopEvent
  <2>1. /\ at = "events" /\ at' = at /\ busy' = busy /\ busy = None
        /\ writers' = {c \in connections : sendq[c] # <<>>}
        /\ readers' = {c \in Conns : inbox[c] # <<>>}
        /\ UNCHANGED <<toClose, socketVars, genVars, clientVars>>
    BY <1>2 DEF Check, LineInv, LineTypes, stopVars
  <2>2. ASSUME NEW c \in Conns PROVE Line(c)'
    <3>1. Line(c)
      BY DEF LineInv
    <3> QED
      BY <2>1, <3>1, WebsocketServiceAssumption
         DEF Line, Fresh, Inbound, Outbound, Silenced, HeldAfterLookup, Readable, Told, Known,
             Serving, Suspended, socketVars, genVars, clientVars
  <2>3. LineTypes'
    BY <2>1 DEF LineInv, LineTypes, Known, socketVars, genVars, clientVars
  <2> QED
    BY <2>2, <2>3 DEF LineInv
<1> QED
  BY <1>1, <1>2

\* A connection is dropped: nothing comes of it any more.
LEMMA LineDrop ==
  ASSUME GenTyped, LineInv, NEW c \in Conns, Drop(c),
         writers' \subseteq writers, readers' \subseteq readers,
         UNCHANGED <<toClose, closed, left>>,
         owed' \in [Conns -> Nat], heard' \in [Conns -> {"nothing", "accept", "close"}],
         \A d \in Conns : d # c => owed'[d] = owed[d] /\ heard'[d] = heard[d],
         heard'[c] = "close" => owed'[c] = 0
  PROVE  LineInv'
<1>1. /\ shut' = shut \cup {c} /\ held' = held \ {c}
      /\ inbox' = [inbox EXCEPT ![c] = <<>>] /\ sendq' = [sendq EXCEPT ![c] = <<>>]
      /\ connections \subseteq connections' \cup {c} /\ connections' \subseteq connections
      /\ \/ at' = "throwing" /\ busy' = c
         \/ at' = "events" /\ busy' = None
      /\ \A d \in Conns : d # c => gen'[d] = gen[d]
  BY DEF Drop, GiveUp, Forget, GenTyped
<1>2. inbox'[c] = <<>> /\ c \in shut'
  BY <1>1 DEF LineInv, LineTypes
<1>3. LineTypes'
  <2>1. \A d : Known(d) => Known(d)'
    BY <1>1 DEF Known
  <2> QED
    BY <1>1, <2>1, WebsocketServiceAssumption, EmptySeq DEF LineInv, LineTypes, Known
<1>4. Line(c)'
  BY <1>1, <1>2 DEF Line, Fresh, Inbound, Outbound, Silenced, HeldAfterLookup, Readable, Told,
                    Known, Serving
<1>5. ASSUME NEW d \in Conns, d # c PROVE OfConn(d)' = OfConn(d)
  BY <1>1, <1>5 DEF OfConn, LineInv, LineTypes
<1> QED
  BY <1>1, <1>3, <1>4, <1>5, LineOf

\* A frame that is taken leaves those behind it.
LEMMA FrameTaken ==
  ASSUME LineTypes, NEW c \in Conns, Inbound(c), inbox[c] # <<>>
  PROVE  /\ Head(inbox[c]) \in Incoming /\ Tail(inbox[c]) \in Seq(Incoming)
         /\ Head(inbox[c]) = "handshake" => ~Known(c)
         /\ Head(inbox[c]) \in {"close", "eof"} => Tail(inbox[c]) = <<>> /\ c \in left
         /\ \A i \in DOMAIN Tail(inbox[c]) :
              /\ Tail(inbox[c])[i] = "handshake" => ~Known(c)
              /\ Tail(inbox[c])[i] \in {"close", "eof"} => i = Len(Tail(inbox[c])) /\ c \in left
<1> DEFINE frames == inbox[c]
           rest == Tail(frames)
<1>1. frames \in Seq(Incoming) /\ frames # <<>>
  BY DEF LineTypes
<1>2. /\ Head(frames) \in Incoming /\ Head(frames) = frames[1]
      /\ rest \in Seq(Incoming) /\ Len(rest) = Len(frames) - 1
      /\ \A i \in 1..Len(rest) : rest[i] = frames[i + 1]
  BY <1>1, HeadTailProperties
<1>3. /\ Len(frames) \in Nat /\ Len(frames) >= 1 /\ DOMAIN frames = 1..Len(frames)
      /\ Len(rest) \in Nat /\ DOMAIN rest = 1..Len(rest)
      /\ rest = <<>> <=> Len(rest) = 0
  <2>1. /\ Len(frames) \in Nat /\ DOMAIN frames = 1..Len(frames)
        /\ Len(rest) \in Nat /\ DOMAIN rest = 1..Len(rest)
    BY <1>1, <1>2, LenProperties
  <2>2. Len(frames) # 0 /\ (rest = <<>> <=> Len(rest) = 0)
    BY <1>1, <1>2, EmptySeq
  <2> HIDE DEF frames, rest
  <2> QED
    BY <2>1, <2>2
<1>4. /\ \A i \in 1..Len(frames) :
           /\ frames[i] = "handshake" => ~Known(c)
           /\ frames[i] \in {"close", "eof"} => i = Len(frames) /\ c \in left
  BY <1>3 DEF Inbound
<1> HIDE DEF rest, frames
<1>5. 1 \in 1..Len(frames) /\ \A i \in 1..Len(rest) : i + 1 \in 1..Len(frames)
  BY <1>2, <1>3
<1>6. Head(frames) \in {"close", "eof"} => rest = <<>> /\ c \in left
  BY <1>2, <1>3, <1>4, <1>5
<1>7. ASSUME NEW i \in DOMAIN rest
      PROVE  /\ rest[i] = "handshake" => ~Known(c)
             /\ rest[i] \in {"close", "eof"} => i = Len(rest) /\ c \in left
  <2>1. i \in 1..Len(rest) /\ rest[i] = frames[i + 1] /\ i + 1 \in 1..Len(frames)
    BY <1>2, <1>3, <1>5
  <2>2. rest[i] \in {"close", "eof"} => i + 1 = Len(frames)
    BY <1>4, <2>1
  <2> QED
    BY <1>2, <1>3, <1>4, <2>1, <2>2
<1> QED
  BY <1>2, <1>4, <1>5, <1>6, <1>7 DEF rest, frames

\* A close frame is queued, behind what there is.
LEMMA CloseQueued ==
  ASSUME LineTypes, NEW c \in Conns, NEW queue \in Seq(Outgoing), c \notin closed,
         \A i \in DOMAIN queue : queue[i] # "close"
  PROVE  /\ QueueClose(c, queue) \in Seq(Outgoing)
         /\ MessagesIn(QueueClose(c, queue)) = MessagesIn(queue)
         /\ QueueClose(c, queue) # <<>>
         /\ \A i \in DOMAIN QueueClose(c, queue) :
              QueueClose(c, queue)[i] = "close" => i = Len(QueueClose(c, queue))
<1>1. QueueClose(c, queue) = Append(queue, "close")
  BY DEF QueueClose
<1>2. "close" \in Outgoing /\ "close" # "message"
  BY DEF Outgoing
<1>3. MessagesIn(Append(queue, "close")) = MessagesIn(queue)
  BY <1>2, OneMore
<1>4. /\ Append(queue, "close") \in Seq(Outgoing) /\ Append(queue, "close") # <<>>
      /\ Len(Append(queue, "close")) = Len(queue) + 1 /\ Len(queue) \in Nat
      /\ DOMAIN queue = 1..Len(queue)
      /\ \A i \in 1..Len(queue) : Append(queue, "close")[i] = queue[i]
  BY <1>2, AppendProperties, LenProperties
<1>5. DOMAIN Append(queue, "close") = 1..(Len(queue) + 1)
  BY <1>4, LenProperties
<1>6. \A i \in 1..(Len(queue) + 1) : i \in 1..Len(queue) \/ i = Len(queue) + 1
  BY <1>4
<1> QED
  BY <1>1, <1>3, <1>4, <1>5, <1>6

LEMMA LineTakeFrame ==
  ASSUME GenTyped, LineInv, NEW c \in Conns, TakeFrame(c), inbox[c] # <<>>,
         \/ at = "events" /\ c \notin shut
         \/ at = "parse" /\ busy = c,
         readers' = readers \ {c} \/ (readers' = readers /\ busy = c)
  PROVE  LineInv'
<1> DEFINE frame == Head(inbox[c])
           rest == Tail(inbox[c])
<1>1. LineTypes /\ Line(c) /\ Fresh(c) /\ Inbound(c) /\ Outbound(c) /\ Silenced(c) /\ Told(c)
  BY DEF LineInv, Line
<1>2. /\ frame \in Incoming /\ rest \in Seq(Incoming)
      /\ frame = "handshake" => ~Known(c)
      /\ frame \in {"close", "eof"} => rest = <<>> /\ c \in left
      /\ \A i \in DOMAIN rest :
           /\ rest[i] = "handshake" => ~Known(c)
           /\ rest[i] \in {"close", "eof"} => i = Len(rest) /\ c \in left
  BY <1>1, FrameTaken
<1>3. UNCHANGED <<writers, toClose, owed, left, heard>> /\ readers' \subseteq readers
  BY DEF TakeFrame, stopVars, clientVars
<1>4. heard[c] # "close"
  BY <1>1, WebsocketServiceAssumption DEF LineTypes, Told
<1>5. c \in readers' => c \in shut
  BY <1>1 DEF Line, Readable
<1>6. frame = "handshake" => rest = <<>>
  <2>1. frame = "handshake" => inbox[c] = <<"handshake">>
    BY <1>1, <1>2 DEF Fresh
  <2>2. Tail(<<"handshake">>) = <<>>
    OBVIOUS
  <2> QED
    BY <2>1, <2>2
<1> DEFINE Taken == inbox' = [inbox EXCEPT ![c] = rest]
<1>7. Taken => inbox'[c] = rest /\ \A d \in Conns : d # c => inbox'[d] = inbox[d]
  BY <1>1 DEF LineTypes
<1>8. CASE /\ frame = "handshake" /\ ~listening /\ Taken /\ FrameDone(c, rest)
           /\ UNCHANGED <<connections, sendq, shut, closed, held, gen>>
  <2>1. rest = <<>> /\ inbox'[c] = <<>>
    BY <1>7, <1>8, <1>6
  <2>2. at' = "events" /\ busy' = None
    BY <1>8, <2>1 DEF FrameDone
  <2>3. LineTypes'
    BY <1>1, <1>2, <1>3, <1>8, <2>2, WebsocketServiceAssumption DEF LineTypes, Known
  <2>4. Line(c)'
    BY <1>1, <1>2, <1>3, <1>5, <1>8, <2>1, <2>2
       DEF Line, Fresh, Inbound, Outbound, Silenced, HeldAfterLookup, Readable, Told, Known,
           Serving, Suspended
  <2> QED
    BY <1>3, <1>7, <1>8, <2>2, <2>3, <2>4, LineOf DEF OfConn
<1>9. CASE /\ frame = "handshake" /\ Taken
           /\ connections' = connections \cup {c}
           /\ sendq' = [sendq EXCEPT ![c] = <<"accept">>]
           /\ at' = "path" /\ busy' = c
           /\ UNCHANGED <<shut, closed, held, gen>>
  <2>1. inbox'[c] = <<>> /\ owed[c] = 0 /\ c \notin closed \cup held
    <3>1. rest = <<>> /\ ~Known(c)
      BY <1>2, <1>9, <1>6
    <3>2. inbox'[c] = <<>>
      BY <1>7, <1>9, <3>1
    <3> QED
      BY <1>1, <3>1, <3>2 DEF Fresh
  <2>2. MessagesIn(<<"accept">>) = 0
    BY NoMessages
  <2>3. sendq'[c] = <<"accept">> /\ \A d \in Conns : d # c => sendq'[d] = sendq[d]
    BY <1>1, <1>9 DEF LineTypes
  <2>4. LineTypes'
    <3>1. <<"accept">> \in Seq(Outgoing)
      BY DEF Outgoing
    <3>2. sendq' \in [Conns -> Seq(Outgoing)] /\ inbox' \in [Conns -> Seq(Incoming)]
      BY <1>1, <1>2, <1>9, <3>1 DEF LineTypes
    <3> QED
      BY <1>1, <1>3, <1>9, <3>2, WebsocketServiceAssumption DEF LineTypes, Known
  <2>5. Line(c)'
    <3>1. Outbound(c)'
      BY <1>3, <2>1, <2>2, <2>3 DEF Outbound
    <3>2. Fresh(c)' /\ Inbound(c)' /\ Silenced(c)' /\ HeldAfterLookup(c)' /\ Told(c)'
      BY <1>3, <1>4, <1>9, <2>1 DEF Fresh, Inbound, Silenced, HeldAfterLookup, Told, Known
    <3>3. Readable(c)'
      BY <1>5, <1>9 DEF Readable
    <3> QED
      BY <3>1, <3>2, <3>3 DEF Line
  <2>6. ASSUME NEW d \in Conns, d # c PROVE OfConn(d)' = OfConn(d)
    BY <1>3, <1>7, <1>9, <2>3, <2>6 DEF OfConn
  <2> QED
    BY <1>3, <1>9, <2>4, <2>5, <2>6, LineOf
<1>10. CASE /\ frame = "data" /\ c \in held /\ gen[c] = "suspended" /\ Taken
           /\ gen' = [gen EXCEPT ![c] = "running"]
           /\ at' = "running" /\ busy' = c
           /\ UNCHANGED <<connections, sendq, shut, closed, held>>
  <2>1. Known(c)
    BY <1>1, <1>10 DEF Fresh
  <2>2. c \notin closed \ shut
    BY <1>1, <1>10 DEF Silenced, Suspended
  <2>3. LineTypes'
    BY <1>1, <1>2, <1>3, <1>10, <2>1 DEF LineTypes, Known
  <2>4. Line(c)'
    <3>1. Inbound(c)'
      BY <1>2, <1>3, <1>7, <1>10 DEF Inbound, Known
    <3>2. Fresh(c)' /\ Outbound(c)' /\ Silenced(c)' /\ HeldAfterLookup(c)' /\ Told(c)'
      BY <1>1, <1>3, <1>4, <1>10, <2>1, <2>2
         DEF Fresh, Outbound, Silenced, HeldAfterLookup, Told, Known
    <3>3. Readable(c)'
      BY <1>5, <1>10 DEF Readable
    <3> QED
      BY <3>1, <3>2, <3>3 DEF Line
  <2>5. ASSUME NEW d \in Conns, d # c PROVE OfConn(d)' = OfConn(d)
    BY <1>3, <1>7, <1>10, <2>5 DEF OfConn, GenTyped
  <2> QED
    BY <1>3, <1>10, <2>3, <2>4, <2>5, LineOf
<1>11. CASE /\ frame = "close" \/ (frame = "data" /\ c \in held /\ gen[c] = "finished")
            /\ Taken /\ FrameDone(c, rest)
            /\ sendq' = [sendq EXCEPT ![c] = QueueClose(c, @)] /\ closed' = closed \cup {c}
            /\ UNCHANGED <<connections, shut, held, gen>>
  <2>1. Known(c)
    <3>1. frame = "data" /\ c \in held => Known(c)
      BY <1>1 DEF Fresh
    <3>2. ASSUME ~Known(c) PROVE frame = "handshake"
      <4>1. inbox[c] = <<"handshake">>
        BY <1>1, <3>2 DEF Fresh
      <4> QED
        BY <4>1
    <3> QED
      BY <1>11, <3>1, <3>2
  <2>2. sendq'[c] = QueueClose(c, sendq[c]) /\ \A d \in Conns : d # c => sendq'[d] = sendq[d]
    BY <1>1, <1>11 DEF LineTypes
  <2>3. c \notin closed /\ c \notin shut => \A i \in DOMAIN sendq[c] : sendq[c][i] # "close"
    BY <1>1 DEF Outbound
  <2>4. /\ QueueClose(c, sendq[c]) \in Seq(Outgoing)
        /\ c \notin shut =>
             /\ MessagesIn(QueueClose(c, sendq[c])) = MessagesIn(sendq[c])
             /\ sendq[c] # <<>> => QueueClose(c, sendq[c]) # <<>>
             /\ \A i \in DOMAIN QueueClose(c, sendq[c]) :
                  QueueClose(c, sendq[c])[i] = "close" => i = Len(QueueClose(c, sendq[c]))
    <3>1. sendq[c] \in Seq(Outgoing)
      BY <1>1 DEF LineTypes
    <3>2. CASE c \in closed
      BY <1>1, <3>1, <3>2 DEF QueueClose, Outbound
    <3>3. CASE c \notin closed /\ c \notin shut
      BY <1>1, <2>3, <3>1, <3>3, CloseQueued
    <3>4. CASE c \notin closed /\ c \in shut
      BY <3>1, <3>4, AppendProperties DEF QueueClose, Outgoing
    <3> QED
      BY <3>2, <3>3, <3>4
  <2>5. \/ at' = "parse" /\ busy' = c
        \/ at' = "events" /\ busy' = None
    BY <1>11 DEF FrameDone
  <2>6. LineTypes'
    <3>1. sendq' \in [Conns -> Seq(Outgoing)] /\ inbox' \in [Conns -> Seq(Incoming)]
      BY <1>1, <1>2, <1>11, <2>4 DEF LineTypes
    <3> QED
      BY <1>1, <1>3, <1>11, <2>1, <2>5, <3>1, WebsocketServiceAssumption DEF LineTypes, Known
  <2>7. Line(c)'
    <3>1. Inbound(c)'
      BY <1>2, <1>3, <1>7, <1>11 DEF Inbound, Known
    <3>2. Fresh(c)' /\ HeldAfterLookup(c)' /\ Told(c)'
      BY <1>3, <1>4, <1>11, <2>1, <2>5 DEF Fresh, HeldAfterLookup, Told, Known
    <3>3. Outbound(c)'
      <4>1. c \notin shut' => owed'[c] = MessagesIn(sendq'[c])
        BY <1>1, <1>3, <1>11, <2>2, <2>4 DEF Outbound
      <4>2. c \in writers' /\ c \notin shut' => sendq'[c] # <<>>
        BY <1>1, <1>3, <1>11, <2>2, <2>4 DEF Outbound
      <4>3. c \notin shut' =>
              \A i \in DOMAIN sendq'[c] : sendq'[c][i] = "close" => i = Len(sendq'[c]) /\ c \in closed'
        BY <1>11, <2>2, <2>4
      <4> QED
        BY <4>1, <4>2, <4>3 DEF Outbound
    <3>4. Silenced(c)'
      <4>1. ~Serving(c)'
        BY <2>5 DEF Serving
      <4>2. frame = "close" => inbox'[c] = <<>> /\ c \in left'
        BY <1>2, <1>3, <1>7, <1>11
      <4>3. frame = "data" => ~Suspended(c)'
        BY <1>11 DEF Suspended
      <4> QED
        BY <1>11, <4>1, <4>2, <4>3 DEF Silenced
    <3>5. Readable(c)'
      BY <1>5, <1>11 DEF Readable
    <3> QED
      BY <3>1, <3>2, <3>3, <3>4, <3>5 DEF Line
  <2>8. ASSUME NEW d \in Conns, d # c PROVE OfConn(d)' = OfConn(d)
    BY <1>3, <1>7, <1>11, <2>2, <2>8 DEF OfConn
  <2> QED
    BY <1>3, <2>5, <2>6, <2>7, <2>8, LineOf
<1>12. CASE Drop(c) /\ UNCHANGED closed
  BY <1>1, <1>3, <1>4, <1>12, LineDrop DEF LineTypes
<1> QED
  BY <1>8, <1>9, <1>10, <1>11, <1>12 DEF TakeFrame

LEMMA LineClient ==
  ASSUME LineInv, NEW c \in Conns, Dial(c) \/ SendData(c) \/ HangUp(c)
  PROVE  LineInv'
<1>1. LineTypes /\ Line(c) /\ Fresh(c) /\ Inbound(c)
  BY DEF LineInv, Line
<1>2. UNCHANGED <<at, busy, writers, readers, toClose, connections, sendq, shut, closed, genVars, heard>>
  BY DEF Dial, SendData, HangUp, ClientStep, serveVars, stopVars
<1>3. /\ inbox' \in [Conns -> Seq(Incoming)] /\ left \subseteq left' /\ left' \subseteq left \cup {c}
      /\ \A d \in Conns : d # c => inbox'[d] = inbox[d]
      /\ inbox'[c] # <<>>
      /\ c \in closed /\ c \in left => c \in shut
      /\ ~Known(c) => inbox'[c] = <<"handshake">>
      /\ Inbound(c)'
  <2>1. CASE Dial(c)
    <3>1. inbox' = [inbox EXCEPT ![c] = <<"handshake">>] /\ ~Known(c) /\ left' = left
      BY <2>1 DEF Dial, Known
    <3>2. <<"handshake">> \in Seq(Incoming) /\ <<"handshake">> # <<>>
      BY DEF Incoming
    <3>3. inbox'[c] = <<"handshake">>
      BY <1>1, <3>1 DEF LineTypes
    <3>4. ~Known(c)' /\ \A i \in DOMAIN inbox'[c] : inbox'[c][i] = "handshake"
      BY <1>2, <3>1, <3>3 DEF Known
    <3>5. Inbound(c)'
      BY <3>4 DEF Inbound
    <3> QED
      BY <1>1, <3>1, <3>2, <3>3, <3>5 DEF LineTypes, Fresh
  <2>2. CASE SendData(c) \/ HangUp(c)
    <3>1. PICK frame \in {"data", "close", "eof"} : inbox' = [inbox EXCEPT ![c] = Append(@, frame)]
                                                /\ (frame = "data" \/ left' = left \cup {c})
      BY <2>2 DEF SendData, HangUp
    <3>2. Talks(c) /\ (left' = left \/ left' = left \cup {c})
      BY <2>2 DEF SendData, HangUp
    <3>3. c \notin left /\ c \notin shut /\ Known(c)
      BY <1>1, <3>2 DEF Talks, Fresh
    <3>4. /\ Append(inbox[c], frame) \in Seq(Incoming) /\ Append(inbox[c], frame) # <<>>
          /\ Len(Append(inbox[c], frame)) = Len(inbox[c]) + 1 /\ Len(inbox[c]) \in Nat
          /\ \A i \in 1..Len(inbox[c]) : Append(inbox[c], frame)[i] = inbox[c][i]
          /\ Append(inbox[c], frame)[Len(inbox[c]) + 1] = frame
          /\ DOMAIN inbox[c] = 1..Len(inbox[c])
      <4>1. inbox[c] \in Seq(Incoming) /\ frame \in Incoming
        BY <1>1, <3>1 DEF LineTypes, Incoming
      <4> QED
        BY <4>1, AppendProperties, LenProperties
    <3>5. DOMAIN Append(inbox[c], frame) = 1..(Len(inbox[c]) + 1)
      BY <3>4, LenProperties
    <3>6. inbox'[c] = Append(inbox[c], frame) /\ inbox' \in [Conns -> Seq(Incoming)]
          /\ \A d \in Conns : d # c => inbox'[d] = inbox[d]
      BY <1>1, <3>1, <3>4 DEF LineTypes
    <3>7. \A i \in 1..Len(inbox[c]) : inbox[c][i] \notin {"handshake", "close", "eof"}
      BY <1>1, <3>3, <3>4 DEF Inbound
    <3>8. Inbound(c)'
      <4> SUFFICES ASSUME NEW i \in DOMAIN inbox'[c]
                   PROVE  /\ inbox'[c][i] = "handshake" => ~Known(c)'
                          /\ inbox'[c][i] \in {"close", "eof"} => i = Len(inbox'[c]) /\ c \in left'
        BY DEF Inbound
      <4>1. CASE i \in 1..Len(inbox[c])
        BY <3>4, <3>6, <3>7, <4>1
      <4>2. CASE i = Len(inbox[c]) + 1
        <5>1. inbox'[c][i] = frame
          BY <3>4, <3>6, <4>2
        <5>2. frame # "handshake" /\ (frame \in {"close", "eof"} => c \in left')
          BY <3>1
        <5>3. i = Len(inbox'[c])
          BY <3>4, <3>6, <4>2
        <5> QED
          BY <5>1, <5>2, <5>3
      <4>3. i \in 1..Len(inbox[c]) \/ i = Len(inbox[c]) + 1
        BY <3>4, <3>5, <3>6
      <4> QED
        BY <4>1, <4>2, <4>3
    <3> QED
      BY <3>2, <3>3, <3>4, <3>6, <3>8
  <2> QED
    BY <2>1, <2>2
<1>4. LineTypes'
  BY <1>1, <1>2, <1>3 DEF LineTypes, Known, genVars
<1>5. Line(c)'
  BY <1>1, <1>2, <1>3
     DEF Line, Fresh, Outbound, Silenced, HeldAfterLookup, Readable, Told, Known, Serving,
         Suspended, genVars
<1>6. ASSUME NEW d \in Conns, d # c PROVE OfConn(d)' = OfConn(d)
  BY <1>2, <1>3, <1>6 DEF OfConn, genVars
<1> QED
  BY <1>2, <1>4, <1>5, <1>6, LineOf

\* What is queued reaches the client; behind a close frame the socket is shut.
LEMMA LineFlush ==
  ASSUME GenTyped, LineInv, NEW c \in Conns, Flush(c)
  PROVE  LineInv'
<1>1. LineTypes /\ Line(c) /\ Fresh(c) /\ Outbound(c) /\ Told(c) /\ Known(c)
  BY DEF LineInv, Line, LineTypes, Flush
<1>2. /\ at = "events" /\ busy = None /\ c \in writers
      /\ writers' = writers \ {c} /\ readers' = readers
      /\ UNCHANGED <<toClose, closed, left>>
  BY <1>1 DEF Flush, stopVars, LineTypes
<1>3. CASE c \in shut /\ Drop(c) /\ UNCHANGED <<owed, heard>>
  BY <1>1, <1>2, <1>3, LineDrop DEF LineTypes, Told
<1>4. sendq[c] \in Seq(Outgoing) /\ Len(sendq[c]) \in Nat /\ DOMAIN sendq[c] = 1..Len(sendq[c])
  BY <1>1, LenProperties DEF LineTypes
<1>5. SubSeq(sendq[c], 1, Len(sendq[c])) = sendq[c]
  BY <1>4, SubSeqFull
<1>6. c \notin shut => owed[c] - MessagesIn(sendq[c]) = 0
  BY <1>1 DEF Outbound, LineTypes
<1>7. ASSUME c \notin shut, Deliver(c, sendq[c])
      PROVE  /\ owed' = [owed EXCEPT ![c] = 0]
             /\ heard' = [heard EXCEPT ![c] = heard'[c]]
             /\ heard'[c] = IF sendq[c][Len(sendq[c])] = "close" THEN "close" ELSE "accept"
  BY <1>1, <1>6, <1>7 DEF Deliver, LineTypes
<1>8. CASE c \notin shut /\ \E i \in DOMAIN sendq[c] :
             sendq[c][i] = "close" /\ Deliver(c, SubSeq(sendq[c], 1, i)) /\ Drop(c)
  <2>1. PICK i \in DOMAIN sendq[c] :
             sendq[c][i] = "close" /\ Deliver(c, SubSeq(sendq[c], 1, i)) /\ Drop(c)
    BY <1>8
  <2>2. i = Len(sendq[c])
    BY <1>1, <1>8, <2>1 DEF Outbound
  <2>3. Deliver(c, sendq[c])
    BY <1>5, <2>1, <2>2
  <2>4. owed'[c] = 0 /\ owed' \in [Conns -> Nat]
        /\ heard' \in [Conns -> {"nothing", "accept", "close"}]
        /\ \A d \in Conns : d # c => owed'[d] = owed[d] /\ heard'[d] = heard[d]
    <3>1. /\ owed' = [owed EXCEPT ![c] = 0] /\ heard' = [heard EXCEPT ![c] = heard'[c]]
          /\ heard'[c] \in {"accept", "close"}
      BY <1>7, <1>8, <2>3
    <3>2. owed \in [Conns -> Nat] /\ heard \in [Conns -> {"nothing", "accept", "close"}]
      BY <1>1 DEF LineTypes
    <3> QED
      BY <3>1, <3>2
  <2> QED
    BY <1>2, <2>1, <2>4, LineDrop
<1>9. CASE /\ c \notin shut /\ \A i \in DOMAIN sendq[c] : sendq[c][i] # "close"
           /\ Deliver(c, sendq[c])
           /\ sendq' = [sendq EXCEPT ![c] = <<>>]
           /\ UNCHANGED <<at, busy, connections, shut, inbox, held, effect, gen>>
  <2>1. sendq[c][Len(sendq[c])] # "close"
    <3>1. sendq[c] # <<>>
      BY <1>1, <1>2, <1>9 DEF Outbound
    <3>2. Len(sendq[c]) \in DOMAIN sendq[c]
      BY <1>4, <3>1, EmptySeq
    <3> QED
      BY <1>9, <3>2
  <2>2. owed' = [owed EXCEPT ![c] = 0] /\ heard' = [heard EXCEPT ![c] = "accept"]
    BY <1>7, <1>9, <2>1
  <2>3. sendq'[c] = <<>> /\ owed'[c] = 0 /\ heard'[c] = "accept"
    BY <1>1, <1>9, <2>2 DEF LineTypes
  <2>4. MessagesIn(<<>>) = 0
    BY NoMessages
  <2>5. LineTypes'
    <3>1. <<>> \in Seq(Outgoing)
      BY EmptySeq
    <3> QED
      BY <1>1, <1>2, <1>9, <2>2, <3>1 DEF LineTypes, Known
  <2>6. Line(c)'
    BY <1>1, <1>2, <1>9, <2>3, <2>4
       DEF Line, Fresh, Inbound, Outbound, Silenced, HeldAfterLookup, Readable, Told, Known,
           Serving, Suspended
  <2>7. ASSUME NEW d \in Conns, d # c PROVE OfConn(d)' = OfConn(d)
    BY <1>1, <1>2, <1>9, <2>2, <2>7 DEF OfConn, LineTypes
  <2> QED
    BY <1>2, <1>9, <2>5, <2>6, <2>7, LineOf
<1> QED
  BY <1>3, <1>8, <1>9 DEF Flush

\* The server thread goes on with the connection it is at, and what is queued grows.
LEMMA LineServed ==
  ASSUME GenTyped, LineInv, NEW c \in Conns, busy = c, heard[c] # "close",
         NEW queue \in Seq(Outgoing), sendq' = [sendq EXCEPT ![c] = queue],
         at' \in {"events", "parse", "path", "patterns", "running"},
         busy' = IF at' = "events" THEN None ELSE c,
         UNCHANGED <<writers, readers, toClose, connections, inbox, shut, left, heard>>,
         owed' \in [Conns -> Nat], \A d \in Conns : d # c => owed'[d] = owed[d] /\ gen'[d] = gen[d],
         closed \subseteq closed', closed' \subseteq closed \cup {c},
         held \subseteq held', held' \subseteq held \cup {c},
         Outbound(c)', Silenced(c)', HeldAfterLookup(c)'
  PROVE  LineInv'
<1>1. LineTypes /\ Line(c) /\ Known(c)
  BY DEF LineInv, LineTypes
<1>2. LineTypes'
  BY <1>1, WebsocketServiceAssumption DEF LineTypes, Known
<1>3. Line(c)'
  <2>1. Fresh(c)' /\ Inbound(c)' /\ Told(c)'
    BY <1>1 DEF Line, Fresh, Inbound, Told, Known
  <2>2. Readable(c)'
    BY <1>1 DEF Line, Readable
  <2> QED
    BY <2>1, <2>2 DEF Line
<1>4. ASSUME NEW d \in Conns, d # c PROVE OfConn(d)' = OfConn(d)
  BY <1>1, <1>4 DEF OfConn, LineTypes
<1>5. busy' \in {c, None}
  OBVIOUS
<1> QED
  BY <1>2, <1>3, <1>4, <1>5, LineOf

\* The queue of a connection that the server thread looks up or advances, with what it adds.
LEMMA Queued ==
  ASSUME LineInv, NEW c \in Conns, Serving(c)
  PROVE  /\ sendq[c] \in Seq(Outgoing) /\ owed[c] \in Nat /\ heard[c] # "close"
         /\ c \in closed => c \in shut
         /\ c \notin shut =>
              /\ owed[c] = MessagesIn(sendq[c])
              /\ \A i \in DOMAIN sendq[c] : sendq[c][i] # "close"
BY DEF LineInv, LineTypes, Line, Silenced, Outbound, Told

LEMMA LineConnects ==
  ASSUME GenTyped, LineInv, NEW c \in Conns, NEW e, Connect(c, e), LookupStep,
         busy = c, at \in {"path", "patterns"}
  PROVE  LineInv'
<1>1. Line(c) /\ LineTypes
  BY DEF LineInv
<1>2. sendq' = [sendq EXCEPT ![c] = sendq[c]] /\ sendq' = sendq
  BY <1>1 DEF Connect, LineTypes
<1>3. /\ gen' = [gen EXCEPT ![c] = "starting"] /\ held' = held \cup {c} /\ at' = "running"
      /\ UNCHANGED <<busy, closed, writers, readers, toClose, connections, inbox, shut, left,
                     heard, owed>>
  BY DEF Connect, LookupStep, stopVars, clientVars
<1>4. Outbound(c)' /\ Silenced(c)' /\ HeldAfterLookup(c)'
  <2>1. c \notin closed \ shut
    BY <1>1 DEF Line, Silenced, Serving
  <2> QED
    BY <1>1, <1>2, <1>3, <2>1 DEF Line, Outbound, Silenced, HeldAfterLookup
<1>5. heard[c] # "close" /\ sendq[c] \in Seq(Outgoing)
  BY Queued DEF Serving
<1>6. busy' = IF at' = "events" THEN None ELSE c
  BY <1>3
<1>7. owed' \in [Conns -> Nat]
  BY <1>1, <1>3 DEF LineTypes
<1>8. \A d \in Conns : d # c => gen'[d] = gen[d]
  BY <1>3 DEF GenTyped
<1> QED
  BY <1>2, <1>3, <1>4, <1>5, <1>6, <1>7, <1>8, LineServed

LEMMA LineRefuses ==
  ASSUME GenTyped, LineInv, NEW c \in Conns, Refuse(c), LookupStep,
         busy = c, at \in {"path", "patterns"}
  PROVE  LineInv'
<1> DEFINE queue == QueueClose(c, sendq[c])
<1>1. Line(c) /\ LineTypes /\ c \notin held
  BY DEF LineInv, Line, HeldAfterLookup
<1>2. /\ sendq' = [sendq EXCEPT ![c] = queue] /\ closed' = closed \cup {c}
      /\ at' = "events" /\ busy' = None
      /\ UNCHANGED <<held, gen, writers, readers, toClose, connections, inbox, shut, left, heard,
                     owed>>
  BY DEF Refuse, LookupStep, stopVars, clientVars
<1>3. sendq'[c] = queue
  BY <1>1, <1>2 DEF LineTypes
<1>4. sendq[c] \in Seq(Outgoing) /\ heard[c] # "close" /\ (c \in closed => c \in shut)
      /\ (c \notin shut => owed[c] = MessagesIn(sendq[c])
                           /\ \A i \in DOMAIN sendq[c] : sendq[c][i] # "close")
  BY Queued DEF Serving
<1>5. queue \in Seq(Outgoing)
  BY <1>4, AppendProperties DEF QueueClose, Outgoing
<1>6. Outbound(c)'
  <2>1. ASSUME c \notin shut
        PROVE  /\ MessagesIn(queue) = MessagesIn(sendq[c]) /\ queue # <<>>
               /\ \A i \in DOMAIN queue : queue[i] = "close" => i = Len(queue)
    BY <1>1, <1>4, <2>1, CloseQueued
  <2> HIDE DEF queue
  <2> QED
    BY <1>2, <1>3, <1>4, <2>1 DEF Outbound
<1>7. Silenced(c)' /\ HeldAfterLookup(c)'
  BY <1>1, <1>2 DEF Silenced, HeldAfterLookup, Serving
<1>8. owed' \in [Conns -> Nat]
  BY <1>1, <1>2 DEF LineTypes
<1> HIDE DEF queue
<1> QED
  BY <1>2, <1>4, <1>5, <1>6, <1>7, <1>8, LineServed

LEMMA LineLookUp ==
  ASSUME GenTyped, LineInv, NEW c \in Conns, LookUpPath(c) \/ LookUpPatterns(c)
  PROVE  LineInv'
<1>1. at \in {"path", "patterns"} /\ busy = c /\ LookupStep
  BY DEF LookUpPath, LookUpPatterns
<1>2. CASE at' = "patterns" /\ UNCHANGED <<busy, sendq, closed, effect, held, gen>>
  <2>1. LineTypes /\ Line(c)
    BY DEF LineInv
  <2>2. UNCHANGED <<writers, readers, toClose, connections, inbox, shut, left, heard, owed>>
    BY <1>1 DEF LookupStep, stopVars, clientVars
  <2>3. sendq' = [sendq EXCEPT ![c] = sendq[c]] /\ owed' \in [Conns -> Nat]
    BY <1>2, <2>1, <2>2 DEF LineTypes
  <2>4. sendq[c] \in Seq(Outgoing) /\ heard[c] # "close"
    BY <1>1, Queued DEF Serving
  <2>5. Outbound(c)' /\ Silenced(c)' /\ HeldAfterLookup(c)'
    BY <1>1, <1>2, <2>1, <2>2
       DEF Line, Outbound, Silenced, HeldAfterLookup, Serving, Suspended
  <2> QED
    BY <1>1, <1>2, <2>2, <2>3, <2>4, <2>5, LineServed
<1>3. CASE \E e : Connect(c, e)
  BY <1>1, <1>3, LineConnects
<1>4. CASE Refuse(c)
  BY <1>1, <1>4, LineRefuses
<1> QED
  BY <1>1, <1>2, <1>3, <1>4 DEF LookUpPath, LookUpPatterns

\* What the side effect returns or yields is queued, and its return closes the connection.
LEMMA LineYields ==
  ASSUME GenTyped, LineInv, NEW c \in Conns, YieldsOrReturns(c)
  PROVE  LineInv'
<1>1. PICK result \in Results(c) \ {"raises"} :
        /\ Advanced(c, result)
        /\ LET sent == IF result \in {"returns", "yields"} THEN Append(sendq[c], "message") ELSE sendq[c]
               over == result \in {"returns", "ends"}
           IN /\ sendq' = [sendq EXCEPT ![c] = IF over THEN QueueClose(c, sent) ELSE sent]
              /\ closed' = IF over THEN closed \cup {c} ELSE closed
  BY DEF YieldsOrReturns
<1> DEFINE says == result \in {"returns", "yields"}
           over == result \in {"returns", "ends"}
           sent == IF says THEN Append(sendq[c], "message") ELSE sendq[c]
           queue == IF over THEN QueueClose(c, sent) ELSE sent
<1>2. at = "running" /\ busy = c /\ Line(c) /\ LineTypes
  BY DEF YieldsOrReturns, LineInv
<1>3. /\ sendq' = [sendq EXCEPT ![c] = queue]
      /\ closed' = IF over THEN closed \cup {c} ELSE closed
      /\ owed' = IF says THEN [owed EXCEPT ![c] = @ + 1] ELSE owed
      /\ gen' = [gen EXCEPT ![c] = IF result \in {"yields", "waits"} THEN "suspended" ELSE "finished"]
      /\ UNCHANGED <<writers, readers, toClose, connections, inbox, shut, held, left, heard>>
  BY <1>1 DEF Advanced, stopVars, clientVars
<1>4. at' \in {"events", "parse"} /\ busy' = IF at' = "events" THEN None ELSE c
  BY <1>1 DEF Advanced, FrameDone
<1>5. sendq[c] \in Seq(Outgoing) /\ owed[c] \in Nat /\ heard[c] # "close"
      /\ (c \in closed => c \in shut)
      /\ (c \notin shut => owed[c] = MessagesIn(sendq[c])
                           /\ \A i \in DOMAIN sendq[c] : sendq[c][i] # "close")
  BY <1>2, Queued DEF Serving
<1>6. /\ sent \in Seq(Outgoing)
      /\ MessagesIn(sent) = IF says THEN MessagesIn(sendq[c]) + 1 ELSE MessagesIn(sendq[c])
      /\ sendq[c] # <<>> => sent # <<>>
      /\ c \notin shut => \A i \in DOMAIN sent : sent[i] # "close"
  <2> DEFINE more == Append(sendq[c], "message")
  <2>1. /\ more \in Seq(Outgoing) /\ more # <<>> /\ MessagesIn(more) = MessagesIn(sendq[c]) + 1
        /\ Len(more) = Len(sendq[c]) + 1 /\ Len(sendq[c]) \in Nat
        /\ \A i \in 1..Len(sendq[c]) : more[i] = sendq[c][i]
        /\ more[Len(sendq[c]) + 1] = "message"
    <3>1. "message" \in Outgoing
      BY DEF Outgoing
    <3> QED
      BY <1>5, <3>1, OneMore, AppendProperties, LenProperties
  <2>2. ASSUME c \notin shut, NEW i \in DOMAIN more PROVE more[i] # "close"
    <3>1. DOMAIN more = 1..(Len(sendq[c]) + 1) /\ DOMAIN sendq[c] = 1..Len(sendq[c])
      BY <1>5, <2>1, LenProperties
    <3>2. i \in 1..Len(sendq[c]) \/ i = Len(sendq[c]) + 1
      BY <2>1, <2>2, <3>1
    <3> QED
      BY <1>5, <2>1, <2>2, <3>1, <3>2
  <2> HIDE DEF more
  <2> QED
    BY <1>5, <2>1, <2>2 DEF more
<1> HIDE DEF sent
<1>7. /\ queue \in Seq(Outgoing)
      /\ c \notin shut =>
           /\ MessagesIn(queue) = MessagesIn(sent) /\ (sent # <<>> => queue # <<>>)
           /\ \A i \in DOMAIN queue : queue[i] = "close" => i = Len(queue) /\ over
  <2>1. CASE ~over
    BY <1>6, <2>1
  <2>2. CASE over /\ c \notin shut
    BY <1>2, <1>5, <1>6, <2>2, CloseQueued
  <2>3. CASE over /\ c \in shut
    BY <1>6, <2>3, AppendProperties DEF QueueClose, Outgoing
  <2> QED
    BY <2>1, <2>2, <2>3
<1> HIDE DEF queue
<1>8. owed' \in [Conns -> Nat] /\ \A d \in Conns : d # c => owed'[d] = owed[d] /\ gen'[d] = gen[d]
  BY <1>2, <1>3 DEF LineTypes, GenTyped
<1>9. owed'[c] = (IF says THEN owed[c] + 1 ELSE owed[c]) /\ sendq'[c] = queue
  BY <1>2, <1>3 DEF LineTypes
<1>10. Outbound(c)'
  <2> SUFFICES ASSUME c \notin shut PROVE Outbound(c)'
    BY <1>3 DEF Outbound
  <2>1. owed'[c] = MessagesIn(sendq'[c])
    BY <1>5, <1>6, <1>7, <1>9
  <2>2. \A i \in DOMAIN sendq'[c] : sendq'[c][i] = "close" => i = Len(sendq'[c]) /\ c \in closed'
    BY <1>3, <1>7, <1>9
  <2>3. c \in writers' => sendq'[c] # <<>>
    BY <1>2, <1>3, <1>6, <1>7, <1>9 DEF Line, Outbound
  <2> QED
    BY <2>1, <2>2, <2>3 DEF Outbound
<1>11. Silenced(c)' /\ HeldAfterLookup(c)'
  <2>1. c \in closed' \ shut' => over
    BY <1>3, <1>5
  <2>2. over => gen'[c] = "finished"
    BY <1>3 DEF GenTyped
  <2> QED
    BY <1>4, <2>1, <2>2 DEF Silenced, HeldAfterLookup, Serving, Suspended
<1> QED
  BY <1>2, <1>3, <1>4, <1>5, <1>7, <1>8, <1>10, <1>11, LineServed

LEMMA LineRaises ==
  ASSUME GenTyped, LineInv, NEW c \in Conns, Raises(c)
  PROVE  LineInv'
<1>1. LineTypes /\ Line(c) /\ heard[c] # "close"
  BY Queued DEF Raises, LineInv, Serving
<1>2. /\ shut' = shut \cup {c} /\ held' = held \ {c} /\ connections' = connections \ {c}
      /\ inbox' = [inbox EXCEPT ![c] = <<>>] /\ sendq' = [sendq EXCEPT ![c] = <<>>]
      /\ gen' = [gen EXCEPT ![c] = "finished"] /\ at' = "events" /\ busy' = None
      /\ UNCHANGED <<writers, readers, toClose, closed, owed, left, heard>>
  BY DEF Raises, Forget, stopVars, clientVars
<1>3. LineTypes'
  <2>1. \A d : Known(d) => Known(d)'
    BY <1>2 DEF Known
  <2> QED
    BY <1>1, <1>2, <2>1, WebsocketServiceAssumption, EmptySeq DEF LineTypes, Known
<1>4. inbox'[c] = <<>> /\ c \in shut'
  BY <1>1, <1>2 DEF LineTypes
<1>5. Line(c)'
  BY <1>1, <1>2, <1>4
     DEF Line, Fresh, Inbound, Outbound, Silenced, HeldAfterLookup, Readable, Told, Known, Serving
<1>6. ASSUME NEW d \in Conns, d # c PROVE OfConn(d)' = OfConn(d)
  BY <1>1, <1>2, <1>6 DEF OfConn, LineTypes, GenTyped
<1> QED
  BY <1>2, <1>3, <1>5, <1>6, LineOf

LEMMA LineThrown ==
  ASSUME GenTyped, LineInv, NEW c \in Conns, Thrown(c)
  PROVE  LineInv'
<1>1. LineTypes /\ Line(c) /\ c \in shut
  BY DEF LineInv, LineTypes, Thrown
<1>2. /\ connections' = connections \ {c} /\ gen' = [gen EXCEPT ![c] = "finished"]
      /\ at' = "events" /\ busy' = None
      /\ UNCHANGED <<writers, readers, toClose, inbox, sendq, shut, closed, held, owed, left, heard>>
  BY DEF Thrown, Forget, stopVars, clientVars
<1>3. LineTypes'
  <2>1. \A d : Known(d) => Known(d)'
    BY <1>1, <1>2 DEF Known
  <2> QED
    BY <1>1, <1>2, <2>1, WebsocketServiceAssumption DEF LineTypes, Known
<1>4. Line(c)'
  BY <1>1, <1>2
     DEF Line, Fresh, Inbound, Outbound, Silenced, HeldAfterLookup, Readable, Told, Known, Serving
<1>5. ASSUME NEW d \in Conns, d # c PROVE OfConn(d)' = OfConn(d)
  BY <1>1, <1>2, <1>5 DEF OfConn, GenTyped
<1> QED
  BY <1>2, <1>3, <1>4, <1>5, LineOf

\* stop() shuts the sockets of connections that the server thread may still be at.
LEMMA LineCloseNext ==
  ASSUME GenTyped, LineInv, NEW c \in Conns, CloseNext(c)
  PROVE  LineInv'
<1>1. LineTypes /\ Line(c) /\ Known(c)
  BY DEF LineInv, LineTypes, CloseNext
<1>2. /\ shut' = shut \cup {c} /\ held' = held \ {c} /\ closed' = closed \cup {c}
      /\ sendq' = [sendq EXCEPT ![c] = QueueClose(c, sendq[c])]
      /\ toClose' = toClose \ {c}
      /\ \A d \in Conns : d # c => gen'[d] = gen[d]
      /\ UNCHANGED <<at, busy, writers, readers, connections, inbox, owed, left, heard>>
  BY DEF CloseNext, GiveUp, StopStep, serveVars, clientVars, GenTyped
<1>3. QueueClose(c, sendq[c]) \in Seq(Outgoing)
  BY <1>1, AppendProperties DEF QueueClose, Outgoing, LineTypes
<1>4. LineTypes'
  <2>1. \A d : Known(d) => Known(d)'
    BY <1>2 DEF Known
  <2>2. sendq' \in [Conns -> Seq(Outgoing)]
    BY <1>1, <1>2, <1>3 DEF LineTypes
  <2> QED
    BY <1>1, <1>2, <2>1, <2>2 DEF LineTypes
<1>5. Line(c)'
  BY <1>1, <1>2
     DEF Line, Fresh, Inbound, Outbound, Silenced, HeldAfterLookup, Readable, Told, Known, Serving
<1>6. ASSUME NEW d \in Conns, d # c PROVE OfConn(d)' = OfConn(d)
  BY <1>1, <1>2, <1>6 DEF OfConn, LineTypes
<1> QED
  BY <1>2, <1>4, <1>5, <1>6, LineOf

LEMMA LineStop ==
  ASSUME GenTyped, LineInv, CallStop \/ StepStop \/ ThrownByStop
  PROVE  LineInv'
<1>1. CASE CallStop
  BY <1>1, LineKept DEF CallStop, StopStep, SocketsKept, serveVars, socketVars, genVars
<1>2. CASE Joined \/ StopEnds
  <2>1. UNCHANGED <<at, busy, writers, readers, socketVars, genVars, clientVars>>
    BY <1>2 DEF Joined, StopEnds, StopStep, SocketsKept, serveVars, socketVars, genVars
  <2>2. toClose' \subseteq connections
    BY <1>2 DEF Joined, StopEnds
  <2>3. ASSUME NEW c \in Conns PROVE Line(c)'
    <3>1. OfConn(c)' = OfConn(c) /\ Line(c)
      BY <2>1 DEF OfConn, socketVars, genVars, clientVars, LineInv
    <3> QED
      BY <2>1, <3>1, LineAside
  <2>4. LineTypes'
    BY <2>1, <2>2 DEF LineInv, LineTypes, Known, socketVars, genVars, clientVars
  <2> QED
    BY <2>3, <2>4 DEF LineInv
<1>3. CASE ThrownByStop
  <2>1. UNCHANGED <<at, busy, writers, readers, toClose, socketVars, held, effect, owed, clientVars>>
        /\ gen' = [gen EXCEPT ![closing] = "finished"]
    BY <1>3 DEF ThrownByStop, StopStep, serveVars, socketVars
  <2>2. ASSUME NEW c \in Conns PROVE Line(c)'
    <3>1. Line(c) /\ (Suspended(c)' => Suspended(c))
      BY <2>1 DEF LineInv, Suspended, GenTyped
    <3> QED
      BY <2>1, <3>1
         DEF Line, Fresh, Inbound, Outbound, Silenced, HeldAfterLookup, Readable, Told, Known,
             Serving, socketVars, clientVars
  <2>3. LineTypes'
    BY <2>1 DEF LineInv, LineTypes, Known, socketVars, clientVars
  <2> QED
    BY <2>2, <2>3 DEF LineInv
<1> QED
  BY <1>1, <1>2, <1>3, LineCloseNext DEF StepStop

LEMMA LineServer ==
  ASSUME GenTyped, LineInv, StepServer
  PROVE  LineInv'
<1>1. CASE ReadDone
  BY <1>1, LineLeft DEF ReadDone, stopVars
<1>2. ASSUME NEW c \in Conns, Read(c) PROVE LineInv'
  <2>1. CASE c \notin shut /\ TakeFrame(c)
    <3>1. inbox[c] # <<>>
      BY <1>2, <2>1 DEF Read, LineInv, Line, Readable
    <3> QED
      BY <1>2, <2>1, <3>1, LineTakeFrame DEF Read
  <2>2. CASE c \in shut /\ Drop(c)
    <3>1. UNCHANGED <<toClose, closed, left, owed, heard>> /\ writers' \subseteq writers
          /\ readers' \subseteq readers
      BY <1>2, <2>2 DEF Read, stopVars, clientVars
    <3>2. owed \in [Conns -> Nat] /\ heard \in [Conns -> {"nothing", "accept", "close"}]
          /\ (heard[c] = "close" => owed[c] = 0)
      BY DEF LineInv, LineTypes, Line, Told
    <3> QED
      BY <2>2, <3>1, <3>2, LineDrop
  <2> QED
    BY <1>2, <2>1, <2>2 DEF Read
<1>3. ASSUME NEW c \in Conns, ReadMore(c) PROVE LineInv'
  BY <1>3, LineTakeFrame DEF ReadMore, More
<1> QED
  BY <1>1, <1>2, <1>3, LineRound, LineFlush, LineLookUp DEF StepServer

LEMMA LineStep == GenInv /\ LineInv /\ [Next]_vars => LineInv'
<1> SUFFICES ASSUME GenTyped, LineInv, [Next]_vars PROVE LineInv'
  BY DEF GenInv
<1>1. CASE ChangeRoutes
  <2>1. RouteStep
    BY <1>1 DEF ChangeRoutes, Add, Set, Remove, Clear
  <2> QED
    BY <2>1, LineKept DEF RouteStep, serveVars, stopVars
<1>2. CASE Start
  <2>1. busy = None
    BY <1>2 DEF Start, LineInv, LineTypes
  <2> QED
    BY <1>2, <2>1, LineLeft DEF Start, stopVars
<1>3. CASE UNCHANGED vars
  BY <1>3, LineKept DEF vars, serveVars, stopVars
<1> QED
  BY <1>1, <1>2, <1>3, LineClient, LineYields, LineRaises, LineThrown, LineServer, LineStop
     DEF Next, StepSideEffect

\* A client that is told to close has got all that the side effect returned and yielded,
\* whatever is queued for it when, and whoever closes the connection.
THEOREM ClosedAfterTheLastCorrect == Spec => []ClosedAfterTheLast
<1>1. LineInv => ClosedAfterTheLast
  BY DEF LineInv, Line, Told, ClosedAfterTheLast
<1> QED
  BY <1>1, GenInit, GenStep, LineInit, LineStep, PTL DEF Spec
================================================================================
