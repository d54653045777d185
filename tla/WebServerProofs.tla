--------------------------- MODULE WebServerProofs ---------------------------
(***************************************************************************)
(* Theorems about WebServer, for every value of its constants: its routes  *)
(* and the patches of its endpoints; what the captures of an endpoint      *)
(* record, and in which order; and what becomes of the errors that         *)
(* handlers raise.  The steps are first sorted into the few kinds that     *)
(* matter to each; the invariants are proved kind by kind.                 *)
(***************************************************************************)
EXTENDS WebServer, SequenceTheorems, WellFoundedInduction, TLAPS

(***************************************************************************)
(* Lemmas about the sequence operators of the model                        *)
(***************************************************************************)

\* An endpoint that is in a list has a first position in it: what PopRoute pops.
LEMMA FirstPosition ==
  ASSUME NEW S, NEW s \in Seq(S), NEW e \in Range(s)
  PROVE  \E i \in DOMAIN s : s[i] = e /\ \A j \in 1..(i-1) : s[j] # e
<1> DEFINE R == OpToRel(<, Nat)
           T == {i \in DOMAIN s : s[i] = e}
<1>1. T \subseteq Nat /\ T # {}
  BY DEF Range
<1>2. PICK i \in T : \A j \in T : ~(<<j, i>> \in R)
  BY <1>1, WFMin, NatLessThanWellFounded
<1>3. \A j \in 1..(i-1) : s[j] # e
  <2> SUFFICES ASSUME NEW j \in 1..(i-1), s[j] = e PROVE FALSE
    OBVIOUS
  <2>1. i \in 1..Len(s) /\ j \in 1..Len(s) /\ j < i
    OBVIOUS
  <2>2. j \in T
    BY <2>1
  <2>3. <<j, i>> \in R
    BY <2>1 DEF OpToRel
  <2> QED
    BY <1>2, <2>2, <2>3
<1> QED
  BY <1>3

\* Dropping a position: the elements before it stay, the others move down by one.
LEMMA RemoveAtProperties ==
  ASSUME NEW S, NEW s \in Seq(S), NEW i \in DOMAIN s
  PROVE  /\ RemoveAt(s, i) \in Seq(S)
         /\ Len(RemoveAt(s, i)) = Len(s) - 1
         /\ \A j \in 1..(Len(s) - 1) :
              RemoveAt(s, i)[j] = IF j < i THEN s[j] ELSE s[j + 1]
<1> DEFINE a == SubSeq(s, 1, i - 1)
           b == SubSeq(s, i + 1, Len(s))
<1>1. i \in 1..Len(s) /\ Len(s) \in Nat
  OBVIOUS
<1>2. a \in Seq(S) /\ Len(a) = i - 1 /\ \A j \in 1..(i-1) : a[j] = s[j]
  BY <1>1
<1>3. b \in Seq(S) /\ Len(b) = Len(s) - i /\ \A j \in 1..(Len(s) - i) : b[j] = s[i + j]
  BY <1>1
<1> HIDE DEF a, b
<1>4. /\ a \o b \in Seq(S) /\ Len(a \o b) = Len(a) + Len(b)
      /\ \A j \in 1..(Len(a) + Len(b)) :
           (a \o b)[j] = IF j <= Len(a) THEN a[j] ELSE b[j - Len(a)]
  BY <1>2, <1>3, ConcatProperties
<1>5. Len(a) + Len(b) = Len(s) - 1
  BY <1>1, <1>2, <1>3
<1>6. ASSUME NEW j \in 1..(Len(s) - 1)
      PROVE  (a \o b)[j] = IF j < i THEN s[j] ELSE s[j + 1]
  <2>1. CASE j < i
    BY <1>1, <1>2, <1>4, <1>5, <2>1
  <2>2. CASE ~(j < i)
    <3>1. j - Len(a) \in 1..(Len(s) - i) /\ i + (j - Len(a)) = j + 1
      BY <1>1, <1>2, <2>2
    <3>2. (a \o b)[j] = b[j - Len(a)]
      BY <1>1, <1>2, <1>4, <1>5, <2>2
    <3>3. b[j - Len(a)] = s[j + 1]
      BY <1>3, <3>1
    <3> QED
      BY <2>2, <3>2, <3>3
  <2> QED
    BY <2>1, <2>2
<1> QED
  BY <1>4, <1>5, <1>6 DEF RemoveAt, a, b

\* The list without its last element.
LEMMA FrontProperties ==
  ASSUME NEW S, NEW s \in Seq(S), s # <<>>
  PROVE  /\ Front(s) \in Seq(S) /\ Len(Front(s)) = Len(s) - 1
         /\ \A j \in 1..(Len(s) - 1) : Front(s)[j] = s[j]
         /\ Last(s) \in S /\ Last(s) = s[Len(s)] /\ Len(s) \in 1..Len(s)
<1>1. Len(s) \in Nat /\ Len(s) # 0 /\ \A j \in 1..Len(s) : s[j] \in S
  BY EmptySeq, LenProperties, ElementOfSeq
<1> DEFINE n == Len(s) - 1
<1>0. n \in Nat /\ n + 1 = Len(s)
  BY <1>1
<1>2. n \in Nat /\ n - 1 + 1 = n /\ (1 <= n \/ n = 0) /\ \A j \in 1..n : 1 + j - 1 = j /\ s[j] \in S
  <2> HIDE DEF n
  <2>1. \A j \in 1..n : j \in 1..Len(s) /\ 1 + j - 1 = j
    BY <1>0
  <2> QED
    BY <1>0, <1>1, <2>1
<1> HIDE DEF n
<1>3. /\ SubSeq(s, 1, n) \in Seq(S)
      /\ Len(SubSeq(s, 1, n)) = IF 1 <= n THEN n - 1 + 1 ELSE 0
      /\ \A j \in 1..(n - 1 + 1) : SubSeq(s, 1, n)[j] = s[1 + j - 1]
  BY <1>2, SubSeqProperties
<1>4. PICK q : q = SubSeq(s, 1, n)
  OBVIOUS
<1>5. q \in Seq(S) /\ Len(q) = n /\ \A j \in 1..n : q[j] = s[j]
  BY <1>2, <1>3, <1>4
<1>6. Front(s) = q
  BY <1>4 DEF Front, n
<1>7. Front(s) \in Seq(S) /\ Len(Front(s)) = n /\ \A j \in 1..n : Front(s)[j] = s[j]
  BY <1>5, <1>6
<1>8. Len(s) \in 1..Len(s)
  BY <1>1
<1>9. Last(s) \in S /\ Last(s) = s[Len(s)]
  BY <1>1, <1>8 DEF Last
<1> QED
  BY <1>7, <1>8, <1>9 DEF n

--------------------------------------------------------------------------------
(***************************************************************************)
(* Type correctness                                                        *)
(***************************************************************************)

\* A request that has found its route has an endpoint to call ...
Routed ==
  \A r \in Requests :
    rstep[r] \in {"guard", "read", "static", "callable", "running", "body"}
      \/ status[r] \in {"ok", "broken"} => target[r] \in Endpoints
\* ... and a call about to clear the pending error holds one.
Caught == \A t \in Threads : call[t].step = "clear" => caught[t] \in Requests

TypeInv == TypeOK /\ Routed /\ Caught

LEMMA TypeInit == Init => TypeInv
<1> SUFFICES ASSUME Init PROVE TypeInv
  OBVIOUS
<1>1. \A S : <<>> \in Seq(S)
  BY EmptySeq
<1>2. call \in [Threads -> Calls] /\ Idle.step # "clear"
  BY DEF Init, Calls, Idle, Call
<1>3. TypeOK
  BY <1>1, <1>2, ConstantsAssumption DEF Init, TypeOK, Statuses
<1>4. Routed /\ Caught
  BY <1>2, <1>3 DEF Init, Routed, Caught, TypeOK
<1> QED
  BY <1>3, <1>4 DEF TypeInv

\* Calls of each shape are calls.
LEMMA CallShapes ==
  /\ Idle \in Calls
  /\ \A e \in Endpoints :
       /\ \A op \in AddOps, step \in {"check", "clear", "test", "append", "own"} :
            Call(op, e, None, step) \in Calls
       /\ \A op \in RemoveOps, step \in {"check", "clear", "test", "pop"} :
            Call(op, e, None, step) \in Calls
       /\ \A x \in SideEffects : /\ Call("patchEffect", e, x, "check") \in Calls
                                 /\ Call("exitEffect", e, x, "restore") \in Calls
       /\ \A c \in Captures : /\ Call("capture", e, c, "check") \in Calls
                              /\ Call("exitCapture", e, c, "close") \in Calls
  /\ Call("ping", Ping, None, "ping") \in Calls
  /\ Call("isAlive", None, None, "check") \in Calls
  /\ Call("stop", None, None, "join") \in Calls
BY DEF Calls, CallsOf, Call

\* What is known of a call from the step it is at.
LEMMA CallFields ==
  ASSUME NEW c \in Calls
  PROVE  /\ c.op \in AddOps \cup RemoveOps \cup EndpointOps => c.ep \in Endpoints
         /\ c.step \in {"test", "append", "own", "pop"} => c.op \in AddOps \cup RemoveOps
         /\ c.step \in {"append", "own"} => c.op \in AddOps
         /\ c.step = "pop" => c.op \in RemoveOps
         /\ c.step \in {"install", "restore"} => c.op \in EndpointOps /\ c.arg \in SideEffects
         /\ c.step = "install" => c.op = "patchEffect"
         /\ c.step = "restore" => c.op = "exitEffect"
         /\ c.step = "open" => c.op = "capture" /\ c.arg \in Captures
         /\ c.step = "close" => c.op = "exitCapture" /\ c.arg \in Captures
         /\ c.step = "ping" => c.op = "ping"
         /\ c.op = "patchEffect" => c.arg \in SideEffects
         /\ c.op = "capture" => c.arg \in Captures
BY DEF Calls, CallsOf, Call, Idle, AddOps, RemoveOps, EndpointOps

\* Moving a call to a step its operation has keeps its shape.
LEMMA CallMoves ==
  ASSUME NEW c \in Calls, NEW step
  PROVE  /\ c.step = "check" /\ step = "clear" => [c EXCEPT !.step = step] \in Calls
         /\ c.step = "join" /\ step = "check" => [c EXCEPT !.step = step] \in Calls
         /\ c.op \in AddOps /\ step \in {"test", "append", "own"} => [c EXCEPT !.step = step] \in Calls
         /\ c.op \in RemoveOps /\ step \in {"test", "pop"} => [c EXCEPT !.step = step] \in Calls
         /\ c.op = "patchEffect" /\ step = "install" => [c EXCEPT !.step = step] \in Calls
         /\ c.op = "capture" /\ step = "open" => [c EXCEPT !.step = step] \in Calls
         /\ c.op \in {"exitEffect", "exitCapture"} /\ step = "check" => [c EXCEPT !.step = step] \in Calls
BY DEF Calls, CallsOf, Call, Idle, AddOps, RemoveOps

\* A call is followed by a call, which is not at its clearing step.
LEMMA AfterIsCall ==
  ASSUME NEW t \in Threads
  PROVE  After(t) \in Calls /\ After(t).step # "clear"
<1>1. \A done : NextClassEndpoint(done) \in Calls /\ NextClassEndpoint(done).step # "clear"
  <2> TAKE done
  <2> DEFINE left == {e \in ClassEndpoints : ~owner[e]} \ {done}
  <2>1. CASE left = {}
    BY <2>1, CallShapes DEF NextClassEndpoint, Idle, Call
  <2>2. CASE left # {}
    <3>1. (CHOOSE e \in left : TRUE) \in Endpoints
      BY <2>2 DEF Endpoints
    <3> QED
      BY <2>2, <3>1, CallShapes DEF NextClassEndpoint, Call, AddOps
  <2> QED
    BY <2>1, <2>2
<1> QED
  BY <1>1, CallShapes DEF After, Call, Idle

\* Replacing one call by another that is not about to clear an error.
LEMMA CallChange ==
  ASSUME TypeInv, NEW t \in Threads, NEW c \in Calls, c.step # "clear",
         call' = [call EXCEPT ![t] = c], caught' = caught
  PROVE  call' \in [Threads -> Calls] /\ Caught'
BY DEF TypeInv, TypeOK, Caught

\* The step alone changes in a Goto.
LEMMA GotoCall ==
  ASSUME TypeInv, NEW t \in Threads, NEW step, Goto(t, step)
  PROVE  /\ call' = [call EXCEPT ![t] = [call[t] EXCEPT !.step = step]]
         /\ [call[t] EXCEPT !.step = step].step = step
<1>1. call[t] \in Calls
  BY DEF TypeInv, TypeOK
<1>2. call[t] = [op |-> call[t].op, ep |-> call[t].ep, arg |-> call[t].arg, step |-> call[t].step]
  BY <1>1 DEF Calls, CallsOf, Call, Idle
<1> QED
  BY <1>2 DEF Goto

LEMMA GotoChange ==
  ASSUME TypeInv, NEW t \in Threads, NEW step, step # "clear", Goto(t, step),
         [call[t] EXCEPT !.step = step] \in Calls, caught' = caught
  PROVE  call' \in [Threads -> Calls] /\ Caught'
<1> DEFINE c == [call[t] EXCEPT !.step = step]
<1>1. c \in Calls /\ c.step # "clear" /\ call' = [call EXCEPT ![t] = c]
  BY GotoCall
<1> HIDE DEF c
<1> QED
  BY <1>1, CallChange

LEMMA EnterChange ==
  ASSUME TypeInv, NEW t \in Threads, NEW context \in ContextsOf,
         contexts' = contexts \/ contexts' = [contexts EXCEPT ![t] = Append(@, context)]
  PROVE  contexts' \in [Threads -> Seq(ContextsOf)]
<1>1. contexts \in [Threads -> Seq(ContextsOf)]
  BY DEF TypeInv, TypeOK
<1>2. Append(contexts[t], context) \in Seq(ContextsOf)
  BY <1>1, AppendProperties
<1> QED
  BY <1>1, <1>2

\* A failed handler leaves its request, or nothing, as the pending error.
LEMMA HandlerRaisedTyped ==
  ASSUME TypeInv, NEW r \in Requests, HandlerRaised(r), rstep[r] \in {"callable", "running"},
         UNCHANGED <<routes, serve, shouldExit, endpointVars, threadVars, scanAt, target, historyVars>>
  PROVE  TypeInv'
<1>1. /\ rstep' = [rstep EXCEPT ![r] = "done"] /\ loop' = None
      /\ \/ status' = [status EXCEPT ![r] = "failed"]
         \/ status' = [status EXCEPT ![r] = "dropped"]
      /\ pending' = r \/ pending' = pending
  BY DEF HandlerRaised, Respond, Move
<1>2. UNCHANGED <<routes, serve, shouldExit, owner, effect, captures, recorded, call, caught,
                  contexts, scanAt, target, reported, overlap, arrived, openedOn, openAt,
                  steady, shifted>>
  BY DEF endpointVars, threadVars, historyVars
<1>3. pending' \in Requests \cup {None} /\ loop' \in Requests \cup {None}
  BY <1>1 DEF TypeInv, TypeOK
<1>4. rstep' \in [Requests -> {"new", "scan", "guard", "read", "static", "callable",
                              "running", "body", "done"}]
  BY <1>1 DEF TypeInv, TypeOK
<1>5. status' \in [Requests -> Statuses]
  BY <1>1 DEF TypeInv, TypeOK, Statuses
<1>6. TypeOK'
  BY <1>2, <1>3, <1>4, <1>5 DEF TypeInv, TypeOK
<1>7. Routed'
  BY <1>1, <1>2 DEF TypeInv, TypeOK, Routed
<1>8. Caught'
  BY <1>2 DEF TypeInv, Caught
<1> QED
  BY <1>6, <1>7, <1>8 DEF TypeInv

\* Every step of the specification keeps the types.
LEMMA TypeStep == TypeInv /\ [Next]_vars => TypeInv'
<1> SUFFICES ASSUME TypeInv, [Next]_vars PROVE TypeInv'
  OBVIOUS
<1> USE DEF serverVars, endpointVars, threadVars, loopVars, historyVars
<1>1. ASSUME NEW t \in Threads
      PROVE  call[t] \in Calls
  BY DEF TypeInv, TypeOK
<1>2. ASSUME NEW t \in Threads, NEW e \in UserEndpoints, NEW op \in {"add", "patchRoute"},
             CallAdd(t, e, op)
      PROVE  TypeInv'
  BY <1>2, CallShapes
     DEF CallAdd, Begin, Call, Endpoints, AddOps, TypeInv, TypeOK, Routed, Caught
<1>3. ASSUME NEW t \in Threads, NEW e \in UserEndpoints \cup ClassEndpoints,
             CallRemove(t, e)
      PROVE  TypeInv'
  BY <1>3, CallShapes
     DEF CallRemove, Begin, Call, Endpoints, RemoveOps, TypeInv, TypeOK, Routed, Caught
<1>4. ASSUME NEW t \in Threads, NEW e \in UserEndpoints \cup ClassEndpoints,
             NEW x \in Patches, CallPatch(t, e, x)
      PROVE  TypeInv'
  BY <1>4, CallShapes, ConstantsAssumption
     DEF CallPatch, Begin, Call, Endpoints, TypeInv, TypeOK, Routed, Caught
<1>5. ASSUME NEW t \in Threads, NEW e \in UserEndpoints \cup ClassEndpoints,
             NEW c \in Captures, CallCapture(t, e, c)
      PROVE  TypeInv'
  BY <1>5, CallShapes
     DEF CallCapture, Begin, Call, Endpoints, TypeInv, TypeOK, Routed, Caught
<1>6. ASSUME NEW t \in Threads, ExitContext(t)
      PROVE  TypeInv'
  <2>1. Last(contexts[t]) \in ContextsOf /\ Front(contexts[t]) \in Seq(ContextsOf)
    BY <1>6, FrontProperties DEF ExitContext, TypeInv, TypeOK
  <2>2. \E c \in Calls : c.step # "clear" /\ call' = [call EXCEPT ![t] = c]
    BY <1>6, <2>1, CallShapes DEF ExitContext, Begin, Call, ContextsOf, RemoveOps
  <2>3. call' \in [Threads -> Calls] /\ Caught'
    BY <1>6, <2>2, CallChange DEF ExitContext
  <2>4. contexts' \in [Threads -> Seq(ContextsOf)]
    BY <1>6, <2>1 DEF ExitContext, TypeInv, TypeOK
  <2> QED
    BY <1>6, <2>1, <2>2, <2>3, <2>4 DEF ExitContext, TypeInv, TypeOK, Routed, Caught
<1>7. ASSUME NEW t \in Threads, CallIsAlive(t)
      PROVE  TypeInv'
  BY <1>7, CallShapes
     DEF CallIsAlive, Begin, Call, TypeInv, TypeOK, Routed, Caught
<1>8. ASSUME NEW t \in Threads, CallStart(t)
      PROVE  TypeInv'
  BY <1>8, CallShapes
     DEF CallStart, Begin, Call, AddOps, Endpoints, TypeInv, TypeOK, Routed, Caught
<1>9. ASSUME NEW t \in Threads, CallStop(t)
      PROVE  TypeInv'
  <2>1. call' = call \/ call' = [call EXCEPT ![t] = Call("stop", None, None, "join")]
    BY <1>9 DEF CallStop, Begin
  <2>2. call' \in [Threads -> Calls] /\ Caught'
    <3>1. CASE call' = call
      BY <1>9, <3>1 DEF CallStop, TypeInv, TypeOK, Caught
    <3>2. CASE call' # call
      <4> DEFINE c == Call("stop", None, None, "join")
      <4>1. c \in Calls /\ c.step # "clear" /\ call' = [call EXCEPT ![t] = c] /\ caught' = caught
        BY <1>9, <2>1, <3>2, CallShapes DEF CallStop, Call
      <4> HIDE DEF c
      <4> QED
        BY <4>1, CallChange
    <3> QED
      BY <3>1, <3>2
  <2> QED
    BY <1>9, <2>1, <2>2 DEF CallStop, TypeInv, TypeOK, Routed, Caught
<1>10. ASSUME NEW t \in Threads, CheckPending(t)
      PROVE  TypeInv'
  <2>1. call[t].step = "check"
    BY <1>10 DEF CheckPending, At
  <2>2. CASE call[t].op \in EndpointOps /\ ~owner[call[t].ep]
    <3>1. call' = [call EXCEPT ![t] = Idle] /\ caught' = caught /\ Idle.step # "clear"
      BY <1>10, <2>2 DEF CheckPending, Raise, Idle, Call
    <3>2. call' \in [Threads -> Calls] /\ Caught'
      BY <3>1, CallShapes, CallChange
    <3> QED
      BY <1>10, <3>1, <3>2 DEF CheckPending, TypeInv, TypeOK, Routed, Caught
  <2>3. CASE ~(call[t].op \in EndpointOps /\ ~owner[call[t].ep]) /\ pending # None
    <3>1. Goto(t, "clear") /\ caught' = [caught EXCEPT ![t] = pending]
      BY <1>10, <2>3 DEF CheckPending
    <3>2. call' \in [Threads -> Calls]
      <4> DEFINE c == [call[t] EXCEPT !.step = "clear"]
      <4>1. c \in Calls /\ call' = [call EXCEPT ![t] = c]
        BY <1>1, <2>1, <3>1, GotoCall, CallMoves
      <4> HIDE DEF c
      <4> QED
        BY <4>1 DEF TypeInv, TypeOK
    <3>3. Caught'
      BY <2>3, <3>1, <3>2, GotoCall DEF TypeInv, TypeOK, Caught
    <3> QED
      BY <1>10, <2>3, <3>1, <3>2, <3>3 DEF CheckPending, TypeInv, TypeOK, Routed, Caught
  <2>4. CASE ~(call[t].op \in EndpointOps /\ ~owner[call[t].ep]) /\ pending = None
    <3>1. caught' = caught
      BY <1>10, <2>4 DEF CheckPending
    <3>2. \/ \E step : /\ step # "clear" /\ Goto(t, step)
                      /\ [call[t] EXCEPT !.step = step] \in Calls
          \/ call' = [call EXCEPT ![t] = After(t)]
      BY <1>1, <1>10, <2>4, CallMoves DEF CheckPending, Return, AfterCheck, AddOps, RemoveOps
    <3>3. call' \in [Threads -> Calls] /\ Caught'
      BY <3>1, <3>2, GotoChange, CallChange, AfterIsCall
    <3> QED
      BY <1>10, <3>1, <3>3 DEF CheckPending, TypeInv, TypeOK, Routed, Caught
  <2> QED
    BY <1>10, <2>1, <2>2, <2>3, <2>4 DEF CheckPending, TypeInv, TypeOK, Routed, Caught
<1>11. ASSUME NEW t \in Threads, ClearPending(t)
      PROVE  TypeInv'
  BY <1>11, <1>1, CallShapes
     DEF ClearPending, Raise, At, Idle, Call, TypeInv, TypeOK, Routed, Caught
<1>12. ASSUME NEW t \in Threads, TestOwner(t)
      PROVE  TypeInv'
  <2>1. call[t].step = "test" /\ call[t].op \in AddOps \cup RemoveOps
    BY <1>12, <1>1, CallFields DEF TestOwner, At
  <2>2. \/ call' = [call EXCEPT ![t] = Idle]
        \/ \E step \in {"append", "pop"} : Goto(t, step) /\ [call[t] EXCEPT !.step = step] \in Calls
    BY <1>12, <1>1, <2>1, CallMoves DEF TestOwner, Raise
  <2>3. call' \in [Threads -> Calls] /\ Caught'
    BY <1>12, <2>2, GotoChange, CallShapes, CallChange DEF TestOwner, Idle, Call
  <2> QED
    BY <1>12, <2>1, <2>2, <2>3 DEF TestOwner, TypeInv, TypeOK, Routed, Caught
<1>13. ASSUME NEW t \in Threads, AppendRoute(t)
      PROVE  TypeInv'
  <2>1. call[t].op \in AddOps /\ call[t].ep \in Endpoints
    BY <1>13, <1>1, CallFields DEF AppendRoute, At
  <2>2. call' \in [Threads -> Calls] /\ Caught'
    BY <1>13, <1>1, <2>1, CallMoves, GotoChange DEF AppendRoute
  <2>3. routes' \in Seq(Endpoints)
    BY <1>13, <2>1, AppendProperties DEF AppendRoute, TypeInv, TypeOK
  <2> QED
    BY <1>13, <2>1, <2>2, <2>3 DEF AppendRoute, TypeInv, TypeOK, Routed, Caught
<1>14. ASSUME NEW t \in Threads, SetOwner(t)
      PROVE  TypeInv'
  <2>1. call[t].ep \in Endpoints
    BY <1>14, <1>1, CallFields DEF SetOwner, At
  <2>2. call' \in [Threads -> Calls] /\ Caught'
    BY <1>14, AfterIsCall, CallChange DEF SetOwner, Return
  <2>3. contexts' \in [Threads -> Seq(ContextsOf)]
    <3> DEFINE context == Context("route", call[t].ep, None)
    <3>1. context \in ContextsOf
      BY <2>1 DEF Context, ContextsOf
    <3>2. contexts' = contexts \/ contexts' = [contexts EXCEPT ![t] = Append(@, context)]
      BY <1>14 DEF SetOwner, Enter
    <3> HIDE DEF context
    <3> QED
      BY <3>1, <3>2, EnterChange
  <2> QED
    BY <1>14, <2>1, <2>2, <2>3 DEF SetOwner, TypeInv, TypeOK, Routed, Caught
<1>15. ASSUME NEW t \in Threads, PopRoute(t)
      PROVE  TypeInv'
  <2>1. call' \in [Threads -> Calls] /\ Caught'
    BY <1>15, AfterIsCall, CallShapes, CallChange DEF PopRoute, Return, Raise, Idle, Call
  <2>2. ASSUME call[t].ep \in Range(routes)
        PROVE  RemoveAt(routes, FirstIndex(call[t].ep)) \in Seq(Endpoints)
    <3>1. routes \in Seq(Endpoints)
      BY DEF TypeInv, TypeOK
    <3>2. FirstIndex(call[t].ep) \in DOMAIN routes
      BY <2>2, <3>1, FirstPosition DEF FirstIndex
    <3> QED
      BY <3>1, <3>2, RemoveAtProperties
  <2>3. routes' \in Seq(Endpoints)
    BY <1>15, <2>2 DEF PopRoute, TypeInv, TypeOK
  <2> QED
    <3>1. CASE call[t].ep \in Range(routes)
      <4>1. steady' \in [Requests -> SUBSET Endpoints] /\ shifted' \in SUBSET Requests
        <5> DEFINE scanning == {r \in Requests : rstep[r] = "scan"}
        <5>1. /\ steady' = [r \in Requests |-> IF r \in scanning THEN steady[r] \ {call[t].ep}
                                                ELSE steady[r]]
              /\ shifted' = shifted \cup scanning
              /\ scanning \subseteq Requests
          BY <1>15, <3>1 DEF PopRoute
        <5> HIDE DEF scanning
        <5> QED
          BY <5>1 DEF TypeInv, TypeOK
      <4>2. owner' \in [Endpoints -> BOOLEAN]
        BY <1>15, <3>1 DEF PopRoute, TypeInv, TypeOK
      <4> QED
        BY <1>15, <2>1, <2>3, <4>1, <4>2 DEF PopRoute, TypeInv, TypeOK, Routed
    <3>2. CASE call[t].ep \notin Range(routes)
      BY <1>15, <2>1, <2>3, <3>2 DEF PopRoute, TypeInv, TypeOK, Routed, Caught
    <3> QED
      BY <3>1, <3>2
<1>16. ASSUME NEW t \in Threads, InstallEffect(t)
      PROVE  TypeInv'
  <2>1. call[t].ep \in Endpoints /\ call[t].arg \in SideEffects
    BY <1>16, <1>1, CallFields DEF InstallEffect, At
  <2>2. call' \in [Threads -> Calls] /\ Caught'
    BY <1>16, AfterIsCall, CallChange DEF InstallEffect, Return
  <2>3. effect[call[t].ep] \in SideEffects
    BY <1>16, <2>1 DEF TypeInv, TypeOK
  <2>4. contexts' \in [Threads -> Seq(ContextsOf)]
    BY <1>16, <2>1, <2>3, AppendProperties DEF InstallEffect, TypeInv, TypeOK, Enter, Context, ContextsOf
  <2> QED
    BY <1>16, <2>1, <2>2, <2>3, <2>4 DEF InstallEffect, TypeInv, TypeOK, Routed, Caught
<1>17. ASSUME NEW t \in Threads, RestoreEffect(t)
      PROVE  TypeInv'
  <2>1. call[t].op = "exitEffect" /\ call[t].ep \in Endpoints /\ call[t].arg \in SideEffects
    BY <1>17, <1>1, CallFields DEF RestoreEffect, At, EndpointOps
  <2>2. call' \in [Threads -> Calls] /\ Caught'
    BY <1>17, <1>1, <2>1, CallMoves, GotoChange DEF RestoreEffect
  <2> QED
    BY <1>17, <2>1, <2>2 DEF RestoreEffect, TypeInv, TypeOK, Routed, Caught
<1>18. ASSUME NEW t \in Threads, OpenCapture(t)
      PROVE  TypeInv'
  <2>1. call[t].ep \in Endpoints /\ call[t].arg \in Captures
    BY <1>18, <1>1, CallFields DEF OpenCapture, At, EndpointOps
  <2>2. call' \in [Threads -> Calls] /\ Caught'
    BY <1>18, AfterIsCall, CallChange DEF OpenCapture, Return
  <2>3. contexts' \in [Threads -> Seq(ContextsOf)]
    <3> DEFINE context == Context("capture", call[t].ep, call[t].arg)
    <3>1. context \in ContextsOf
      BY <2>1 DEF Context, ContextsOf
    <3>2. contexts' = contexts \/ contexts' = [contexts EXCEPT ![t] = Append(@, context)]
      BY <1>18 DEF OpenCapture, Enter
    <3> HIDE DEF context
    <3> QED
      BY <3>1, <3>2, EnterChange
  <2>4. captures' \in [Endpoints -> Seq(Captures)]
    <3>1. \/ captures' = captures
          \/ captures' = [captures EXCEPT ![call[t].ep] = Append(@, call[t].arg)]
      BY <1>18 DEF OpenCapture
    <3>2. captures[call[t].ep] \in Seq(Captures)
      BY <2>1 DEF TypeInv, TypeOK
    <3>3. Append(captures[call[t].ep], call[t].arg) \in Seq(Captures)
      BY <2>1, <3>2, AppendProperties
    <3> QED
      BY <3>1, <3>3 DEF TypeInv, TypeOK
  <2> QED
    BY <1>18, <2>1, <2>2, <2>3, <2>4 DEF OpenCapture, TypeInv, TypeOK, Routed, Caught
<1>19. ASSUME NEW t \in Threads, CloseCapture(t)
      PROVE  TypeInv'
  <2>1. call[t].op = "exitCapture" /\ call[t].ep \in Endpoints
    BY <1>19, <1>1, CallFields DEF CloseCapture, At, EndpointOps
  <2>2. call' = [call EXCEPT ![t] = Idle] \/ Goto(t, "check")
    BY <1>19 DEF CloseCapture, Raise
  <2>3. call' \in [Threads -> Calls] /\ Caught'
    BY <1>19, <1>1, <2>1, <2>2, GotoChange, CallMoves, CallShapes, CallChange DEF CloseCapture, Idle, Call
  <2>4. captures' \in [Endpoints -> Seq(Captures)]
    <3> DEFINE open == captures[call[t].ep]
    <3>1. open \in Seq(Captures)
      BY <2>1 DEF TypeInv, TypeOK
    <3>2. \/ captures' = captures
          \/ open # <<>> /\ captures' = [captures EXCEPT ![call[t].ep] = Front(open)]
      BY <1>19 DEF CloseCapture
    <3>3. open # <<>> => Front(open) \in Seq(Captures)
      BY <3>1, FrontProperties
    <3> QED
      BY <3>2, <3>3 DEF TypeInv, TypeOK
  <2> QED
    BY <1>19, <2>1, <2>2, <2>3, <2>4 DEF CloseCapture, TypeInv, TypeOK, Routed, Caught
<1>20. ASSUME NEW t \in Threads, PingAnswered(t)
      PROVE  TypeInv'
  BY <1>20, CallShapes
     DEF PingAnswered, Call, Endpoints, RemoveOps, TypeInv, TypeOK, Routed, Caught
<1>21. ASSUME NEW t \in Threads, PingTimesOut(t)
      PROVE  TypeInv'
  BY <1>21, CallShapes
     DEF PingTimesOut, Call, Endpoints, RemoveOps, TypeInv, TypeOK, Routed, Caught
<1>22. ASSUME NEW t \in Threads, JoinServeThread(t)
      PROVE  TypeInv'
  <2>1. call' \in [Threads -> Calls] /\ Caught'
    BY <1>22, <1>1, CallMoves, GotoChange DEF JoinServeThread, At
  <2> QED
    BY <1>22, <2>1 DEF JoinServeThread, TypeInv, TypeOK, Routed, Caught
<1>23. ASSUME NEW r \in Requests, Arrive(r)
      PROVE  TypeInv'
  BY <1>23, AppendProperties, RangeOfSeq
     DEF Arrive, Move, InFlight, TypeInv, TypeOK, Routed, Caught
<1>24. ASSUME NEW r \in Requests, ScanRoute(r)
      PROVE  TypeInv'
  <2>1. scanAt[r] <= Len(routes) /\ scanAt[r] >= 1 => routes[scanAt[r]] \in Endpoints
    BY <1>24, ElementOfSeq DEF TypeInv, TypeOK
  <2>2. target' \in [Requests -> Endpoints \cup {None}]
    BY <1>24, <2>1, ConstantsAssumption DEF ScanRoute, TypeInv, TypeOK
  <2>3. Routed'
    BY <1>24, <2>1, <2>2, ConstantsAssumption DEF ScanRoute, Move, Respond, TypeInv, TypeOK, Routed
  <2>4. scanAt[r] \in Nat /\ Len(routes) \in Nat
    BY LenProperties DEF TypeInv, TypeOK
  <2> QED
    <3>1. CASE scanAt[r] > Len(routes)
      <4>1. /\ Respond(r, "notfound")
            /\ scanAt' = [scanAt EXCEPT ![r] = 1]
            /\ UNCHANGED <<target, steady, shifted>>
        BY <1>24, <2>4, <3>1 DEF ScanRoute
      <4> QED
        BY <1>24, <2>2, <2>3, <4>1 DEF ScanRoute, Move, Respond, Statuses, TypeInv, TypeOK, Caught
    <3>2. CASE scanAt[r] <= Len(routes) /\ routes[scanAt[r]] \notin Serves[r]
      <4>1. /\ scanAt' = [scanAt EXCEPT ![r] = @ + 1]
            /\ UNCHANGED <<loop, rstep, status, target, steady, shifted>>
        BY <1>24, <2>4, <3>2 DEF ScanRoute
      <4> QED
        BY <1>24, <2>2, <2>3, <4>1 DEF ScanRoute, TypeInv, TypeOK, Caught
    <3>3. CASE scanAt[r] <= Len(routes) /\ routes[scanAt[r]] \in Serves[r]
      <4>1. /\ Move(r, "guard")
            /\ scanAt' = [scanAt EXCEPT ![r] = 1]
            /\ steady' = [steady EXCEPT ![r] = {}]
            /\ shifted' = shifted \ {r}
            /\ UNCHANGED <<loop, status>>
        BY <1>24, <2>4, <3>3 DEF ScanRoute
      <4> QED
        BY <1>24, <2>2, <2>3, <4>1 DEF ScanRoute, Move, TypeInv, TypeOK, Caught
    <3> QED
      BY <1>24, <3>1, <3>2, <3>3 DEF ScanRoute
<1>25. ASSUME NEW r \in Requests, GuardRequest(r)
      PROVE  TypeInv'
  BY <1>25
     DEF GuardRequest, Move, Respond, Statuses, TypeInv, TypeOK, Routed, Caught
<1>26. ASSUME NEW r \in Requests, ReadSideEffect(r)
      PROVE  TypeInv'
  BY <1>26
     DEF ReadSideEffect, Move, TypeInv, TypeOK, Routed, Caught
<1>27. ASSUME NEW r \in Requests, UseStaticEffect(r)
      PROVE  TypeInv'
  BY <1>27
     DEF UseStaticEffect, Move, Statuses, TypeInv, TypeOK, Routed, Caught
<1>28. ASSUME NEW r \in Requests, CallSideEffect(r)
      PROVE  TypeInv'
  <2>1. CASE effect[target[r]] \in StaticEffects
    <3>1. /\ HandlerRaised(r)
          /\ rstep[r] = "callable"
          /\ UNCHANGED <<routes, serve, shouldExit, endpointVars, threadVars, scanAt, target, historyVars>>
      BY <1>28, <2>1 DEF CallSideEffect
    <3> QED
      BY <3>1, HandlerRaisedTyped
  <2>2. CASE effect[target[r]] \notin StaticEffects
    BY <1>28, <2>2 DEF CallSideEffect, Move, TypeInv, TypeOK, Routed, Caught
  <2> QED
    BY <2>1, <2>2
<1>29. ASSUME NEW r \in Requests, SideEffectReturns(r)
      PROVE  TypeInv'
  BY <1>29
     DEF SideEffectReturns, Move, TypeInv, TypeOK, Routed, Caught
<1>30. ASSUME NEW r \in Requests, SideEffectRaises(r)
      PROVE  TypeInv'
  <2>1. /\ HandlerRaised(r)
        /\ rstep[r] = "running"
        /\ UNCHANGED <<routes, serve, shouldExit, endpointVars, threadVars, scanAt, target, historyVars>>
    BY <1>30 DEF SideEffectRaises
  <2> QED
    BY <2>1, HandlerRaisedTyped
<1>31. ASSUME NEW r \in Requests, ClientDisconnects(r)
      PROVE  TypeInv'
  BY <1>31
     DEF ClientDisconnects, Move, Respond, Statuses, TypeInv, TypeOK, Routed, Caught
<1>32. ASSUME NEW r \in Requests, RecordAndRespond(r)
      PROVE  TypeInv'
  BY <1>32, AppendProperties
     DEF RecordAndRespond, Move, Respond, Statuses, TypeInv, TypeOK, Routed, Caught
<1>33. ASSUME ServeThreadExits
      PROVE  TypeInv'
  BY <1>33
     DEF ServeThreadExits, TypeInv, TypeOK, Routed, Caught
<1>34. CASE UNCHANGED vars
  BY <1>34 DEF vars, TypeInv, TypeOK, Routed, Caught
<1> QED
  BY <1>2, <1>3, <1>4, <1>5, <1>6, <1>7, <1>8, <1>9, <1>10, <1>11, <1>12, <1>13, <1>14, <1>15, <1>16, <1>17, <1>18, <1>19, <1>20, <1>21, <1>22, <1>23, <1>24, <1>25, <1>26, <1>27, <1>28, <1>29, <1>30, <1>31, <1>32, <1>33, <1>34
     DEF Next, MakeCall, StepCall, StepTask, CompleteTask

\* The variables keep their types: the serve thread and any number of test threads
\* never store anything but an error, a route, a capture where one belongs.
THEOREM TypeCorrect == Spec => []TypeOK
<1>1. Spec => []TypeInv
  BY TypeInit, TypeStep, PTL DEF Spec
<1> QED
  BY <1>1, PTL DEF TypeInv

--------------------------------------------------------------------------------
(***************************************************************************)
(* The router's scan against the routes                                    *)
(***************************************************************************)

\* While no route was popped under its scan, the router still has before it every
\* endpoint that can serve the request and was routed all along.
Ahead(r) ==
  \A e \in steady[r] \cap Serves[r] :
    \E i \in DOMAIN routes : i >= scanAt[r] /\ routes[i] = e

ScanInv ==
  /\ TypeInv /\ MissedOnlyByShift
  /\ \A r \in Requests :
       /\ rstep[r] = "new" => scanAt[r] = 1
       /\ rstep[r] = "scan" /\ r \notin shifted => Ahead(r)
       /\ status[r] = "notfound" => rstep[r] = "done"

LEMMA ScanInit == Init => ScanInv
BY TypeInit DEF Init, ScanInv, MissedOnlyByShift

\* A step that moves no scan and no route.
ScanAside ==
  /\ UNCHANGED <<routes, steady, shifted, scanAt>>
  /\ \A r \in Requests :
       /\ rstep'[r] \in {"new", "scan"} => rstep'[r] = rstep[r]
       /\ rstep[r] = "done" => rstep'[r] = "done"
       /\ status'[r] = "notfound" => status[r] = "notfound"

LEMMA AsideKeepsScans ==
  ASSUME ScanInv, ScanAside, TypeInv'
  PROVE  ScanInv'
BY DEF ScanInv, ScanAside, Ahead, MissedOnlyByShift

LEMMA ScanThreadSteps ==
  ASSUME NEW t \in Threads, MakeCall(t) \/ StepCall(t)
  PROVE  AppendRoute(t) \/ PopRoute(t) \/ ScanAside
<1> USE DEF serverVars, endpointVars, threadVars, loopVars, historyVars
<1> SUFFICES ASSUME ~AppendRoute(t), ~PopRoute(t)
             PROVE  UNCHANGED <<routes, steady, shifted, scanAt, rstep, status>>
  BY DEF ScanAside
<1> QED
  BY DEF MakeCall, StepCall, CallAdd, CallRemove, CallPatch, CallCapture, ExitContext,
         CallIsAlive, CallStart, CallStop, CheckPending, ClearPending, TestOwner, SetOwner,
         InstallEffect, RestoreEffect, OpenCapture, CloseCapture, PingAnswered, PingTimesOut,
         JoinServeThread

LEMMA ScanTaskSteps ==
  ASSUME TypeInv, NEW r \in Requests, StepTask(r) \/ CompleteTask(r)
  PROVE  ScanRoute(r) \/ ScanAside
<1> USE DEF serverVars, endpointVars, threadVars, loopVars, historyVars
<1> SUFFICES ASSUME ~ScanRoute(r)
             PROVE  ScanAside
  OBVIOUS
<1>1. /\ rstep \in [Requests -> {"new", "scan", "guard", "read", "static", "callable",
                                 "running", "body", "done"}]
      /\ status \in [Requests -> Statuses]
  BY DEF TypeInv, TypeOK
<1>2. UNCHANGED <<routes, steady, shifted, scanAt>> /\ rstep[r] # "done"
  BY DEF StepTask, CompleteTask, GuardRequest, ReadSideEffect, UseStaticEffect, CallSideEffect,
         SideEffectReturns, SideEffectRaises, ClientDisconnects, RecordAndRespond
<1>3. /\ \E step : step \notin {"new", "scan"} /\ rstep' = [rstep EXCEPT ![r] = step]
      /\ status' = status \/ \E outcome : outcome # "notfound" /\ status' = [status EXCEPT ![r] = outcome]
  <2>1. CASE GuardRequest(r)
    BY <2>1 DEF GuardRequest, Move, Respond
  <2>2. CASE ReadSideEffect(r) \/ UseStaticEffect(r) \/ SideEffectReturns(r)
    BY <2>2 DEF ReadSideEffect, UseStaticEffect, SideEffectReturns, Move
  <2>3. CASE CallSideEffect(r) \/ SideEffectRaises(r)
    BY <2>3 DEF CallSideEffect, SideEffectRaises, HandlerRaised, Move, Respond
  <2>4. CASE ClientDisconnects(r) \/ RecordAndRespond(r)
    BY <2>4 DEF ClientDisconnects, RecordAndRespond, Move, Respond
  <2> QED
    BY <2>1, <2>2, <2>3, <2>4 DEF StepTask, CompleteTask
<1> QED
  BY <1>1, <1>2, <1>3 DEF ScanAside

\* An append leaves every position as it was.
LEMMA AppendKeepsScans ==
  ASSUME ScanInv, NEW t \in Threads, AppendRoute(t), TypeInv'
  PROVE  ScanInv'
<1> USE DEF serverVars, endpointVars, threadVars, loopVars, historyVars
<1>1. /\ routes' = Append(routes, call[t].ep)
      /\ UNCHANGED <<steady, shifted, scanAt, rstep, status>>
  BY DEF AppendRoute
<1>2. \A i \in DOMAIN routes : i \in DOMAIN routes' /\ routes'[i] = routes[i]
  <2>1. call[t] \in Calls /\ call[t].step = "append" /\ routes \in Seq(Endpoints)
    BY DEF AppendRoute, At, ScanInv, TypeInv, TypeOK
  <2>2. call[t].ep \in Endpoints
    BY <2>1, CallFields
  <2> QED
    BY <1>1, <2>1, <2>2, AppendProperties
<1> QED
  BY <1>1, <1>2 DEF ScanInv, Ahead, MissedOnlyByShift

\* A pop marks every scan under way.
LEMMA PopKeepsScans ==
  ASSUME ScanInv, NEW t \in Threads, PopRoute(t), TypeInv'
  PROVE  ScanInv'
<1> USE DEF serverVars, endpointVars, threadVars, loopVars, historyVars
<1>1. UNCHANGED <<scanAt, rstep, status>>
  BY DEF PopRoute
<1>2. CASE UNCHANGED <<routes, steady, shifted>>
  BY <1>1, <1>2 DEF ScanInv, Ahead, MissedOnlyByShift
<1>3. CASE /\ \A r \in Requests : rstep[r] = "scan" => r \in shifted'
           /\ \A r \in Requests : rstep[r] # "scan" => steady'[r] = steady[r]
           /\ shifted \subseteq shifted'
  BY <1>1, <1>3 DEF ScanInv, MissedOnlyByShift
<1> QED
  BY <1>2, <1>3 DEF PopRoute

\* The scan passes over a route that does not serve the request, ends at one that does,
\* or runs out of routes.
LEMMA ScanKeepsScans ==
  ASSUME ScanInv, NEW r \in Requests, ScanRoute(r), TypeInv'
  PROVE  ScanInv'
<1> USE DEF serverVars, endpointVars, threadVars, loopVars, historyVars
<1>1. /\ routes \in Seq(Endpoints) /\ Len(routes) \in Nat /\ scanAt \in [Requests -> Nat]
      /\ rstep \in [Requests -> {"new", "scan", "guard", "read", "static", "callable",
                                 "running", "body", "done"}]
      /\ status \in [Requests -> Statuses] /\ steady \in [Requests -> SUBSET Endpoints]
      /\ shifted \subseteq Requests
  BY DEF ScanInv, TypeInv, TypeOK
<1>2. rstep[r] = "scan" /\ routes' = routes /\ DOMAIN routes = 1..Len(routes)
  BY <1>1 DEF ScanRoute
<1>3. CASE scanAt[r] > Len(routes)
  <2>1. /\ rstep' = [rstep EXCEPT ![r] = "done"] /\ status' = [status EXCEPT ![r] = "notfound"]
        /\ scanAt' = [scanAt EXCEPT ![r] = 1] /\ UNCHANGED <<steady, shifted>>
    BY <1>1, <1>3 DEF ScanRoute, Respond, Move
  <2>2. r \notin shifted => steady[r] \cap Serves[r] = {}
    BY <1>1, <1>2, <1>3 DEF ScanInv, Ahead
  <2>3. MissedOnlyByShift'
    BY <1>1, <2>1, <2>2 DEF ScanInv, MissedOnlyByShift
  <2> QED
    BY <1>1, <1>2, <2>1, <2>3 DEF ScanInv, Ahead
<1>4. CASE scanAt[r] <= Len(routes) /\ routes[scanAt[r]] \notin Serves[r]
  <2>1. /\ scanAt' = [scanAt EXCEPT ![r] = @ + 1]
        /\ UNCHANGED <<rstep, status, steady, shifted>>
    BY <1>1, <1>4 DEF ScanRoute
  <2>2. Ahead(r) => Ahead(r)'
    <3> SUFFICES ASSUME Ahead(r), NEW e \in steady[r] \cap Serves[r]
                 PROVE  \E i \in DOMAIN routes : i >= scanAt[r] + 1 /\ routes[i] = e
      BY <1>1, <1>2, <2>1 DEF Ahead
    <3>1. PICK i \in DOMAIN routes : i >= scanAt[r] /\ routes[i] = e
      BY DEF Ahead
    <3>2. i # scanAt[r]
      BY <1>4, <3>1
    <3> QED
      BY <1>1, <1>2, <3>1, <3>2
  <2>3. \A q \in Requests : q # r => (Ahead(q) <=> Ahead(q)')
    BY <1>1, <1>2, <2>1 DEF Ahead
  <2> QED
    BY <1>1, <1>2, <2>1, <2>2, <2>3 DEF ScanInv, MissedOnlyByShift
<1>5. CASE scanAt[r] <= Len(routes) /\ routes[scanAt[r]] \in Serves[r]
  <2>1. /\ rstep' = [rstep EXCEPT ![r] = "guard"] /\ status' = status
        /\ scanAt' = [scanAt EXCEPT ![r] = 1] /\ steady' = [steady EXCEPT ![r] = {}]
        /\ shifted' = shifted \ {r}
    BY <1>1, <1>5 DEF ScanRoute, Move
  <2>2. \A q \in Requests : q # r => /\ Ahead(q) <=> Ahead(q)'
                                     /\ q \in shifted <=> q \in shifted'
                                     /\ steady'[q] = steady[q]
    BY <1>1, <1>2, <2>1 DEF Ahead
  <2>3. status[r] # "notfound"
    BY <1>2 DEF ScanInv
  <2>4. MissedOnlyByShift'
    BY <2>1, <2>2, <2>3 DEF ScanInv, MissedOnlyByShift
  <2> QED
    BY <1>1, <1>2, <2>1, <2>2, <2>3, <2>4 DEF ScanInv
<1> QED
  BY <1>1, <1>3, <1>4, <1>5

LEMMA ScanStep == ScanInv /\ [Next]_vars => ScanInv'
<1> SUFFICES ASSUME ScanInv, [Next]_vars PROVE ScanInv'
  OBVIOUS
<1> USE DEF serverVars, endpointVars, threadVars, loopVars, historyVars
<1>1. TypeInv /\ TypeInv'
  BY TypeStep DEF ScanInv
<1>2. ASSUME NEW t \in Threads, MakeCall(t) \/ StepCall(t)
      PROVE  ScanInv'
  BY <1>1, <1>2, ScanThreadSteps, AsideKeepsScans, AppendKeepsScans, PopKeepsScans
<1>3. ASSUME NEW r \in Requests, StepTask(r) \/ CompleteTask(r)
      PROVE  ScanInv'
  BY <1>1, <1>3, ScanTaskSteps, AsideKeepsScans, ScanKeepsScans
<1>4. ASSUME NEW r \in Requests, Arrive(r)
      PROVE  ScanInv'
  <2>1. /\ UNCHANGED <<routes, status, scanAt, shifted>>
        /\ rstep[r] = "new" /\ rstep' = [rstep EXCEPT ![r] = "scan"]
        /\ steady' = [steady EXCEPT ![r] = Range(routes)]
    BY <1>4 DEF Arrive, Move
  <2>2. /\ routes \in Seq(Endpoints) /\ Len(routes) \in Nat
        /\ rstep \in [Requests -> {"new", "scan", "guard", "read", "static", "callable",
                                   "running", "body", "done"}]
        /\ steady \in [Requests -> SUBSET Endpoints]
    BY <1>1 DEF TypeInv, TypeOK
  <2>3. Ahead(r)'
    <3> SUFFICES ASSUME NEW e \in Range(routes)
                 PROVE  \E i \in DOMAIN routes : i >= scanAt[r] /\ routes[i] = e
      BY <2>1, <2>2 DEF Ahead
    <3>1. PICK i \in DOMAIN routes : routes[i] = e
      BY DEF Range
    <3> QED
      BY <2>1, <2>2, <3>1 DEF ScanInv
  <2>4. \A q \in Requests : q # r => Ahead(q) <=> Ahead(q)'
    BY <2>1, <2>2 DEF Ahead
  <2>5. status[r] # "notfound"
    BY <2>1 DEF ScanInv
  <2>6. MissedOnlyByShift'
    BY <2>1, <2>2, <2>5 DEF ScanInv, MissedOnlyByShift
  <2> QED
    BY <1>1, <2>1, <2>2, <2>3, <2>4, <2>5, <2>6 DEF ScanInv
<1>5. ASSUME ServeThreadExits \/ UNCHANGED vars
      PROVE  ScanInv'
  BY <1>1, <1>5, AsideKeepsScans DEF ServeThreadExits, vars, ScanAside
<1> QED
  BY <1>2, <1>3, <1>4, <1>5 DEF Next

\* A request misses an endpoint that was routed all along only if some other route was
\* popped under its scan, however many threads add and remove routes meanwhile.
THEOREM MissedOnlyByShiftCorrect == Spec => []MissedOnlyByShift
<1>1. Spec => []ScanInv
  BY ScanInit, ScanStep, PTL DEF Spec
<1> QED
  BY <1>1, PTL DEF ScanInv

--------------------------------------------------------------------------------
(***************************************************************************)
(* The routes against the owners, with one test thread                     *)
(***************************************************************************)
OneThread == \A t, u \in Threads : t = u

Distinct(s) == \A i, j \in DOMAIN s : s[i] = s[j] => i = j

LEMMA AppendDistinct ==
  ASSUME NEW S, NEW s \in Seq(S), NEW e \in S, Distinct(s), e \notin Range(s)
  PROVE  Distinct(Append(s, e)) /\ Range(Append(s, e)) = Range(s) \cup {e}
<1>1. /\ Append(s, e) \in Seq(S) /\ Len(s) \in Nat /\ DOMAIN s = 1..Len(s)
      /\ DOMAIN Append(s, e) = 1..(Len(s) + 1)
      /\ \A i \in 1..Len(s) : Append(s, e)[i] = s[i]
      /\ Append(s, e)[Len(s) + 1] = e
  BY AppendProperties
<1>2. DOMAIN Append(s, e) = DOMAIN s \cup {Len(s) + 1}
  BY <1>1
<1>3. \A i \in DOMAIN s : s[i] # e
  BY DEF Range
<1>4. PICK q : q = Append(s, e)
  OBVIOUS
<1>5. /\ DOMAIN q = DOMAIN s \cup {Len(s) + 1} /\ q[Len(s) + 1] = e
      /\ \A i \in DOMAIN s : q[i] = s[i]
  BY <1>1, <1>2, <1>4
<1>6. Distinct(q)
  BY <1>3, <1>5 DEF Distinct
<1>7. Range(q) = Range(s) \cup {e}
  BY <1>5 DEF Range
<1> QED
  BY <1>4, <1>6, <1>7

LEMMA RemoveAtDistinct ==
  ASSUME NEW S, NEW s \in Seq(S), NEW i \in DOMAIN s, Distinct(s)
  PROVE  Distinct(RemoveAt(s, i)) /\ Range(RemoveAt(s, i)) = Range(s) \ {s[i]}
<1>1. Len(s) \in Nat /\ i \in 1..Len(s) /\ DOMAIN s = 1..Len(s)
  OBVIOUS
<1>2. PICK q : q = RemoveAt(s, i)
  OBVIOUS
<1>3. /\ q \in Seq(S) /\ Len(q) = Len(s) - 1
      /\ \A j \in 1..(Len(s) - 1) : q[j] = IF j < i THEN s[j] ELSE s[j + 1]
  BY <1>2, RemoveAtProperties
<1>4. DOMAIN q = 1..(Len(s) - 1)
  BY <1>3
<1>5. Distinct(q)
  <2> SUFFICES ASSUME NEW j \in DOMAIN q, NEW k \in DOMAIN q, q[j] = q[k] PROVE j = k
    BY DEF Distinct
  <2> DEFINE Was(x) == IF x < i THEN x ELSE x + 1
  <2>1. q[j] = s[Was(j)] /\ q[k] = s[Was(k)]
    BY <1>3, <1>4
  <2>2. Was(j) \in DOMAIN s /\ Was(k) \in DOMAIN s
    BY <1>1, <1>4
  <2>3. Was(j) = Was(k)
    BY <2>1, <2>2 DEF Distinct
  <2> QED
    BY <1>1, <1>4, <2>3
<1>6. Range(q) \subseteq Range(s) \ {s[i]}
  <2> SUFFICES ASSUME NEW j \in DOMAIN q PROVE q[j] \in Range(s) /\ q[j] # s[i]
    BY DEF Range
  <2>1. \E k \in DOMAIN s : k # i /\ q[j] = s[k]
    <3>1. CASE j < i
      BY <1>1, <1>3, <1>4, <3>1
    <3>2. CASE ~(j < i)
      <4>1. j + 1 \in DOMAIN s /\ j + 1 # i /\ q[j] = s[j + 1]
        BY <1>1, <1>3, <1>4, <3>2
      <4> QED
        BY <4>1
    <3> QED
      BY <3>1, <3>2
  <2> QED
    BY <2>1 DEF Range, Distinct
<1>7. Range(s) \ {s[i]} \subseteq Range(q)
  <2> SUFFICES ASSUME NEW k \in DOMAIN s, k # i PROVE \E j \in DOMAIN q : q[j] = s[k]
    BY DEF Range
  <2>1. CASE k < i
    <3>1. k \in DOMAIN q /\ q[k] = s[k]
      BY <1>1, <1>3, <1>4, <2>1
    <3> QED
      BY <3>1
  <2>2. CASE ~(k < i)
    <3>1. k - 1 \in DOMAIN q /\ ~(k - 1 < i) /\ (k - 1) + 1 = k
      BY <1>1, <1>4, <2>2
    <3>2. q[k - 1] = s[k]
      BY <1>3, <1>4, <3>1
    <3> QED
      BY <3>1, <3>2
  <2> QED
    BY <2>1, <2>2
<1> QED
  BY <1>2, <1>5, <1>6, <1>7

\* Owners and routes agree but for the endpoint a call has appended and is about to own.
OwnInv ==
  /\ TypeInv
  /\ Distinct(routes)
  /\ \A e \in Endpoints : owner[e] => e \in Range(routes)
  /\ \A e \in Range(routes) : ~owner[e] =>
       \E t \in Threads : call[t].step = "own" /\ call[t].ep = e
  /\ \A t \in Threads :
       /\ call[t].step = "append" => ~owner[call[t].ep]
       /\ call[t].step = "own" => call[t].ep \in Range(routes)
       /\ call[t].step = "pop" => owner[call[t].ep]

LEMMA OwnInit == Init => OwnInv
<1> SUFFICES ASSUME Init PROVE OwnInv
  OBVIOUS
<1>1. routes = <<>> /\ Range(routes) = {} /\ Distinct(routes)
  BY DEF Init, Range, Distinct
<1>2. /\ \A e \in Endpoints : ~owner[e]
      /\ \A t \in Threads : call[t].step = "none"
  BY DEF Init, Idle, Call
<1> QED
  BY <1>1, <1>2, TypeInit DEF OwnInv

\* A step of a thread that concerns neither list nor owners.
OwnAside(t) ==
  /\ UNCHANGED <<routes, owner>>
  /\ call[t].step \notin {"append", "own", "pop"}
  /\ call'[t].step \notin {"append", "own", "pop"}

\* The step a Goto leads to.
LEMMA GotoStep ==
  ASSUME TypeInv, NEW t \in Threads, NEW step, Goto(t, step)
  PROVE  call'[t].step = step
<1> DEFINE c == [call[t] EXCEPT !.step = step]
<1>1. call \in [Threads -> Calls]
  BY DEF TypeInv, TypeOK
<1>2. call' = [call EXCEPT ![t] = c] /\ c.step = step
  BY GotoCall
<1> HIDE DEF c
<1>3. call'[t] = c
  BY <1>1, <1>2
<1> QED
  BY <1>2, <1>3

\* The step a call starts with.
LEMMA AfterStep ==
  ASSUME NEW t \in Threads
  PROVE  After(t).step \in {"none", "check", "ping"}
<1>1. \A done : NextClassEndpoint(done).step \in {"none", "check"}
  BY DEF NextClassEndpoint, Idle, Call
<1> QED
  BY <1>1 DEF After, Idle, Call

LEMMA OwnThreadSteps ==
  ASSUME TypeInv, NEW t \in Threads, MakeCall(t) \/ StepCall(t)
  PROVE  TestOwner(t) \/ AppendRoute(t) \/ SetOwner(t) \/ PopRoute(t) \/ OwnAside(t)
<1> USE DEF serverVars, endpointVars, threadVars, loopVars, historyVars
<1> SUFFICES ASSUME ~TestOwner(t), ~AppendRoute(t), ~SetOwner(t), ~PopRoute(t)
             PROVE  OwnAside(t)
  OBVIOUS
<1>1. UNCHANGED <<routes, owner>>
  BY DEF MakeCall, StepCall, CallAdd, CallRemove, CallPatch, CallCapture, ExitContext,
         CallIsAlive, CallStart, CallStop, CheckPending, ClearPending, InstallEffect,
         RestoreEffect, OpenCapture, CloseCapture, PingAnswered, PingTimesOut, JoinServeThread
<1>2. call \in [Threads -> Calls] /\ Idle.step = "none"
  BY DEF TypeInv, TypeOK, Idle, Call
<1>3. \A op, e, arg, step : Call(op, e, arg, step).step = step
  BY DEF Call
<1>4. ASSUME MakeCall(t)
      PROVE  OwnAside(t)
  <2>1. call[t] = Idle
    BY <1>4 DEF MakeCall, CallAdd, CallRemove, CallPatch, CallCapture, ExitContext,
                CallIsAlive, CallStart, CallStop, Begin
  <2>2. \/ UNCHANGED call
        \/ \E op, e, arg : \E step \in {"check", "restore", "close", "join"} :
             call' = [call EXCEPT ![t] = Call(op, e, arg, step)]
    <3>1. CASE \E e \in UserEndpoints, op \in {"add", "patchRoute"} : CallAdd(t, e, op)
      BY <3>1 DEF CallAdd, Begin
    <3>2. CASE \E e \in UserEndpoints \cup ClassEndpoints :
                 \/ CallRemove(t, e)
                 \/ \E x \in Patches : CallPatch(t, e, x)
                 \/ \E c \in Captures : CallCapture(t, e, c)
      BY <3>2 DEF CallRemove, CallPatch, CallCapture, Begin
    <3>3. CASE ExitContext(t)
      BY <3>3 DEF ExitContext, Begin
    <3>4. CASE CallIsAlive(t) \/ CallStart(t) \/ CallStop(t)
      BY <3>4 DEF CallIsAlive, CallStart, CallStop, Begin
    <3> QED
      BY <1>4, <3>1, <3>2, <3>3, <3>4 DEF MakeCall
  <2> QED
    BY <1>1, <1>2, <1>3, <2>1, <2>2 DEF OwnAside
<1>5. ASSUME StepCall(t)
      PROVE  OwnAside(t)
  <2>1. call[t].step \in {"check", "clear", "install", "restore", "open", "close", "ping", "join"}
    BY <1>5 DEF StepCall, At, CheckPending, ClearPending, InstallEffect, RestoreEffect,
                OpenCapture, CloseCapture, PingAnswered, PingTimesOut, JoinServeThread
  <2>2. \/ Return(t) \/ Raise(t)
        \/ \E step \in {"clear", "test", "install", "open", "check"} : Goto(t, step)
        \/ \E op, e, arg : call' = [call EXCEPT ![t] = Call(op, e, arg, "check")]
    BY <1>5 DEF StepCall, CheckPending, ClearPending, InstallEffect, RestoreEffect, AfterCheck,
                OpenCapture, CloseCapture, PingAnswered, PingTimesOut, JoinServeThread,
                AddOps, RemoveOps
  <2>3. CASE Return(t)
    BY <1>1, <1>2, <2>1, <2>3, AfterStep DEF Return, OwnAside
  <2>4. CASE Raise(t)
    BY <1>1, <1>2, <2>1, <2>4 DEF Raise, OwnAside
  <2>5. CASE \E step \in {"clear", "test", "install", "open", "check"} : Goto(t, step)
    BY <1>1, <2>1, <2>5, GotoStep DEF OwnAside
  <2>6. CASE \E op, e, arg : call' = [call EXCEPT ![t] = Call(op, e, arg, "check")]
    BY <1>1, <1>2, <1>3, <2>1, <2>6 DEF OwnAside
  <2> QED
    BY <2>2, <2>3, <2>4, <2>5, <2>6
<1> QED
  BY <1>4, <1>5

LEMMA OwnStep == OneThread /\ OwnInv /\ [Next]_vars => OwnInv'
<1> SUFFICES ASSUME OneThread, OwnInv, [Next]_vars PROVE OwnInv'
  OBVIOUS
<1> USE DEF serverVars, endpointVars, threadVars, loopVars, historyVars
<1>1. /\ TypeInv /\ TypeInv'
      /\ routes \in Seq(Endpoints) /\ owner \in [Endpoints -> BOOLEAN] /\ call \in [Threads -> Calls]
  BY TypeStep DEF OwnInv, TypeInv, TypeOK
<1>2. ASSUME UNCHANGED <<routes, owner, call>>
      PROVE  OwnInv'
  BY <1>1, <1>2 DEF OwnInv
<1>3. ASSUME NEW t \in Threads, MakeCall(t) \/ StepCall(t)
      PROVE  OwnInv'
  <2>0. \A u \in Threads : u = t
    BY DEF OneThread
  <2>1. CASE TestOwner(t)
    <3>1. UNCHANGED <<routes, owner>> /\ call[t].step = "test"
      BY <2>1 DEF TestOwner, At
    <3>2. \/ Raise(t)
          \/ Goto(t, "append") /\ ~owner[call[t].ep]
          \/ Goto(t, "pop") /\ owner[call[t].ep]
      BY <2>1 DEF TestOwner
    <3>3. \/ call'[t].step = "none"
          \/ call'[t].step = "append" /\ call'[t].ep = call[t].ep /\ ~owner[call[t].ep]
          \/ call'[t].step = "pop" /\ call'[t].ep = call[t].ep /\ owner[call[t].ep]
      <4>1. CASE Raise(t)
        BY <1>1, <4>1 DEF Raise, Idle, Call
      <4>2. ASSUME NEW step, Goto(t, step)
            PROVE  call'[t].step = step /\ call'[t].ep = call[t].ep
        BY <1>1, <4>2, GotoStep DEF Goto
      <4> QED
        BY <3>2, <4>1, <4>2
    <3> QED
      BY <1>1, <2>0, <3>1, <3>3 DEF OwnInv
  <2>2. CASE AppendRoute(t)
    <3>1. /\ routes' = Append(routes, call[t].ep) /\ owner' = owner /\ Goto(t, "own")
          /\ call[t].step = "append"
      BY <2>2 DEF AppendRoute, At
    <3>2. call[t].ep \in Endpoints
      BY <1>1, <3>1, CallFields
    <3>3. ~owner[call[t].ep] /\ call[t].ep \notin Range(routes)
      BY <2>0, <3>1 DEF OwnInv
    <3>4. Distinct(routes') /\ Range(routes') = Range(routes) \cup {call[t].ep}
      BY <1>1, <3>1, <3>2, <3>3, AppendDistinct DEF OwnInv
    <3>5. call'[t].step = "own" /\ call'[t].ep = call[t].ep
      BY <1>1, <3>1, GotoStep DEF Goto
    <3> QED
      BY <1>1, <2>0, <3>1, <3>3, <3>4, <3>5 DEF OwnInv
  <2>3. CASE SetOwner(t)
    <3>1. /\ routes' = routes /\ owner' = [owner EXCEPT ![call[t].ep] = TRUE] /\ Return(t)
          /\ call[t].step = "own"
      BY <2>3 DEF SetOwner, At
    <3>2. call'[t].step \in {"none", "check", "ping"}
      BY <1>1, <3>1, AfterStep DEF Return
    <3>3. Range(routes) \subseteq Endpoints
      BY <1>1 DEF Range
    <3>4. \A e \in Range(routes) : owner[e] \/ e = call[t].ep
      BY <2>0 DEF OwnInv
    <3> QED
      BY <1>1, <2>0, <3>1, <3>2, <3>3, <3>4 DEF OwnInv
  <2>4. CASE PopRoute(t)
    <3> DEFINE e == call[t].ep
    <3>1. call[t].step = "pop" /\ owner[e]
      BY <2>0, <2>4 DEF PopRoute, At, OwnInv
    <3>2. e \in Endpoints
      BY <1>1, <3>1, CallFields
    <3>3. e \in Range(routes)
      BY <3>1, <3>2 DEF OwnInv
    <3>4. /\ routes' = RemoveAt(routes, FirstIndex(e)) /\ owner' = [owner EXCEPT ![e] = FALSE]
          /\ Return(t)
      BY <2>4, <3>3 DEF PopRoute
    <3>5. FirstIndex(e) \in DOMAIN routes /\ routes[FirstIndex(e)] = e
      BY <1>1, <3>3, FirstPosition DEF FirstIndex
    <3>6. Distinct(routes') /\ Range(routes') = Range(routes) \ {e}
      BY <1>1, <3>4, <3>5, RemoveAtDistinct DEF OwnInv
    <3>7. call'[t].step \in {"none", "check", "ping"}
      BY <1>1, <3>4, AfterStep DEF Return
    <3>8. \A u \in Threads : call[u].step # "own"
      BY <2>0, <3>1
    <3>9. Range(routes) \subseteq Endpoints
      BY <1>1 DEF Range
    <3> QED
      BY <1>1, <2>0, <3>4, <3>6, <3>7, <3>8, <3>9 DEF OwnInv
  <2>5. CASE OwnAside(t)
    BY <1>1, <2>0, <2>5 DEF OwnInv, OwnAside
  <2> QED
    BY <1>1, <1>3, <2>1, <2>2, <2>3, <2>4, <2>5, OwnThreadSteps
<1>4. ASSUME NEW r \in Requests, Arrive(r) \/ StepTask(r) \/ CompleteTask(r)
      PROVE  UNCHANGED <<routes, owner, call>>
  BY <1>4 DEF Arrive, StepTask, CompleteTask, ScanRoute, GuardRequest, ReadSideEffect,
       UseStaticEffect, CallSideEffect, SideEffectReturns, SideEffectRaises,
       ClientDisconnects, RecordAndRespond
<1>5. ServeThreadExits \/ UNCHANGED vars => UNCHANGED <<routes, owner, call>>
  BY DEF ServeThreadExits, vars
<1> QED
  BY <1>2, <1>3, <1>4, <1>5 DEF Next

\* With one test thread an endpoint has an owner exactly when it has a route, and one
\* route only: whatever calls were cut short by a pending error.
THEOREM RoutesMatchOwnersCorrect ==
  ASSUME OneThread
  PROVE  Spec => []RoutesMatchOwners
<1>1. OwnInv /\ [Next]_vars => OwnInv'
  BY OwnStep
<1>2. OwnInv => RoutesMatchOwners
  BY DEF OwnInv, RoutesMatchOwners, Distinct, At, TypeInv, TypeOK
<1> QED
  BY <1>1, <1>2, OwnInit, PTL DEF Spec

--------------------------------------------------------------------------------
(***************************************************************************)
(* The side effects under patches, with one test thread                    *)
(***************************************************************************)

\* The contexts of a thread that patch the side effect of an endpoint, and an exit of
\* such a context that has yet to put the side effect back.
Patched(t, e) == {i \in DOMAIN contexts[t] : contexts[t][i].kind = "effect" /\ contexts[t][i].ep = e}
Restoring(t, e) == call[t].step = "restore" /\ call[t].ep = e

\* The outermost patch of an endpoint holds its own side effect, until its exit does.
EffectInv ==
  /\ TypeInv
  /\ \A t \in Threads, e \in Endpoints :
       /\ \A i \in Patched(t, e) :
            (\A j \in Patched(t, e) : i <= j) => contexts[t][i].arg = InitialEffect[e]
       /\ Patched(t, e) = {} /\ Restoring(t, e) => call[t].arg = InitialEffect[e]
  /\ \A e \in Endpoints :
       (\A t \in Threads : Patched(t, e) = {} /\ ~Restoring(t, e)) => effect[e] = InitialEffect[e]

LEMMA EffectInit == Init => EffectInv
<1> SUFFICES ASSUME Init PROVE EffectInv
  OBVIOUS
<1>1. /\ effect = InitialEffect
      /\ \A t \in Threads : call[t].step = "none" /\ contexts[t] = <<>>
  BY DEF Init, Idle, Call
<1>2. \A t \in Threads, e \in Endpoints : Patched(t, e) = {} /\ ~Restoring(t, e)
  BY <1>1 DEF Patched, Restoring
<1> QED
  BY <1>1, <1>2, TypeInit DEF EffectInv

\* A step of a thread that enters or leaves no patch.
EffectAside(t) ==
  /\ effect' = effect
  /\ contexts' = contexts \/ \E c \in ContextsOf : c.kind # "effect" /\ Enter(t, c)
  /\ call[t].step # "restore" /\ call'[t].step # "restore"

LEMMA EffectThreadSteps ==
  ASSUME TypeInv, NEW t \in Threads, MakeCall(t) \/ StepCall(t)
  PROVE  ExitContext(t) \/ InstallEffect(t) \/ RestoreEffect(t) \/ EffectAside(t)
<1> USE DEF serverVars, endpointVars, threadVars, loopVars, historyVars
<1> SUFFICES ASSUME ~ExitContext(t), ~InstallEffect(t), ~RestoreEffect(t)
             PROVE  EffectAside(t)
  OBVIOUS
<1>1. effect' = effect
  BY DEF MakeCall, StepCall, CallAdd, CallRemove, CallPatch, CallCapture, CallIsAlive, CallStart,
         CallStop, CheckPending, ClearPending, TestOwner, AppendRoute, SetOwner, PopRoute,
         OpenCapture, CloseCapture, PingAnswered, PingTimesOut, JoinServeThread
<1>2. call \in [Threads -> Calls] /\ call[t] \in Calls /\ Idle.step = "none"
  BY DEF TypeInv, TypeOK, Idle, Call
<1>3. \A op, e, arg, step : Call(op, e, arg, step).step = step
  BY DEF Call
<1>4. contexts' = contexts \/ \E c \in ContextsOf : c.kind # "effect" /\ Enter(t, c)
  <2>1. CASE SetOwner(t)
    <3> DEFINE c == Context("route", call[t].ep, None)
    <3>1. call[t].ep \in Endpoints
      BY <1>2, <2>1, CallFields DEF SetOwner, At
    <3>2. c \in ContextsOf /\ c.kind # "effect"
      BY <3>1 DEF Context, ContextsOf
    <3> QED
      BY <2>1, <3>2 DEF SetOwner
  <2>2. CASE OpenCapture(t)
    <3> DEFINE c == Context("capture", call[t].ep, call[t].arg)
    <3>1. call[t].ep \in Endpoints /\ call[t].arg \in Captures
      BY <1>2, <2>2, CallFields DEF OpenCapture, At, EndpointOps
    <3>2. c \in ContextsOf /\ c.kind # "effect"
      BY <3>1 DEF Context, ContextsOf
    <3> QED
      BY <2>2, <3>2 DEF OpenCapture
  <2>3. CASE ~SetOwner(t) /\ ~OpenCapture(t)
    BY <2>3 DEF MakeCall, StepCall, CallAdd, CallRemove, CallPatch, CallCapture, CallIsAlive,
                CallStart, CallStop, CheckPending, ClearPending, TestOwner, AppendRoute, PopRoute,
                CloseCapture, PingAnswered, PingTimesOut, JoinServeThread
  <2> QED
    BY <2>1, <2>2, <2>3
<1>5. ASSUME MakeCall(t)
      PROVE  EffectAside(t)
  <2>1. call[t] = Idle
    BY <1>5 DEF MakeCall, CallAdd, CallRemove, CallPatch, CallCapture, CallIsAlive, CallStart,
                CallStop, Begin
  <2>2. \/ UNCHANGED call
        \/ \E op, e, arg : \E step \in {"check", "join"} :
             call' = [call EXCEPT ![t] = Call(op, e, arg, step)]
    <3>1. CASE \E e \in UserEndpoints, op \in {"add", "patchRoute"} : CallAdd(t, e, op)
      BY <3>1 DEF CallAdd, Begin
    <3>2. CASE \E e \in UserEndpoints \cup ClassEndpoints :
                 \/ CallRemove(t, e)
                 \/ \E x \in Patches : CallPatch(t, e, x)
                 \/ \E c \in Captures : CallCapture(t, e, c)
      BY <3>2 DEF CallRemove, CallPatch, CallCapture, Begin
    <3>3. CASE CallIsAlive(t) \/ CallStart(t) \/ CallStop(t)
      BY <3>3 DEF CallIsAlive, CallStart, CallStop, Begin
    <3> QED
      BY <1>5, <3>1, <3>2, <3>3 DEF MakeCall
  <2> QED
    BY <1>1, <1>2, <1>3, <1>4, <2>1, <2>2 DEF EffectAside
<1>6. ASSUME StepCall(t)
      PROVE  EffectAside(t)
  <2>1. call[t].step # "restore"
    BY <1>6 DEF StepCall, At, CheckPending, ClearPending, TestOwner, AppendRoute, SetOwner,
                PopRoute, OpenCapture, CloseCapture, PingAnswered, PingTimesOut, JoinServeThread
  <2>2. \/ Return(t) \/ Raise(t)
        \/ \E step \in {"clear", "test", "install", "open", "check", "append", "pop", "own"} :
             Goto(t, step)
        \/ \E op, e, arg : call' = [call EXCEPT ![t] = Call(op, e, arg, "check")]
    BY <1>6 DEF StepCall, CheckPending, ClearPending, TestOwner, AppendRoute, SetOwner, PopRoute,
                AfterCheck, OpenCapture, CloseCapture, PingAnswered, PingTimesOut,
                JoinServeThread, AddOps, RemoveOps
  <2>3. CASE Return(t)
    BY <1>1, <1>2, <1>4, <2>1, <2>3, AfterStep DEF Return, EffectAside
  <2>4. CASE Raise(t)
    BY <1>1, <1>2, <1>4, <2>1, <2>4 DEF Raise, EffectAside
  <2>5. CASE \E step \in {"clear", "test", "install", "open", "check", "append", "pop", "own"} :
               Goto(t, step)
    BY <1>1, <1>4, <2>1, <2>5, GotoStep DEF EffectAside
  <2>6. CASE \E op, e, arg : call' = [call EXCEPT ![t] = Call(op, e, arg, "check")]
    BY <1>1, <1>2, <1>3, <1>4, <2>1, <2>6 DEF EffectAside
  <2> QED
    BY <2>2, <2>3, <2>4, <2>5, <2>6
<1> QED
  BY <1>5, <1>6

\* The patches among the contexts of a thread that has entered another context.
LEMMA EnterPatched ==
  ASSUME TypeInv, NEW t \in Threads, NEW c \in ContextsOf, Enter(t, c), NEW e \in Endpoints
  PROVE  LET n == Len(contexts[t]) + 1 IN
         /\ Patched(t, e)' = IF c.kind = "effect" /\ c.ep = e THEN Patched(t, e) \cup {n}
                             ELSE Patched(t, e)
         /\ \A i \in Patched(t, e) : i < n /\ contexts'[t][i] = contexts[t][i]
         /\ contexts'[t][n] = c
<1> DEFINE s == contexts[t]  n == Len(s) + 1
<1>1. s \in Seq(ContextsOf) /\ contexts'[t] = Append(s, c)
  BY DEF TypeInv, TypeOK, Enter
<1>2. PICK q : q = Append(s, c)
  OBVIOUS
<1>3. /\ Len(s) \in Nat /\ DOMAIN s = 1..Len(s) /\ DOMAIN q = 1..n
      /\ \A i \in DOMAIN s : q[i] = s[i] /\ i < n
      /\ q[n] = c
  BY <1>1, <1>2, AppendProperties
<1>4. DOMAIN q = DOMAIN s \cup {n}
  BY <1>3
<1> QED
  BY <1>1, <1>2, <1>3, <1>4 DEF Patched

LEMMA EffectStep == OneThread /\ EffectInv /\ [Next]_vars => EffectInv'
<1> SUFFICES ASSUME OneThread, EffectInv, [Next]_vars PROVE EffectInv'
  OBVIOUS
<1> USE DEF serverVars, endpointVars, threadVars, loopVars, historyVars
<1>1. /\ TypeInv /\ TypeInv'
      /\ effect \in [Endpoints -> SideEffects] /\ call \in [Threads -> Calls]
      /\ contexts \in [Threads -> Seq(ContextsOf)]
  BY TypeStep DEF EffectInv, TypeInv, TypeOK
<1>2. ASSUME UNCHANGED <<effect, contexts, call>>
      PROVE  EffectInv'
  BY <1>1, <1>2 DEF EffectInv, Patched, Restoring
<1>3. ASSUME NEW t \in Threads, MakeCall(t) \/ StepCall(t)
      PROVE  EffectInv'
  <2>0. \A u \in Threads : u = t
    BY DEF OneThread
  <2>1. CASE EffectAside(t)
    <3>1. \A e \in Endpoints : ~Restoring(t, e) /\ ~Restoring(t, e)'
      BY <2>1 DEF EffectAside, Restoring
    <3>2. \A e \in Endpoints : /\ Patched(t, e)' = Patched(t, e)
                               /\ \A i \in Patched(t, e) : contexts'[t][i] = contexts[t][i]
      <4>1. CASE contexts' = contexts
        BY <4>1 DEF Patched
      <4>2. CASE \E c \in ContextsOf : c.kind # "effect" /\ Enter(t, c)
        BY <1>1, <4>2, EnterPatched
      <4> QED
        BY <2>1, <4>1, <4>2 DEF EffectAside
    <3> QED
      BY <1>1, <2>0, <2>1, <3>1, <3>2 DEF EffectInv, EffectAside
  <2>2. CASE InstallEffect(t)
    <3> DEFINE p == call[t].ep
               c == Context("effect", p, effect[p])
    <3>1. /\ Enter(t, c) /\ effect' = [effect EXCEPT ![p] = call[t].arg] /\ Return(t)
          /\ call[t].step = "install"
      BY <2>2 DEF InstallEffect, At
    <3>2. p \in Endpoints
      BY <1>1, <3>1, CallFields
    <3>3. c \in ContextsOf /\ c.kind = "effect" /\ c.ep = p /\ c.arg = effect[p]
      BY <1>1, <3>2 DEF Context, ContextsOf
    <3>4. \A e \in Endpoints : ~Restoring(t, e) /\ ~Restoring(t, e)'
      BY <1>1, <3>1, AfterStep DEF Return, Restoring
    <3> DEFINE n == Len(contexts[t]) + 1
    <3>5. ASSUME NEW e \in Endpoints
          PROVE  /\ Patched(t, e)' = IF e = p THEN Patched(t, e) \cup {n} ELSE Patched(t, e)
                 /\ \A i \in Patched(t, e) : i < n /\ contexts'[t][i] = contexts[t][i]
                 /\ contexts'[t][n] = c
      <4> HIDE DEF c
      <4> QED
        BY <1>1, <3>1, <3>3, EnterPatched
    <3>6. \A e \in Endpoints : Patched(t, e) = {} => effect[e] = InitialEffect[e]
      BY <2>0, <3>4 DEF EffectInv
    <3>7. n \in Nat /\ \A e \in Endpoints : Patched(t, e) \subseteq Nat
      BY <1>1 DEF Patched
    <3>8. ASSUME NEW e \in Endpoints, NEW i \in Patched(t, e)',
                 \A j \in Patched(t, e)' : i <= j
          PROVE  contexts'[t][i].arg = InitialEffect[e]
      <4>1. CASE i \in Patched(t, e)
        <5>1. \A j \in Patched(t, e) : i <= j
          BY <3>5, <3>8
        <5> QED
          BY <3>5, <4>1, <5>1 DEF EffectInv
      <4>2. CASE i \notin Patched(t, e)
        <5>1. e = p /\ i = n
          BY <3>5, <3>8, <4>2
        <5>2. Patched(t, e) = {}
          <6> SUFFICES ASSUME NEW j \in Patched(t, e) PROVE FALSE
            OBVIOUS
          <6>1. j < n /\ n <= j /\ j \in Nat
            BY <3>5, <3>7, <3>8, <5>1
          <6> QED
            BY <3>7, <6>1
        <5> QED
          BY <3>3, <3>5, <3>6, <5>1, <5>2
      <4> QED
        BY <4>1, <4>2
    <3>9. ASSUME NEW e \in Endpoints, Patched(t, e)' = {}
          PROVE  effect'[e] = InitialEffect[e]
      <4>1. e # p /\ Patched(t, e) = {}
        BY <3>5, <3>9
      <4> QED
        BY <1>1, <3>1, <3>6, <4>1
    <3> QED
      BY <1>1, <2>0, <3>4, <3>8, <3>9 DEF EffectInv
  <2>3. CASE RestoreEffect(t)
    <3> DEFINE p == call[t].ep
    <3>1. /\ effect' = [effect EXCEPT ![p] = call[t].arg] /\ Goto(t, "check")
          /\ contexts' = contexts /\ Restoring(t, p)
      BY <2>3 DEF RestoreEffect, At, Restoring
    <3>2. \A e \in Endpoints : /\ Patched(t, e)' = Patched(t, e) /\ ~Restoring(t, e)'
                               /\ Restoring(t, e) => e = p
      BY <1>1, <3>1, GotoStep DEF Patched, Restoring
    <3>3. ASSUME NEW e \in Endpoints, Patched(t, e) = {}
          PROVE  effect'[e] = InitialEffect[e]
      <4>1. CASE e = p
        BY <1>1, <3>1, <3>3, <4>1 DEF EffectInv
      <4>2. CASE e # p
        BY <1>1, <2>0, <3>1, <3>2, <3>3, <4>2 DEF EffectInv
      <4> QED
        BY <4>1, <4>2
    <3> QED
      BY <1>1, <2>0, <3>1, <3>2, <3>3 DEF EffectInv
  <2>4. CASE ExitContext(t)
    <3> DEFINE s == contexts[t]  n == Len(s)  c == Last(s)
    <3>1. /\ s \in Seq(ContextsOf) /\ s # <<>> /\ contexts' = [contexts EXCEPT ![t] = Front(s)]
          /\ call[t] = Idle /\ effect' = effect
      BY <1>1, <2>4 DEF ExitContext, Begin
    <3>2. PICK q : q = Front(s)
      OBVIOUS
    <3>3. /\ contexts'[t] = q /\ q \in Seq(ContextsOf) /\ Len(q) = n - 1 /\ n \in Nat
          /\ \A i \in 1..(n - 1) : q[i] = s[i]
          /\ c \in ContextsOf /\ c = s[n] /\ n \in 1..n
      <4>1. /\ q \in Seq(ContextsOf) /\ Len(q) = n - 1 /\ \A i \in 1..(n - 1) : q[i] = s[i]
            /\ c \in ContextsOf /\ c = s[n] /\ n \in 1..n
        BY <3>1, <3>2, FrontProperties
      <4>2. contexts'[t] = q
        BY <1>1, <3>1, <3>2
      <4>3. n \in Nat
        BY <3>1
      <4> QED
        BY <4>1, <4>2, <4>3
    <3>4. DOMAIN s = DOMAIN q \cup {n} /\ n \notin DOMAIN q /\ DOMAIN q = 1..(n - 1)
      BY <3>1, <3>3
    <3>5. \A e \in Endpoints :
            /\ Patched(t, e) = IF c.kind = "effect" /\ c.ep = e THEN Patched(t, e)' \cup {n}
                               ELSE Patched(t, e)'
            /\ \A i \in Patched(t, e)' : i < n /\ contexts'[t][i] = s[i]
      <4> HIDE DEF c, n
      <4> QED
        BY <3>3, <3>4 DEF Patched
    <3>6. \A e \in Endpoints : ~Restoring(t, e)
      BY <3>1 DEF Restoring, Idle, Call
    <3>7. /\ c.kind = "effect" => call'[t] = Call("exitEffect", c.ep, c.arg, "restore")
          /\ c.kind # "effect" => call'[t].step # "restore"
      BY <1>1, <2>4 DEF ExitContext, Begin, Call
    <3>8. \A e \in Endpoints : Restoring(t, e)' =>
            c.kind = "effect" /\ c.ep = e /\ call'[t].arg = c.arg
      BY <3>7 DEF Restoring, Call
    <3>9. ASSUME NEW e \in Endpoints, NEW i \in Patched(t, e)',
                 \A j \in Patched(t, e)' : i <= j
          PROVE  contexts'[t][i].arg = InitialEffect[e]
      <4>0. i \in 1..(n - 1) /\ n \in Nat
        BY <3>3, <3>4, <3>9 DEF Patched
      <4>1. i \in Patched(t, e) /\ i <= n
        BY <3>5, <3>9, <4>0
      <4>2. \A j \in Patched(t, e) : i <= j
        BY <3>5, <3>9, <4>1
      <4> QED
        BY <3>5, <4>1, <4>2 DEF EffectInv
    <3>10. ASSUME NEW e \in Endpoints, Patched(t, e)' = {}, Restoring(t, e)'
           PROVE  call'[t].arg = InitialEffect[e]
      <4>1. Patched(t, e) = {n} /\ call'[t].arg = s[n].arg
        BY <3>3, <3>5, <3>8, <3>10
      <4> QED
        BY <3>3, <4>1 DEF EffectInv
    <3>11. ASSUME NEW e \in Endpoints, Patched(t, e)' = {}, ~Restoring(t, e)'
           PROVE  effect'[e] = InitialEffect[e]
      <4>1. ~(c.kind = "effect" /\ c.ep = e)
        BY <3>7, <3>11 DEF Restoring, Call
      <4>2. Patched(t, e) = {}
        BY <3>5, <3>11, <4>1
      <4> QED
        BY <2>0, <3>1, <3>6, <4>2 DEF EffectInv
    <3> QED
      BY <1>1, <2>0, <3>9, <3>10, <3>11 DEF EffectInv
  <2> QED
    BY <1>1, <1>3, <2>1, <2>2, <2>3, <2>4, EffectThreadSteps
<1>4. ASSUME NEW r \in Requests, Arrive(r) \/ StepTask(r) \/ CompleteTask(r)
      PROVE  UNCHANGED <<effect, contexts, call>>
  BY <1>4 DEF Arrive, StepTask, CompleteTask, ScanRoute, GuardRequest, ReadSideEffect,
       UseStaticEffect, CallSideEffect, SideEffectReturns, SideEffectRaises,
       ClientDisconnects, RecordAndRespond
<1>5. ServeThreadExits \/ UNCHANGED vars => UNCHANGED <<effect, contexts, call>>
  BY DEF ServeThreadExits, vars
<1> QED
  BY <1>2, <1>3, <1>4, <1>5 DEF Next

\* With one test thread an endpoint has its own side effect back once every patch of it
\* was left, however deep they were nested and whatever their exits raised.
THEOREM PatchesRestoredCorrect ==
  ASSUME OneThread
  PROVE  Spec => []PatchesRestored
<1>1. EffectInv /\ [Next]_vars => EffectInv'
  BY EffectStep
<1>2. EffectInv => PatchesRestored
  <2> SUFFICES ASSUME EffectInv, NEW e \in Endpoints,
                      \A t \in Threads :
                        /\ call[t].op \notin {"patchEffect", "exitEffect"}
                        /\ \A i \in DOMAIN contexts[t] :
                             contexts[t][i].kind = "effect" => contexts[t][i].ep # e
               PROVE  effect[e] = InitialEffect[e]
    BY DEF PatchesRestored
  <2>1. \A t \in Threads : Patched(t, e) = {}
    BY DEF Patched
  <2>2. \A t \in Threads : ~Restoring(t, e)
    BY CallFields DEF EffectInv, TypeInv, TypeOK, Restoring
  <2> QED
    BY <2>1, <2>2 DEF EffectInv
<1> QED
  BY <1>1, <1>2, EffectInit, PTL DEF Spec

(***************************************************************************)
(* The steps, as captures see them                                         *)
(***************************************************************************)
captureVars == <<openedOn, recorded, openAt, overlap, arrived, rstep, status, target>>

\* A step of a test thread that opens no capture: the call goes on or another begins,
\* and the lists of the endpoints can only lose their last capture.
ThreadStep(t) ==
  /\ UNCHANGED captureVars
  /\ \E c \in Calls : /\ call' = [call EXCEPT ![t] = c]
                      /\ c.op = "capture" => call[t].op = "capture" /\ c.arg = call[t].arg
  /\ captures' \in [Endpoints -> Seq(Captures)]
  /\ \A e \in Endpoints : Range(captures'[e]) \subseteq Range(captures[e])

\* A step of the task of a request in flight that records nothing.
TaskStep(r) ==
  /\ UNCHANGED <<captures, openedOn, recorded, openAt, overlap, arrived, call>>
  /\ rstep[r] \notin {"new", "done"}
  /\ \E step : step # "new" /\ rstep' = [rstep EXCEPT ![r] = step]
  /\ \E outcome : outcome # "ok" /\ status' \in {status, [status EXCEPT ![r] = outcome]}
  /\ \E e : target' = [target EXCEPT ![r] = e]

\* A thread step that leaves the capture lists alone.
LEMMA QuietThreadStep ==
  ASSUME TypeInv, NEW t \in Threads, NEW c \in Calls,
         call' = [call EXCEPT ![t] = c],
         c.op = "capture" => call[t].op = "capture" /\ c.arg = call[t].arg,
         UNCHANGED captureVars, captures' = captures
  PROVE  ThreadStep(t)
BY DEF ThreadStep, TypeInv, TypeOK

\* What follows a call never is a capture.
LEMMA AfterNoCapture ==
  ASSUME NEW t \in Threads
  PROVE  After(t).op # "capture"
<1>1. \A done : NextClassEndpoint(done).op # "capture"
  BY DEF NextClassEndpoint, Idle, Call
<1> QED
  BY <1>1 DEF After, Call, Idle

\* A thread that moves on within its call keeps its operation and its argument.
LEMMA GotoThreadStep ==
  ASSUME TypeInv, NEW t \in Threads, NEW step, Goto(t, step),
         [call[t] EXCEPT !.step = step] \in Calls,
         UNCHANGED captureVars, captures' = captures
  PROVE  ThreadStep(t)
<1> DEFINE c == [call[t] EXCEPT !.step = step]
<1>1. call[t] \in Calls
  BY DEF TypeInv, TypeOK
<1>2. c.op = call[t].op /\ c.arg = call[t].arg
  BY <1>1 DEF Calls, CallsOf, Call, Idle
<1>3. call' = [call EXCEPT ![t] = c]
  BY GotoCall
<1> HIDE DEF c
<1> QED
  BY <1>2, <1>3, QuietThreadStep DEF c

\* A thread that returns from its call.
LEMMA ReturnThreadStep ==
  ASSUME TypeInv, NEW t \in Threads, Return(t) \/ Raise(t),
         UNCHANGED captureVars, captures' = captures
  PROVE  ThreadStep(t)
<1>1. Idle \in Calls /\ Idle.op # "capture"
  BY CallShapes DEF Idle, Call
<1>2. CASE Return(t)
  BY <1>2, AfterIsCall, AfterNoCapture, QuietThreadStep DEF Return
<1>3. CASE Raise(t)
  BY <1>1, <1>3, QuietThreadStep DEF Raise
<1> QED
  BY <1>2, <1>3

\* A thread that begins a call other than a capture.
LEMMA BeginThreadStep ==
  ASSUME TypeInv, NEW t \in Threads, NEW c \in Calls, c.op # "capture", Begin(t, c),
         UNCHANGED captureVars, captures' = captures
  PROVE  ThreadStep(t)
BY QuietThreadStep DEF Begin

\* The calls a test makes, capture_calls aside.
LEMMA MakeCallSteps ==
  ASSUME TypeInv, NEW t \in Threads, MakeCall(t)
  PROVE  \/ ThreadStep(t)
         \/ \E e \in UserEndpoints \cup ClassEndpoints, c \in Captures : CallCapture(t, e, c)
<1> USE DEF serverVars, endpointVars, threadVars, loopVars, historyVars, captureVars
<1> SUFFICES ASSUME ~\E e \in UserEndpoints \cup ClassEndpoints, c \in Captures : CallCapture(t, e, c)
             PROVE  ThreadStep(t)
  OBVIOUS
<1>1. ASSUME NEW e \in UserEndpoints, NEW op \in {"add", "patchRoute"}, CallAdd(t, e, op)
      PROVE  ThreadStep(t)
  <2> DEFINE c == Call(op, e, None, "check")
  <2>1. c \in Calls /\ c.op # "capture"
    BY CallShapes DEF Call, Endpoints, AddOps
  <2>2. Begin(t, c)
    BY <1>1 DEF CallAdd
  <2> HIDE DEF c
  <2> QED
    BY <1>1, <2>1, <2>2, BeginThreadStep DEF CallAdd
<1>2. ASSUME NEW e \in UserEndpoints \cup ClassEndpoints, CallRemove(t, e)
      PROVE  ThreadStep(t)
  <2> DEFINE c == Call("remove", e, None, "check")
  <2>1. c \in Calls /\ c.op # "capture"
    BY CallShapes DEF Call, Endpoints, RemoveOps
  <2>2. Begin(t, c)
    BY <1>2 DEF CallRemove
  <2> HIDE DEF c
  <2> QED
    BY <1>2, <2>1, <2>2, BeginThreadStep DEF CallRemove
<1>3. ASSUME NEW e \in UserEndpoints \cup ClassEndpoints, NEW x \in Patches, CallPatch(t, e, x)
      PROVE  ThreadStep(t)
  <2> DEFINE c == Call("patchEffect", e, x, "check")
  <2>1. c \in Calls /\ c.op # "capture"
    BY CallShapes, ConstantsAssumption DEF Call, Endpoints
  <2>2. Begin(t, c)
    BY <1>3 DEF CallPatch
  <2> HIDE DEF c
  <2> QED
    BY <1>3, <2>1, <2>2, BeginThreadStep DEF CallPatch
<1>4. CASE ExitContext(t)
  <2>1. Last(contexts[t]) \in ContextsOf
    BY <1>4, FrontProperties DEF ExitContext, TypeInv, TypeOK
  <2>2. \E c \in Calls : c.op # "capture" /\ Begin(t, c)
    BY <1>4, <2>1, CallShapes DEF ExitContext, Call, ContextsOf, RemoveOps
  <2> QED
    BY <1>4, <2>2, BeginThreadStep DEF ExitContext
<1>5. CASE CallIsAlive(t)
  BY <1>5, CallShapes, BeginThreadStep DEF CallIsAlive, Call
<1>6. CASE CallStart(t)
  <2> DEFINE c == Call("pingAdd", Ping, None, "check")
  <2>1. c \in Calls /\ c.op # "capture"
    BY CallShapes DEF Call, Endpoints, AddOps
  <2>2. Begin(t, c)
    BY <1>6 DEF CallStart
  <2> HIDE DEF c
  <2> QED
    BY <1>6, <2>1, <2>2, BeginThreadStep DEF CallStart
<1>7. CASE CallStop(t)
  <2>1. Idle \in Calls /\ Idle.op # "capture"
    BY CallShapes DEF Idle, Call
  <2>2. CASE serve = "unstarted"
    <3>1. call' = [call EXCEPT ![t] = Idle]
      BY <1>7, <2>2 DEF CallStop, TypeInv, TypeOK
    <3> QED
      BY <1>7, <2>1, <3>1, QuietThreadStep DEF CallStop
  <2>3. CASE serve # "unstarted"
    BY <1>7, <2>3, CallShapes, BeginThreadStep DEF CallStop, Call
  <2> QED
    BY <2>2, <2>3
<1> QED
  BY <1>1, <1>2, <1>3, <1>4, <1>5, <1>6, <1>7 DEF MakeCall

\* Closing a capture ends one capture of one endpoint, or changes no list.
LEMMA CloseCaptureStep ==
  ASSUME TypeInv, NEW t \in Threads, CloseCapture(t)
  PROVE  ThreadStep(t)
<1> USE DEF serverVars, endpointVars, threadVars, loopVars, historyVars
<1> DEFINE open == captures[call[t].ep]
<1>1. call[t] \in Calls /\ Idle \in Calls /\ Idle.op # "capture"
  BY CallShapes DEF TypeInv, TypeOK, Idle, Call
<1>2. call[t].op = "exitCapture" /\ call[t].ep \in Endpoints
  BY <1>1, CallFields DEF CloseCapture, At, EndpointOps
<1>3. open \in Seq(Captures) /\ captures \in [Endpoints -> Seq(Captures)]
  BY <1>2 DEF TypeInv, TypeOK
<1>4. captures' = captures \/ (open # <<>> /\ captures' = [captures EXCEPT ![call[t].ep] = Front(open)])
  BY DEF CloseCapture
<1>5. ASSUME open # <<>>
      PROVE  Front(open) \in Seq(Captures) /\ Range(Front(open)) \subseteq Range(open)
  <2>1. /\ Front(open) \in Seq(Captures) /\ Len(Front(open)) = Len(open) - 1
        /\ \A j \in 1..(Len(open) - 1) : Front(open)[j] = open[j]
    BY <1>3, <1>5, FrontProperties
  <2>2. \A j \in 1..(Len(open) - 1) : j \in 1..Len(open)
    BY <1>3
  <2> QED
    BY <1>3, <2>1, <2>2, RangeEquality
<1>6. /\ captures' \in [Endpoints -> Seq(Captures)]
      /\ \A e \in Endpoints : Range(captures'[e]) \subseteq Range(captures[e])
  BY <1>2, <1>3, <1>4, <1>5
<1>7. \E c \in Calls : /\ call' = [call EXCEPT ![t] = c]
                       /\ c.op = "capture" => call[t].op = "capture" /\ c.arg = call[t].arg
  <2>1. CASE Goto(t, "check")
    <3> DEFINE c == [call[t] EXCEPT !.step = "check"]
    <3>1. c \in Calls /\ call' = [call EXCEPT ![t] = c]
      BY <1>1, <1>2, <2>1, CallMoves, GotoCall
    <3>2. c.op = call[t].op
      BY <1>1 DEF Calls, CallsOf, Call, Idle
    <3> HIDE DEF c
    <3> QED
      BY <1>2, <3>1, <3>2
  <2>2. CASE Raise(t)
    BY <1>1, <2>2 DEF Raise
  <2> QED
    BY <2>1, <2>2 DEF CloseCapture
<1>8. UNCHANGED captureVars
  BY DEF CloseCapture, captureVars
<1> QED
  BY <1>6, <1>7, <1>8 DEF ThreadStep

\* The steps of a call, the opening of a capture aside.
LEMMA StepCallSteps ==
  ASSUME TypeInv, NEW t \in Threads, StepCall(t)
  PROVE  ThreadStep(t) \/ OpenCapture(t)
<1> USE DEF serverVars, endpointVars, threadVars, loopVars, historyVars, captureVars
<1>0. call[t] \in Calls
  BY DEF TypeInv, TypeOK
<1>1. CASE CheckPending(t)
  <2>1. call[t].step = "check"
    BY <1>1 DEF CheckPending, At
  <2>2. \/ Raise(t) \/ Return(t)
        \/ \E step : Goto(t, step) /\ [call[t] EXCEPT !.step = step] \in Calls
    BY <1>0, <1>1, <2>1, CallMoves DEF CheckPending, AfterCheck, AddOps, RemoveOps
  <2>3. UNCHANGED captureVars /\ captures' = captures
    BY <1>1 DEF CheckPending
  <2> QED
    BY <2>2, <2>3, GotoThreadStep, ReturnThreadStep
<1>2. CASE ClearPending(t)
  BY <1>2, ReturnThreadStep DEF ClearPending
<1>3. CASE TestOwner(t)
  <2>1. \/ Raise(t)
        \/ \E step : Goto(t, step) /\ [call[t] EXCEPT !.step = step] \in Calls
    BY <1>0, <1>3, CallMoves, CallFields DEF TestOwner, At
  <2> QED
    BY <1>3, <2>1, GotoThreadStep, ReturnThreadStep DEF TestOwner
<1>4. CASE AppendRoute(t)
  BY <1>0, <1>4, CallMoves, CallFields, GotoThreadStep DEF AppendRoute, At
<1>5. CASE SetOwner(t)
  BY <1>5, ReturnThreadStep DEF SetOwner
<1>6. CASE PopRoute(t)
  BY <1>6, ReturnThreadStep DEF PopRoute
<1>7. CASE InstallEffect(t)
  BY <1>7, ReturnThreadStep DEF InstallEffect
<1>8. CASE RestoreEffect(t)
  BY <1>0, <1>8, CallMoves, CallFields, GotoThreadStep DEF RestoreEffect, At
<1>9. CASE PingAnswered(t)
  <2> DEFINE c == Call("pingRemove", Ping, None, "check")
  <2>1. c \in Calls /\ c.op # "capture"
    BY CallShapes DEF Call, Endpoints, RemoveOps
  <2>2. call' = [call EXCEPT ![t] = c]
    BY <1>9 DEF PingAnswered
  <2> HIDE DEF c
  <2> QED
    BY <1>9, <2>1, <2>2, QuietThreadStep DEF PingAnswered
<1>10. CASE PingTimesOut(t)
  <2> DEFINE c == Call("pingAbort", Ping, None, "check")
  <2>1. c \in Calls /\ c.op # "capture"
    BY CallShapes DEF Call, Endpoints, RemoveOps
  <2>2. call' = [call EXCEPT ![t] = c]
    BY <1>10 DEF PingTimesOut
  <2> HIDE DEF c
  <2> QED
    BY <1>10, <2>1, <2>2, QuietThreadStep DEF PingTimesOut
<1>11. CASE JoinServeThread(t)
  BY <1>0, <1>11, CallMoves, GotoThreadStep DEF JoinServeThread, At
<1> QED
  BY <1>1, <1>2, <1>3, <1>4, <1>5, <1>6, <1>7, <1>8, <1>9, <1>10, <1>11, CloseCaptureStep
     DEF StepCall

\* The steps of a task, the recording of its request aside.
LEMMA TaskSteps ==
  ASSUME TypeInv, NEW r \in Requests, StepTask(r) \/ CompleteTask(r)
  PROVE  TaskStep(r) \/ RecordAndRespond(r)
<1> USE DEF serverVars, endpointVars, threadVars, loopVars, historyVars
<1> SUFFICES ASSUME ~RecordAndRespond(r) PROVE TaskStep(r)
  OBVIOUS
<1>1. /\ UNCHANGED <<captures, openedOn, recorded, openAt, overlap, arrived, call>>
      /\ rstep[r] \notin {"new", "done"}
  BY DEF StepTask, CompleteTask, ScanRoute, GuardRequest, ReadSideEffect, UseStaticEffect,
         CallSideEffect, SideEffectReturns, SideEffectRaises, ClientDisconnects
<1>2. \E step : step # "new" /\ rstep' = [rstep EXCEPT ![r] = step]
  <2>1. rstep = [rstep EXCEPT ![r] = rstep[r]]
    BY DEF TypeInv, TypeOK
  <2>2. rstep' = rstep \/ \E step : step # "new" /\ Move(r, step)
    BY DEF StepTask, CompleteTask, ScanRoute, GuardRequest, ReadSideEffect, UseStaticEffect,
           CallSideEffect, SideEffectReturns, SideEffectRaises, ClientDisconnects, HandlerRaised,
           Respond
  <2> QED
    BY <1>1, <2>1, <2>2 DEF Move
<1>3. \E outcome : outcome # "ok" /\ status' \in {status, [status EXCEPT ![r] = outcome]}
  BY DEF StepTask, CompleteTask, ScanRoute, GuardRequest, ReadSideEffect, UseStaticEffect,
         CallSideEffect, SideEffectReturns, SideEffectRaises, ClientDisconnects, HandlerRaised,
         Respond
<1>4. \E e : target' = [target EXCEPT ![r] = e]
  <2>1. target = [target EXCEPT ![r] = target[r]]
    BY DEF TypeInv, TypeOK
  <2> QED
    BY <2>1 DEF StepTask, CompleteTask, ScanRoute, GuardRequest, ReadSideEffect,
         UseStaticEffect, CallSideEffect, SideEffectReturns, SideEffectRaises, ClientDisconnects
<1> QED
  BY <1>1, <1>2, <1>3, <1>4 DEF TaskStep

\* Every step is of one of these kinds.
LEMMA StepKinds ==
  ASSUME TypeInv, [Next]_vars
  PROVE  \/ \E t \in Threads : ThreadStep(t) \/ OpenCapture(t)
         \/ \E t \in Threads, e \in UserEndpoints \cup ClassEndpoints, c \in Captures :
              CallCapture(t, e, c)
         \/ \E r \in Requests : Arrive(r) \/ TaskStep(r) \/ RecordAndRespond(r)
         \/ UNCHANGED <<captures, call, captureVars>>
<1>1. ServeThreadExits \/ UNCHANGED vars => UNCHANGED <<captures, call, captureVars>>
  BY DEF ServeThreadExits, vars, serverVars, endpointVars, threadVars, loopVars, historyVars,
         captureVars
<1> QED
  BY <1>1, MakeCallSteps, StepCallSteps, TaskSteps DEF Next

--------------------------------------------------------------------------------
(***************************************************************************)
(* What captures hold                                                      *)
(***************************************************************************)

\* A capture is in the list of the endpoint it was opened on, if in any.
OpenWhereOpened == \A e \in Endpoints : \A c \in Range(captures[e]) : openedOn[c] = e
\* Before it is opened it is empty, no request has met it and one call at most holds it.
FreshUntilOpened ==
  /\ \A c \in Captures : openedOn[c] = None =>
       recorded[c] = <<>> /\ \A r \in Requests : c \notin openAt[r]
  /\ \A t \in Threads : call[t].op = "capture" =>
       /\ openedOn[call[t].arg] = None
       /\ \A u \in Threads : call[u].op = "capture" /\ call[u].arg = call[t].arg => u = t
\* A request gets its answer, and its place in a list, with its last step.
AnsweredWhenDone ==
  /\ \A r \in Requests : status[r] = "ok" => rstep[r] = "done"
  /\ \A c \in Captures : \A r \in Range(recorded[c]) : rstep[r] = "done"

CaptureInv ==
  /\ TypeInv
  /\ OpenWhereOpened /\ FreshUntilOpened /\ AnsweredWhenDone
  /\ RecordedOnlyAnswered /\ CapturedWhileOpen

LEMMA CaptureInit == Init => CaptureInv
<1> SUFFICES ASSUME Init PROVE CaptureInv
  OBVIOUS
<1>1. Range(<<>>) = {}
  BY DEF Range
<1>2. \A c \in Captures : recorded[c] = <<>> /\ openedOn[c] = None
  BY DEF Init
<1>3. \A e \in Endpoints : captures[e] = <<>>
  BY DEF Init
<1>4. \A t \in Threads : call[t].op # "capture"
  BY DEF Init, Idle, Call
<1>5. \A r \in Requests : status[r] = "none" /\ openAt[r] = {}
  BY DEF Init
<1>6. OpenWhereOpened /\ FreshUntilOpened /\ AnsweredWhenDone
  BY <1>1, <1>2, <1>3, <1>4, <1>5 DEF OpenWhereOpened, FreshUntilOpened, AnsweredWhenDone
<1>7. RecordedOnlyAnswered /\ CapturedWhileOpen
  BY <1>1, <1>2, <1>5 DEF RecordedOnlyAnswered, CapturedWhileOpen
<1> QED
  BY <1>6, <1>7, TypeInit DEF CaptureInv

\* What an element of a list extended by one can be.
LEMMA RangeOfAppend ==
  ASSUME NEW S, NEW s \in Seq(S), NEW x \in S
  PROVE  Range(Append(s, x)) = Range(s) \cup {x}
<1> DEFINE u == Append(s, x)
           n == Len(s)
<1>1. /\ u \in Seq(S) /\ Len(u) = n + 1 /\ n \in Nat
      /\ \A i \in 1..n : u[i] = s[i]
      /\ u[n + 1] = x
  BY AppendProperties
<1>2. Range(u) = {u[i] : i \in 1..Len(u)} /\ Range(s) = {s[i] : i \in 1..n}
  BY <1>1, RangeEquality
<1> HIDE DEF u, n
<1>3. 1..(n + 1) = 1..n \cup {n + 1}
  BY <1>1
<1>4. Range(u) = {u[i] : i \in 1..n \cup {n + 1}}
  BY <1>1, <1>2, <1>3
<1>5. {u[i] : i \in 1..n \cup {n + 1}} = {s[i] : i \in 1..n} \cup {x}
  BY <1>1
<1> QED
  BY <1>2, <1>4, <1>5 DEF u

LEMMA ThreadKeepsCaptures ==
  ASSUME CaptureInv, TypeInv', NEW t \in Threads, ThreadStep(t)
  PROVE  CaptureInv'
<1>1. PICK c \in Calls : /\ call' = [call EXCEPT ![t] = c]
                         /\ c.op = "capture" => call[t].op = "capture" /\ c.arg = call[t].arg
  BY DEF ThreadStep
<1>2. call \in [Threads -> Calls] /\ captures \in [Endpoints -> Seq(Captures)]
  BY DEF CaptureInv, TypeInv, TypeOK
<1>3. UNCHANGED <<openedOn, recorded, openAt, rstep, status, target>>
  BY DEF ThreadStep, captureVars
<1>4. \A e \in Endpoints : Range(captures'[e]) \subseteq Range(captures[e])
  BY DEF ThreadStep
<1>5. OpenWhereOpened'
  BY <1>3, <1>4 DEF CaptureInv, OpenWhereOpened
<1>6. FreshUntilOpened'
  BY <1>1, <1>2, <1>3 DEF CaptureInv, FreshUntilOpened
<1>7. AnsweredWhenDone' /\ RecordedOnlyAnswered'
  BY <1>3 DEF CaptureInv, AnsweredWhenDone, RecordedOnlyAnswered
<1>8. CapturedWhileOpen'
  <2> SUFFICES ASSUME NEW r \in Requests, NEW d \in Captures, status[r] = "ok", d \in openAt[r],
                      d \in Range(captures'[target[r]])
               PROVE  r \in Range(recorded[d])
    BY <1>3 DEF CapturedWhileOpen
  <2>1. target[r] \in Endpoints
    BY DEF CaptureInv, TypeInv, Routed
  <2> QED
    BY <1>4, <2>1 DEF CaptureInv, CapturedWhileOpen
<1> QED
  BY <1>5, <1>6, <1>7, <1>8 DEF CaptureInv

LEMMA TaskKeepsCaptures ==
  ASSUME CaptureInv, TypeInv', NEW r \in Requests, TaskStep(r)
  PROVE  CaptureInv'
<1>1. /\ UNCHANGED <<captures, openedOn, recorded, openAt, call>>
      /\ rstep[r] # "done"
      /\ \E step : rstep' = [rstep EXCEPT ![r] = step]
      /\ \E outcome : outcome # "ok" /\ status' \in {status, [status EXCEPT ![r] = outcome]}
      /\ \E e : target' = [target EXCEPT ![r] = e]
  BY DEF TaskStep
<1>2. rstep \in [Requests -> {"new", "scan", "guard", "read", "static", "callable",
                              "running", "body", "done"}]
      /\ status \in [Requests -> Statuses] /\ target \in [Requests -> Endpoints \cup {None}]
      /\ recorded \in [Captures -> Seq(Requests)]
  BY DEF CaptureInv, TypeInv, TypeOK
<1>3. \A q \in Requests : rstep[q] = "done" =>
        rstep'[q] = "done" /\ status'[q] = status[q] /\ target'[q] = target[q]
  BY <1>1, <1>2
<1>4. \A q \in Requests : status'[q] = "ok" => status[q] = "ok"
  BY <1>1, <1>2
<1>5. OpenWhereOpened' /\ FreshUntilOpened'
  BY <1>1 DEF CaptureInv, OpenWhereOpened, FreshUntilOpened
<1>6. \A c \in Captures : Range(recorded[c]) \subseteq Requests
  BY <1>2, RangeOfSeq
<1>7. AnsweredWhenDone'
  BY <1>1, <1>3, <1>4, <1>6 DEF CaptureInv, AnsweredWhenDone
<1>8. RecordedOnlyAnswered'
  BY <1>1, <1>3, <1>6 DEF CaptureInv, AnsweredWhenDone, RecordedOnlyAnswered
<1>9. CapturedWhileOpen'
  BY <1>1, <1>3, <1>4 DEF CaptureInv, AnsweredWhenDone, CapturedWhileOpen
<1> QED
  BY <1>5, <1>7, <1>8, <1>9 DEF CaptureInv

LEMMA CallCaptureKeepsCaptures ==
  ASSUME CaptureInv, TypeInv', NEW t \in Threads, NEW e \in UserEndpoints \cup ClassEndpoints,
         NEW c \in Captures, CallCapture(t, e, c)
  PROVE  CaptureInv'
<1>1. UNCHANGED <<captures, openedOn, recorded, openAt, rstep, status, target>>
  BY DEF CallCapture, serverVars, endpointVars, loopVars, historyVars
<1>2. OpenWhereOpened' /\ AnsweredWhenDone' /\ RecordedOnlyAnswered' /\ CapturedWhileOpen'
  BY <1>1 DEF CaptureInv, OpenWhereOpened, AnsweredWhenDone, RecordedOnlyAnswered,
              CapturedWhileOpen
<1>3. FreshUntilOpened'
  <2> DEFINE k == Call("capture", e, c, "check")
  <2>1. k.op = "capture" /\ k.arg = c
    BY DEF Call
  <2>2. call' = [call EXCEPT ![t] = k] /\ call \in [Threads -> Calls]
    BY DEF CallCapture, Begin, CaptureInv, TypeInv, TypeOK
  <2>3. openedOn[c] = None /\ \A u \in Threads : call[u].arg # c
    BY DEF CallCapture
  <2> HIDE DEF k
  <2> QED
    BY <1>1, <2>1, <2>2, <2>3 DEF CaptureInv, FreshUntilOpened
<1> QED
  BY <1>2, <1>3 DEF CaptureInv

\* The capture that opens is one no request has met, so it owes none a record.
LEMMA OpenCaptureKeepsCaptures ==
  ASSUME CaptureInv, TypeInv', NEW t \in Threads, OpenCapture(t)
  PROVE  CaptureInv'
<1> DEFINE e == call[t].ep
           c == call[t].arg
<1>1. call[t] \in Calls /\ call \in [Threads -> Calls]
  BY DEF CaptureInv, TypeInv, TypeOK
<1>2. e \in Endpoints /\ call[t].op = "capture" /\ c \in Captures
  BY <1>1, CallFields DEF OpenCapture, At, EndpointOps
<1>3. UNCHANGED <<recorded, openAt, rstep, status, target>>
  BY DEF OpenCapture, serverVars, loopVars
<1>4. call' = [call EXCEPT ![t] = Idle] /\ Idle.op # "capture"
  BY <1>2 DEF OpenCapture, Return, After, Idle, Call
<1>5. /\ captures \in [Endpoints -> Seq(Captures)]
      /\ openedOn \in [Captures -> Endpoints \cup {None}]
      /\ target \in [Requests -> Endpoints \cup {None}]
  BY DEF CaptureInv, TypeInv, TypeOK
<1>6. openedOn[c] = None /\ recorded[c] = <<>> /\ \A r \in Requests : c \notin openAt[r]
  BY <1>2 DEF CaptureInv, FreshUntilOpened
<1>7. None \notin Endpoints
  BY ConstantsAssumption
<1>8. CASE e \notin AutoRead
  <2>1. UNCHANGED <<captures, openedOn>>
    BY <1>8 DEF OpenCapture
  <2>2. FreshUntilOpened'
    BY <1>1, <1>3, <1>4, <2>1 DEF CaptureInv, FreshUntilOpened
  <2> QED
    BY <1>3, <2>1, <2>2 DEF CaptureInv, OpenWhereOpened, AnsweredWhenDone,
                            RecordedOnlyAnswered, CapturedWhileOpen
<1>9. CASE e \in AutoRead
  <2>1. /\ captures' = [captures EXCEPT ![e] = Append(captures[e], c)]
        /\ openedOn' = [openedOn EXCEPT ![c] = e]
    BY <1>9 DEF OpenCapture
  <2>2. Range(Append(captures[e], c)) = Range(captures[e]) \cup {c}
    BY <1>2, <1>5, RangeOfAppend
  <2>3. \A d \in Captures : d # c => openedOn'[d] = openedOn[d]
    BY <1>5, <2>1
  <2>4. \A f \in Endpoints : \A d \in Range(captures'[f]) :
          d \in Range(captures[f]) \/ (d = c /\ f = e)
    BY <1>2, <1>5, <2>1, <2>2
  <2>5. openedOn'[c] = e
    BY <1>2, <1>5, <2>1
  <2>6. \A f \in Endpoints : Range(captures[f]) \subseteq Captures
    BY <1>5, RangeOfSeq
  <2>7. \A f \in Endpoints : c \notin Range(captures[f])
    BY <1>6, <1>7 DEF CaptureInv, OpenWhereOpened
  <2> HIDE DEF e, c
  <2>8. OpenWhereOpened'
    BY <2>3, <2>4, <2>5, <2>6, <2>7 DEF CaptureInv, OpenWhereOpened
  <2>9. FreshUntilOpened'
    <3>1. ASSUME NEW d \in Captures, openedOn'[d] = None
          PROVE  recorded[d] = <<>> /\ \A r \in Requests : d \notin openAt[r]
      <4>1. d # c
        BY <1>2, <1>7, <2>5, <3>1
      <4> QED
        BY <2>3, <3>1, <4>1 DEF CaptureInv, FreshUntilOpened
    <3>2. ASSUME NEW u \in Threads, call'[u].op = "capture"
          PROVE  /\ openedOn'[call'[u].arg] = None
                 /\ \A v \in Threads :
                      call'[v].op = "capture" /\ call'[v].arg = call'[u].arg => v = u
      <4>1. u # t /\ call'[u] = call[u]
        BY <1>1, <1>4, <3>2
      <4>2. call[u].arg # c /\ call[u].arg \in Captures
        BY <1>1, <1>2, <3>2, <4>1, CallFields DEF CaptureInv, FreshUntilOpened, c
      <4>3. \A v \in Threads : call'[v].op = "capture" => call'[v] = call[v]
        BY <1>1, <1>4
      <4> QED
        BY <2>3, <3>2, <4>1, <4>2, <4>3 DEF CaptureInv, FreshUntilOpened
    <3> QED
      BY <1>3, <3>1, <3>2 DEF FreshUntilOpened
  <2>10. AnsweredWhenDone'
    BY <1>3 DEF CaptureInv, AnsweredWhenDone
  <2>11. RecordedOnlyAnswered'
    <3>1. Range(recorded[c]) = {}
      BY <1>6 DEF Range
    <3>2. \A d \in Captures : \A r \in Range(recorded[d]) : openedOn'[d] = openedOn[d]
      BY <2>3, <3>1
    <3> QED
      BY <1>3, <3>2 DEF CaptureInv, RecordedOnlyAnswered
  <2>12. CapturedWhileOpen'
    <3> SUFFICES ASSUME NEW r \in Requests, NEW d \in Captures, status[r] = "ok",
                        d \in openAt[r], d \in Range(captures'[target[r]])
                 PROVE  r \in Range(recorded[d])
      BY <1>3 DEF CapturedWhileOpen
    <3>1. target[r] \in Endpoints
      BY DEF CaptureInv, TypeInv, Routed
    <3>2. d \in Range(captures[target[r]])
      BY <1>6, <2>4, <3>1
    <3> QED
      BY <3>2 DEF CaptureInv, CapturedWhileOpen
  <2> QED
    BY <2>8, <2>9, <2>10, <2>11, <2>12 DEF CaptureInv
<1> QED
  BY <1>8, <1>9

LEMMA ArriveKeepsCaptures ==
  ASSUME CaptureInv, TypeInv', NEW r \in Requests, Arrive(r)
  PROVE  CaptureInv'
<1>1. /\ UNCHANGED <<captures, recorded, openedOn, call, status, target>>
      /\ rstep[r] = "new" /\ rstep' = [rstep EXCEPT ![r] = "scan"]
      /\ openAt' = [openAt EXCEPT ![r] = {c \in Captures : IsOpen(c)}]
  BY DEF Arrive, Move, endpointVars, threadVars
<1>2. /\ rstep \in [Requests -> {"new", "scan", "guard", "read", "static", "callable",
                                 "running", "body", "done"}]
      /\ openAt \in [Requests -> SUBSET Captures]
      /\ recorded \in [Captures -> Seq(Requests)]
  BY DEF CaptureInv, TypeInv, TypeOK
<1>3. \A q \in Requests : rstep[q] = "done" => rstep'[q] = "done" /\ openAt'[q] = openAt[q]
  BY <1>1, <1>2
<1>4. \A c \in Captures : Range(recorded[c]) \subseteq Requests
  BY <1>2, RangeOfSeq
<1>5. OpenWhereOpened' /\ RecordedOnlyAnswered'
  BY <1>1 DEF CaptureInv, OpenWhereOpened, RecordedOnlyAnswered
<1>6. AnsweredWhenDone' /\ CapturedWhileOpen'
  BY <1>1, <1>3, <1>4 DEF CaptureInv, AnsweredWhenDone, CapturedWhileOpen
<1>7. FreshUntilOpened'
  <2>1. \A c \in Captures : IsOpen(c) => openedOn[c] # None
    BY ConstantsAssumption DEF CaptureInv, OpenWhereOpened, IsOpen
  <2>2. \A c \in Captures, q \in Requests :
          openedOn[c] = None /\ c \notin openAt[q] => c \notin openAt'[q]
    BY <1>1, <1>2, <2>1
  <2> QED
    BY <1>1, <2>2 DEF CaptureInv, FreshUntilOpened
<1> QED
  BY <1>5, <1>6, <1>7 DEF CaptureInv

\* The answer and the records are one step: every list the endpoint has open gets it.
LEMMA RecordKeepsCaptures ==
  ASSUME CaptureInv, TypeInv', NEW r \in Requests, RecordAndRespond(r)
  PROVE  CaptureInv'
<1> DEFINE open == Range(captures[target[r]])
<1>1. /\ UNCHANGED <<captures, openedOn, openAt, call, target>>
      /\ rstep[r] = "body" /\ rstep' = [rstep EXCEPT ![r] = "done"]
      /\ status' = [status EXCEPT ![r] = IF status[r] = "broken" THEN "broken" ELSE "ok"]
      /\ recorded' = [c \in Captures |-> IF c \in open THEN Append(recorded[c], r)
                                         ELSE recorded[c]]
  BY DEF RecordAndRespond, Move, Respond, threadVars, historyVars
<1>2. /\ rstep \in [Requests -> {"new", "scan", "guard", "read", "static", "callable",
                                 "running", "body", "done"}]
      /\ status \in [Requests -> Statuses]
      /\ recorded \in [Captures -> Seq(Requests)]
      /\ captures \in [Endpoints -> Seq(Captures)]
  BY DEF CaptureInv, TypeInv, TypeOK
<1>3. target[r] \in Endpoints /\ open \subseteq Captures
  <2>1. target[r] \in Endpoints
    BY <1>1 DEF CaptureInv, TypeInv, Routed
  <2> QED
    BY <1>2, <2>1, RangeOfSeq
<1>4. \A c \in open : openedOn[c] = target[r]
  BY <1>3 DEF CaptureInv, OpenWhereOpened
<1>5. \A c \in Captures : Range(recorded[c]) \subseteq Requests /\ r \notin Range(recorded[c])
  BY <1>1, <1>2, RangeOfSeq DEF CaptureInv, AnsweredWhenDone
<1>6. \A c \in Captures : Range(recorded'[c]) =
        IF c \in open THEN Range(recorded[c]) \cup {r} ELSE Range(recorded[c])
  <2> SUFFICES ASSUME NEW c \in Captures
               PROVE  Range(recorded'[c]) = IF c \in open THEN Range(recorded[c]) \cup {r}
                                            ELSE Range(recorded[c])
    OBVIOUS
  <2>1. Range(Append(recorded[c], r)) = Range(recorded[c]) \cup {r}
    BY <1>2, RangeOfAppend
  <2>2. recorded'[c] = IF c \in open THEN Append(recorded[c], r) ELSE recorded[c]
    BY <1>1
  <2> QED
    BY <2>1, <2>2
<1> HIDE DEF open
<1>7. \A q \in Requests : rstep[q] = "done" => rstep'[q] = "done" /\ status'[q] = status[q]
  BY <1>1, <1>2
<1>8. rstep'[r] = "done" /\ status'[r] \in {"ok", "broken"}
  BY <1>1, <1>2
<1>9. \A q \in Requests : q # r => status'[q] = status[q] /\ rstep'[q] = rstep[q]
  BY <1>1, <1>2
<1>10. OpenWhereOpened'
  BY <1>1 DEF CaptureInv, OpenWhereOpened
<1>11. FreshUntilOpened'
  <2>1. \A c \in Captures : openedOn[c] = None => c \notin open
    BY <1>3, <1>4, ConstantsAssumption
  <2>2. \A c \in Captures : c \notin open => recorded'[c] = recorded[c]
    BY <1>1
  <2> QED
    BY <1>1, <2>1, <2>2 DEF CaptureInv, FreshUntilOpened
<1>12. AnsweredWhenDone'
  BY <1>5, <1>6, <1>7, <1>8, <1>9 DEF CaptureInv, AnsweredWhenDone
<1>13. RecordedOnlyAnswered'
  <2> SUFFICES ASSUME NEW c \in Captures
               PROVE  /\ \A i, j \in DOMAIN recorded'[c] : recorded'[c][i] = recorded'[c][j] => i = j
                      /\ \A q \in Range(recorded'[c]) :
                           status'[q] \in {"ok", "broken"} /\ target[q] = openedOn[c]
    BY <1>1 DEF RecordedOnlyAnswered
  <2>1. \A q \in Range(recorded'[c]) :
          status'[q] \in {"ok", "broken"} /\ target[q] = openedOn[c]
    <3>1. ASSUME NEW q \in Range(recorded[c])
          PROVE  status'[q] \in {"ok", "broken"} /\ target[q] = openedOn[c]
      BY <1>5, <1>9 DEF CaptureInv, RecordedOnlyAnswered
    <3>2. r \in Range(recorded'[c]) => target[r] = openedOn[c]
      BY <1>4, <1>5, <1>6
    <3>3. \A q \in Range(recorded'[c]) : q = r \/ q \in Range(recorded[c])
      BY <1>6
    <3> QED
      BY <1>8, <3>1, <3>2, <3>3
  <2>2. CASE c \notin open
    <3>1. recorded'[c] = recorded[c]
      BY <1>1, <2>2
    <3> QED
      BY <2>1, <3>1 DEF CaptureInv, RecordedOnlyAnswered
  <2>3. CASE c \in open
    <3> DEFINE s == recorded[c]
               u == recorded'[c]
    <3>1. s \in Seq(Requests) /\ u = Append(s, r)
      BY <1>1, <1>2, <2>3
    <3>2. /\ Len(s) \in Nat /\ DOMAIN s = 1..Len(s) /\ DOMAIN u = 1..(Len(s) + 1)
          /\ \A i \in 1..Len(s) : u[i] = s[i]
          /\ u[Len(s) + 1] = r
      BY <3>1, AppendProperties, LenProperties
    <3>3. \A i \in 1..Len(s) : s[i] # r
      BY <1>5, <3>1, RangeEquality
    <3>4. \A i, j \in 1..Len(s) : s[i] = s[j] => i = j
      BY <3>2 DEF CaptureInv, RecordedOnlyAnswered
    <3>5. \A i \in DOMAIN u : i \in 1..Len(s) \/ i = Len(s) + 1
      BY <3>2
    <3> HIDE DEF s, u
    <3>6. \A i, j \in DOMAIN u : u[i] = u[j] => i = j
      BY <3>2, <3>3, <3>4, <3>5
    <3> QED
      BY <2>1, <3>6 DEF u
  <2> QED
    BY <2>2, <2>3
<1>14. CapturedWhileOpen'
  <2> SUFFICES ASSUME NEW q \in Requests, NEW c \in Captures, status'[q] = "ok",
                      c \in openAt[q], c \in Range(captures[target[q]])
               PROVE  q \in Range(recorded'[c])
    BY <1>1 DEF CapturedWhileOpen
  <2>1. CASE q = r
    BY <1>6, <2>1 DEF open
  <2>2. CASE q # r
    BY <1>6, <1>9, <2>2 DEF CaptureInv, CapturedWhileOpen
  <2> QED
    BY <2>1, <2>2
<1> QED
  BY <1>10, <1>11, <1>12, <1>13, <1>14 DEF CaptureInv

LEMMA CaptureStep == CaptureInv /\ [Next]_vars => CaptureInv'
<1> SUFFICES ASSUME CaptureInv, [Next]_vars PROVE CaptureInv'
  OBVIOUS
<1>1. TypeInv /\ TypeInv'
  BY TypeStep DEF CaptureInv
<1>2. CASE UNCHANGED <<captures, call, captureVars>>
  BY <1>1, <1>2 DEF captureVars, CaptureInv, OpenWhereOpened, FreshUntilOpened,
                    AnsweredWhenDone, RecordedOnlyAnswered, CapturedWhileOpen
<1> QED
  BY <1>1, <1>2, StepKinds, ThreadKeepsCaptures, TaskKeepsCaptures, CallCaptureKeepsCaptures,
     OpenCaptureKeepsCaptures, ArriveKeepsCaptures, RecordKeepsCaptures

LEMMA CaptureInvariant == Spec => []CaptureInv
BY CaptureInit, CaptureStep, PTL DEF Spec

\* A client never has the answer of an endpoint before the captures that were open when
\* its request arrived, and still are, hold the request: however test threads open,
\* close and patch, and however many requests are in flight.
THEOREM CapturedWhileOpenCorrect == Spec => []CapturedWhileOpen
<1>1. CaptureInv => CapturedWhileOpen
  BY DEF CaptureInv
<1> QED
  BY <1>1, CaptureInvariant, PTL

\* A capture holds the requests its own endpoint answered, each once, and no other.
THEOREM RecordedOnlyAnsweredCorrect == Spec => []RecordedOnlyAnswered
<1>1. CaptureInv => RecordedOnlyAnswered
  BY DEF CaptureInv
<1> QED
  BY <1>1, CaptureInvariant, PTL

--------------------------------------------------------------------------------
(***************************************************************************)
(* The order of the records of a capture                                   *)
(***************************************************************************)

\* Which requests were in flight together, and which came first.
OverlapInv ==
  \* a request that is no longer new has its place among the arrivals
  /\ \A r \in Requests : rstep[r] # "new" => r \in Range(arrived)
  \* overlapping is mutual, and starts with the arrival
  /\ \A q, r \in Requests : q \in overlap[r] => r \in overlap[q] /\ rstep[r] # "new"
  \* two requests in flight overlap
  /\ \A q, r \in InFlight : q # r => q \in overlap[r]
  \* one that was done before another arrived is earlier in the order of arrival
  /\ \A q \in Requests, r \in InFlight :
       rstep[q] = "done" => ArrivedBefore(q, r) \/ q \in overlap[r]

LEMMA OverlapInit == Init => OverlapInv
BY DEF Init, OverlapInv, InFlight

\* A task that moves on, or ends, was in flight together with all those still in flight.
LEMMA MoveKeepsOverlaps ==
  ASSUME TypeInv, OverlapInv, NEW r \in Requests, NEW step, step # "new",
         rstep[r] \notin {"new", "done"}, rstep' = [rstep EXCEPT ![r] = step],
         UNCHANGED <<overlap, arrived>>
  PROVE  OverlapInv'
<1>1. rstep \in [Requests -> {"new", "scan", "guard", "read", "static", "callable",
                              "running", "body", "done"}]
  BY DEF TypeInv, TypeOK
<1>2. \A q \in Requests : rstep'[q] = IF q = r THEN step ELSE rstep[q]
  BY <1>1
<1>3. InFlight' \subseteq InFlight /\ r \in InFlight
  BY <1>2 DEF InFlight
<1>4. \A q \in Requests : rstep'[q] # "new" => rstep[q] # "new"
  BY <1>2
<1>5. \A q \in Requests : rstep[q] # "new" => rstep'[q] # "new"
  BY <1>2
<1>6. \A q \in Requests, p \in InFlight' :
        rstep'[q] = "done" => ArrivedBefore(q, p)' \/ q \in overlap'[p]
  <2> SUFFICES ASSUME NEW q \in Requests, NEW p \in InFlight', rstep'[q] = "done"
               PROVE  ArrivedBefore(q, p) \/ q \in overlap[p]
    BY DEF ArrivedBefore
  <2>1. CASE q = r
    <3>1. p # r
      BY <1>2, <2>1 DEF InFlight
    <3> QED
      BY <1>3, <2>1, <3>1 DEF OverlapInv
  <2>2. CASE q # r
    BY <1>2, <1>3, <2>2 DEF OverlapInv
  <2> QED
    BY <2>1, <2>2
<1> QED
  BY <1>3, <1>4, <1>5, <1>6 DEF OverlapInv

\* A list's element is before the one appended to it.
LEMMA AppendedLast ==
  ASSUME NEW S, NEW s \in Seq(S), NEW x \in S, NEW y \in Range(s)
  PROVE  \E i, j \in DOMAIN Append(s, x) : i < j /\ Append(s, x)[i] = y /\ Append(s, x)[j] = x
<1>1. PICK i \in 1..Len(s) : s[i] = y
  BY RangeEquality
<1>2. /\ Append(s, x) \in Seq(S) /\ Len(Append(s, x)) = Len(s) + 1 /\ Len(s) \in Nat
      /\ Append(s, x)[i] = y
      /\ Append(s, x)[Len(s) + 1] = x
  BY <1>1, AppendProperties
<1>3. DOMAIN Append(s, x) = 1..(Len(s) + 1)
  BY <1>2
<1>4. i \in DOMAIN Append(s, x) /\ Len(s) + 1 \in DOMAIN Append(s, x) /\ i < Len(s) + 1
  BY <1>1, <1>2, <1>3
<1> QED
  BY <1>2, <1>4

\* A list that grows keeps the order of its elements.
LEMMA AppendKeepsOrder ==
  ASSUME NEW S, NEW s \in Seq(S), NEW x \in S, NEW i \in DOMAIN s
  PROVE  i \in DOMAIN Append(s, x) /\ Append(s, x)[i] = s[i]
<1>1. /\ Append(s, x) \in Seq(S) /\ Len(Append(s, x)) = Len(s) + 1 /\ Len(s) \in Nat
      /\ \A k \in 1..Len(s) : Append(s, x)[k] = s[k]
  BY AppendProperties
<1>2. DOMAIN Append(s, x) = 1..(Len(s) + 1) /\ i \in 1..Len(s)
  BY <1>1
<1> QED
  BY <1>1, <1>2

LEMMA ArriveKeepsOverlaps ==
  ASSUME TypeInv, OverlapInv, NEW r \in Requests, Arrive(r)
  PROVE  /\ OverlapInv'
         /\ \A p, q \in Requests : ArrivedBefore(p, q) => ArrivedBefore(p, q)'
         /\ \A q \in Requests : overlap[q] \subseteq overlap'[q]
<1>1. /\ rstep \in [Requests -> {"new", "scan", "guard", "read", "static", "callable",
                                 "running", "body", "done"}]
      /\ overlap \in [Requests -> SUBSET Requests]
      /\ arrived \in Seq(Requests)
  BY DEF TypeInv, TypeOK
<1>2. /\ rstep[r] = "new" /\ rstep' = [rstep EXCEPT ![r] = "scan"]
      /\ arrived' = Append(arrived, r)
      /\ overlap' = [q \in Requests |-> IF q = r THEN InFlight
                                        ELSE IF q \in InFlight THEN overlap[q] \cup {r}
                                        ELSE overlap[q]]
  BY DEF Arrive, Move
<1>3. \A q \in Requests : rstep'[q] = IF q = r THEN "scan" ELSE rstep[q]
  BY <1>1, <1>2
<1>4. InFlight' = InFlight \cup {r} /\ r \notin InFlight /\ InFlight \subseteq Requests
  BY <1>2, <1>3 DEF InFlight
<1>5. overlap[r] = {} /\ \A q \in Requests : r \notin overlap[q]
  BY <1>1, <1>2 DEF OverlapInv
<1>6. \A q \in Requests : overlap[q] \subseteq overlap'[q]
  BY <1>2, <1>5
<1>7. \A p, q \in Requests : ArrivedBefore(p, q) => ArrivedBefore(p, q)'
  <2> SUFFICES ASSUME NEW p \in Requests, NEW q \in Requests, ArrivedBefore(p, q)
               PROVE  ArrivedBefore(p, q)'
    OBVIOUS
  <2>1. PICK i, j \in DOMAIN arrived : i < j /\ arrived[i] = p /\ arrived[j] = q
    BY DEF ArrivedBefore
  <2>2. i \in DOMAIN arrived' /\ arrived'[i] = p /\ j \in DOMAIN arrived' /\ arrived'[j] = q
    BY <1>1, <1>2, <2>1, AppendKeepsOrder
  <2> QED
    BY <2>1, <2>2 DEF ArrivedBefore
<1>8. Range(arrived') = Range(arrived) \cup {r}
  BY <1>1, <1>2, RangeOfAppend
<1>9. \A q \in Requests : rstep'[q] # "new" => q \in Range(arrived')
  BY <1>3, <1>8 DEF OverlapInv
<1>10. \A p, q \in Requests : p \in overlap'[q] => q \in overlap'[p] /\ rstep'[q] # "new"
  <2> SUFFICES ASSUME NEW p \in Requests, NEW q \in Requests, p \in overlap'[q]
               PROVE  q \in overlap'[p] /\ rstep'[q] # "new"
    OBVIOUS
  <2>1. CASE q = r
    BY <1>2, <1>3, <1>4, <2>1
  <2>2. CASE q # r /\ p = r
    BY <1>2, <1>3, <1>4, <1>5, <2>2 DEF InFlight
  <2>3. CASE q # r /\ p # r
    BY <1>2, <1>3, <1>6, <2>3 DEF OverlapInv
  <2> QED
    BY <2>1, <2>2, <2>3
<1>11. \A p, q \in InFlight' : p # q => p \in overlap'[q]
  BY <1>2, <1>4 DEF OverlapInv
<1>12. \A q \in Requests, p \in InFlight' :
         rstep'[q] = "done" => ArrivedBefore(q, p)' \/ q \in overlap'[p]
  <2> SUFFICES ASSUME NEW q \in Requests, NEW p \in InFlight', rstep'[q] = "done"
               PROVE  ArrivedBefore(q, p)' \/ q \in overlap'[p]
    OBVIOUS
  <2>1. q # r /\ rstep[q] = "done"
    BY <1>3
  <2>2. CASE p = r
    <3>1. q \in Range(arrived)
      BY <2>1 DEF OverlapInv
    <3>2. \E i, j \in DOMAIN Append(arrived, r) :
            i < j /\ Append(arrived, r)[i] = q /\ Append(arrived, r)[j] = r
      BY <1>1, <3>1, AppendedLast
    <3> QED
      BY <1>2, <2>2, <3>2 DEF ArrivedBefore
  <2>3. CASE p # r
    <3>1. ArrivedBefore(q, p) \/ q \in overlap[p]
      BY <1>4, <2>1, <2>3 DEF OverlapInv
    <3> QED
      BY <1>4, <1>6, <1>7, <2>3, <3>1
  <2> QED
    BY <2>2, <2>3
<1> QED
  BY <1>6, <1>7, <1>9, <1>10, <1>11, <1>12 DEF OverlapInv

OrderInv == CaptureInv /\ OverlapInv /\ RecordedInOrderUnlessOverlapping

LEMMA OrderInit == Init => OrderInv
<1> SUFFICES ASSUME Init PROVE OrderInv
  OBVIOUS
<1>1. \A c \in Captures : recorded[c] = <<>>
  BY DEF Init
<1>2. RecordedInOrderUnlessOverlapping
  BY <1>1 DEF RecordedInOrderUnlessOverlapping
<1> QED
  BY <1>2, CaptureInit, OverlapInit DEF OrderInv

\* Steps that record nothing and take nothing from the history.
LEMMA RecordsInOrderKept ==
  ASSUME OrderInv, recorded' = recorded,
         \A p, q \in Requests : ArrivedBefore(p, q) => ArrivedBefore(p, q)',
         \A q \in Requests : overlap[q] \subseteq overlap'[q]
  PROVE  RecordedInOrderUnlessOverlapping'
<1>1. \A c \in Captures : \A i \in DOMAIN recorded[c] : recorded[c][i] \in Requests
  BY ElementOfSeq DEF OrderInv, CaptureInv, TypeInv, TypeOK
<1> QED
  BY <1>1 DEF OrderInv, RecordedInOrderUnlessOverlapping

\* The request that is recorded last was in flight with those recorded before it, or
\* arrived after they were done.
LEMMA RecordKeepsOrder ==
  ASSUME OrderInv, NEW r \in Requests, RecordAndRespond(r)
  PROVE  RecordedInOrderUnlessOverlapping'
<1> DEFINE open == Range(captures[target[r]])
<1>1. /\ UNCHANGED <<overlap, arrived>>
      /\ r \in InFlight
      /\ recorded' = [c \in Captures |-> IF c \in open THEN Append(recorded[c], r)
                                         ELSE recorded[c]]
  BY DEF RecordAndRespond, historyVars, InFlight
<1> HIDE DEF open
<1> SUFFICES ASSUME NEW c \in Captures, NEW i \in DOMAIN recorded'[c],
                    NEW j \in DOMAIN recorded'[c], i < j
             PROVE  \/ ArrivedBefore(recorded'[c][i], recorded'[c][j])
                    \/ recorded'[c][i] \in overlap[recorded'[c][j]]
  BY <1>1 DEF RecordedInOrderUnlessOverlapping, ArrivedBefore
<1>2. CASE c \notin open
  <2>1. recorded'[c] = recorded[c]
    BY <1>1, <1>2
  <2> QED
    BY <2>1 DEF OrderInv, RecordedInOrderUnlessOverlapping
<1>3. CASE c \in open
  <2> DEFINE s == recorded[c]
             u == recorded'[c]
  <2>1. s \in Seq(Requests) /\ u = Append(s, r)
    BY <1>1, <1>3 DEF OrderInv, CaptureInv, TypeInv, TypeOK
  <2>2. /\ Len(s) \in Nat /\ DOMAIN s = 1..Len(s) /\ DOMAIN u = 1..(Len(s) + 1)
        /\ \A k \in 1..Len(s) : u[k] = s[k]
        /\ u[Len(s) + 1] = r
    BY <2>1, AppendProperties, LenProperties
  <2>3. \A k, l \in 1..Len(s) : k < l => ArrivedBefore(s[k], s[l]) \/ s[k] \in overlap[s[l]]
    BY <2>2 DEF OrderInv, RecordedInOrderUnlessOverlapping
  <2>4. \A k \in 1..Len(s) : s[k] \in Requests /\ rstep[s[k]] = "done"
    BY <2>1, RangeEquality, ElementOfSeq DEF OrderInv, CaptureInv, AnsweredWhenDone
  <2>5. \A k \in 1..Len(s) : ArrivedBefore(s[k], r) \/ s[k] \in overlap[r]
    BY <1>1, <2>4 DEF OrderInv, OverlapInv
  <2> HIDE DEF s, u
  <2>6. i \in 1..Len(s) /\ (j \in 1..Len(s) \/ j = Len(s) + 1)
    BY <2>2 DEF u
  <2> QED
    BY <2>2, <2>3, <2>5, <2>6 DEF u
<1> QED
  BY <1>2, <1>3

LEMMA OrderStep == OrderInv /\ [Next]_vars => OrderInv'
<1> SUFFICES ASSUME OrderInv, [Next]_vars PROVE OrderInv'
  OBVIOUS
<1>1. TypeInv /\ CaptureInv'
  BY CaptureStep DEF OrderInv, CaptureInv
<1>2. ASSUME UNCHANGED <<overlap, arrived, rstep, recorded>>
      PROVE  OverlapInv' /\ RecordedInOrderUnlessOverlapping'
  BY <1>2 DEF OrderInv, OverlapInv, InFlight, ArrivedBefore, RecordedInOrderUnlessOverlapping
<1>3. ASSUME NEW r \in Requests, Arrive(r)
      PROVE  OverlapInv' /\ RecordedInOrderUnlessOverlapping'
  <2>1. recorded' = recorded
    BY <1>3 DEF Arrive, endpointVars
  <2>2. /\ OverlapInv'
        /\ \A p, q \in Requests : ArrivedBefore(p, q) => ArrivedBefore(p, q)'
        /\ \A q \in Requests : overlap[q] \subseteq overlap'[q]
    BY <1>1, <1>3, ArriveKeepsOverlaps DEF OrderInv
  <2> QED
    BY <2>1, <2>2, RecordsInOrderKept
<1>4. ASSUME NEW r \in Requests, TaskStep(r)
      PROVE  OverlapInv' /\ RecordedInOrderUnlessOverlapping'
  <2>1. UNCHANGED <<recorded, overlap, arrived>>
    BY <1>4 DEF TaskStep
  <2>2. OverlapInv'
    BY <1>1, <1>4, MoveKeepsOverlaps DEF OrderInv, TaskStep
  <2> QED
    BY <2>1, <2>2 DEF OrderInv, ArrivedBefore, RecordedInOrderUnlessOverlapping
<1>5. ASSUME NEW r \in Requests, RecordAndRespond(r)
      PROVE  OverlapInv' /\ RecordedInOrderUnlessOverlapping'
  <2>1. /\ rstep[r] \notin {"new", "done"} /\ rstep' = [rstep EXCEPT ![r] = "done"]
        /\ UNCHANGED <<overlap, arrived>>
    BY <1>5 DEF RecordAndRespond, Respond, Move, historyVars
  <2> QED
    BY <1>1, <1>5, <2>1, MoveKeepsOverlaps, RecordKeepsOrder DEF OrderInv
<1>6. OverlapInv' /\ RecordedInOrderUnlessOverlapping'
  BY <1>1, <1>2, <1>3, <1>4, <1>5, StepKinds
     DEF ThreadStep, OpenCapture, CallCapture, captureVars, loopVars, historyVars, endpointVars
<1> QED
  BY <1>1, <1>6 DEF OrderInv

\* Two requests of a capture are in the order they were received, unless they were in
\* flight together.
THEOREM RecordedInOrderCorrect == Spec => []RecordedInOrderUnlessOverlapping
<1>1. OrderInv => RecordedInOrderUnlessOverlapping
  BY DEF OrderInv
<1> QED
  BY <1>1, OrderInit, OrderStep, PTL DEF Spec

(***************************************************************************)
(* What becomes of the errors handlers raise, with one test thread and any *)
(* number of requests, endpoints and side effects.                         *)
(***************************************************************************)
Admitted == {r \in Requests : rstep[r] \in {"read", "static", "callable", "running"}}
\* While an error is stored or about to be raised, no request is admitted: the handlers
\* that can still overwrite it were in flight with the one that failed.
Blamed(q) == status[q] = "failed" /\ \A r \in Admitted : r \in overlap[q]

FailedAreDone == \A r \in Requests : status[r] = "failed" => rstep[r] = "done"
PendingBlamed == pending # None => Blamed(pending)
CaughtBlamed ==
  \A t \in Threads :
    IF call[t].step = "clear"
    THEN /\ Blamed(caught[t])
         /\ pending # None
         /\ pending # caught[t] => pending \in overlap[caught[t]]
    ELSE caught[t] = None

ErrorInv ==
  /\ TypeInv /\ OverlapInv
  /\ FailedAreDone /\ PendingBlamed /\ CaughtBlamed /\ ErrorLostOnlyToOverlap

LEMMA ErrorInit == Init => ErrorInv
<1> SUFFICES ASSUME Init PROVE ErrorInv
  OBVIOUS
<1>1. \A r \in Requests : status[r] = "none"
  BY DEF Init
<1>2. \A t \in Threads : call[t].step # "clear" /\ caught[t] = None
  BY DEF Init, Idle, Call
<1>3. pending = None
  BY DEF Init
<1> QED
  BY <1>1, <1>2, <1>3, TypeInit, OverlapInit
     DEF ErrorInv, FailedAreDone, PendingBlamed, CaughtBlamed, ErrorLostOnlyToOverlap

\* A step of a thread that neither looks for an error nor raises one.
ThreadAside(t) ==
  /\ UNCHANGED <<pending, caught, reported, status, rstep, overlap>>
  /\ call[t].step # "clear" /\ call'[t].step # "clear"

\* A step of a task that neither admits its request nor fails it.
TaskAside(r) ==
  /\ UNCHANGED <<pending, caught, reported, overlap, arrived, call>>
  /\ rstep[r] \notin {"new", "done"}
  /\ \E step : /\ step # "new" /\ rstep' = [rstep EXCEPT ![r] = step]
               /\ rstep[r] \in {"read", "static", "callable", "running"}
                  \/ step \notin {"read", "static", "callable", "running"}
  /\ \E outcome : outcome # "failed" /\ status' \in {status, [status EXCEPT ![r] = outcome]}

TaskAdmitted(r) ==
  /\ UNCHANGED <<pending, caught, reported, overlap, arrived, call, status>>
  /\ pending = None
  /\ rstep[r] = "guard" /\ rstep' = [rstep EXCEPT ![r] = "read"]

TaskFailed(r) ==
  /\ UNCHANGED <<caught, reported, overlap, arrived, call>>
  /\ rstep[r] \in {"callable", "running"} /\ rstep' = [rstep EXCEPT ![r] = "done"]
  /\ pending' = r /\ status' = [status EXCEPT ![r] = "failed"]

LEMMA ErrorThreadSteps ==
  ASSUME TypeInv, NEW t \in Threads, MakeCall(t) \/ StepCall(t)
  PROVE  CheckPending(t) \/ ClearPending(t) \/ ThreadAside(t)
<1> USE DEF serverVars, endpointVars, threadVars, loopVars, historyVars
<1> SUFFICES ASSUME ~CheckPending(t), ~ClearPending(t)
             PROVE  ThreadAside(t)
  OBVIOUS
<1>1. UNCHANGED <<pending, caught, reported, status, rstep, overlap>>
  BY DEF MakeCall, StepCall, CallAdd, CallRemove, CallPatch, CallCapture, ExitContext,
         CallIsAlive, CallStart, CallStop, TestOwner, AppendRoute, SetOwner, PopRoute,
         InstallEffect, RestoreEffect, OpenCapture, CloseCapture, PingAnswered, PingTimesOut,
         JoinServeThread
<1>2. call \in [Threads -> Calls] /\ Idle.step # "clear"
  BY DEF TypeInv, TypeOK, Idle, Call
<1>3. ASSUME MakeCall(t)
      PROVE  call[t] = Idle /\ call'[t].step # "clear"
  <2>1. call[t] = Idle
    BY <1>3 DEF MakeCall, CallAdd, CallRemove, CallPatch, CallCapture, ExitContext,
                CallIsAlive, CallStart, CallStop, Begin
  <2>2. UNCHANGED call \/ \E c : c.step # "clear" /\ call' = [call EXCEPT ![t] = c]
    <3>1. \A op, e, arg, step : Call(op, e, arg, step).step = step
      BY DEF Call
    <3>2. \/ UNCHANGED call
          \/ \E op, e, arg : \E step \in {"check", "restore", "close", "join"} :
               call' = [call EXCEPT ![t] = Call(op, e, arg, step)]
      <4>1. CASE \E e \in UserEndpoints, op \in {"add", "patchRoute"} : CallAdd(t, e, op)
        BY <4>1 DEF CallAdd, Begin
      <4>2. CASE \E e \in UserEndpoints \cup ClassEndpoints :
                   \/ CallRemove(t, e)
                   \/ \E x \in Patches : CallPatch(t, e, x)
                   \/ \E c \in Captures : CallCapture(t, e, c)
        BY <4>2 DEF CallRemove, CallPatch, CallCapture, Begin
      <4>3. CASE ExitContext(t)
        BY <4>3 DEF ExitContext, Begin
      <4>4. CASE CallIsAlive(t) \/ CallStart(t) \/ CallStop(t)
        BY <4>4 DEF CallIsAlive, CallStart, CallStop, Begin
      <4> QED
        BY <1>3, <4>1, <4>2, <4>3, <4>4 DEF MakeCall
    <3> QED
      BY <3>1, <3>2
  <2> QED
    BY <1>2, <2>1, <2>2
<1>4. ASSUME StepCall(t)
      PROVE  call[t].step # "clear" /\ call'[t].step # "clear"
  <2>1. call[t].step # "clear"
    BY <1>4 DEF StepCall, At, TestOwner, AppendRoute, SetOwner, PopRoute, InstallEffect,
                RestoreEffect, OpenCapture, CloseCapture, PingAnswered, PingTimesOut,
                JoinServeThread
  <2>2. \/ Return(t) \/ Raise(t)
        \/ \E step \in {"append", "pop", "own", "check"} : Goto(t, step)
        \/ \E op, e, arg : call' = [call EXCEPT ![t] = Call(op, e, arg, "check")]
    BY <1>4 DEF StepCall, TestOwner, AppendRoute, SetOwner, PopRoute, InstallEffect,
                RestoreEffect, OpenCapture, CloseCapture, PingAnswered, PingTimesOut,
                JoinServeThread
  <2>3. CASE Return(t)
    BY <1>2, <2>1, <2>3, AfterIsCall DEF Return
  <2>4. CASE Raise(t)
    BY <1>2, <2>1, <2>4 DEF Raise
  <2>5. CASE \E step \in {"append", "pop", "own", "check"} : Goto(t, step)
    BY <2>1, <2>5, GotoStep
  <2>6. CASE \E op, e, arg : call' = [call EXCEPT ![t] = Call(op, e, arg, "check")]
    BY <1>2, <2>1, <2>6 DEF Call
  <2> QED
    BY <2>1, <2>2, <2>3, <2>4, <2>5, <2>6
<1>5. Idle.step # "clear"
  BY <1>2
<1> QED
  BY <1>1, <1>3, <1>4, <1>5 DEF ThreadAside

\* A task that ends, answered, without having failed.
LEMMA TaskEnds ==
  ASSUME NEW r \in Requests, NEW outcome, outcome # "failed",
         UNCHANGED <<pending, caught, reported, overlap, arrived, call>>,
         rstep[r] = "body", rstep' = [rstep EXCEPT ![r] = "done"],
         status' = [status EXCEPT ![r] = outcome]
  PROVE  TaskAside(r)
<1>1. \E step : /\ step # "new" /\ rstep' = [rstep EXCEPT ![r] = step]
                /\ rstep[r] \in {"read", "static", "callable", "running"}
                   \/ step \notin {"read", "static", "callable", "running"}
  <2> WITNESS "done"
  <2> QED
    OBVIOUS
<1>2. \E x : x # "failed" /\ status' \in {status, [status EXCEPT ![r] = x]}
  <2> WITNESS outcome
  <2> QED
    OBVIOUS
<1> QED
  BY <1>1, <1>2 DEF TaskAside

LEMMA ErrorTaskSteps ==
  ASSUME TypeInv, NEW r \in Requests, StepTask(r) \/ CompleteTask(r)
  PROVE  TaskAside(r) \/ TaskAdmitted(r) \/ TaskFailed(r)
<1> USE DEF serverVars, endpointVars, threadVars, loopVars, historyVars
<1>0. rstep = [rstep EXCEPT ![r] = rstep[r]]
  BY DEF TypeInv, TypeOK
<1>1. CASE ScanRoute(r)
  <2>1. /\ UNCHANGED <<pending, caught, reported, overlap, arrived, call>>
        /\ rstep[r] = "scan"
    BY <1>1 DEF ScanRoute
  <2>2. \/ UNCHANGED <<rstep, status>>
        \/ rstep' = [rstep EXCEPT ![r] = "done"] /\ status' = [status EXCEPT ![r] = "notfound"]
        \/ rstep' = [rstep EXCEPT ![r] = "guard"] /\ status' = status
    BY <1>1 DEF ScanRoute, Respond, Move
  <2> QED
    BY <1>0, <2>1, <2>2 DEF TaskAside
<1>2. CASE GuardRequest(r)
  <2>1. CASE Move(r, "read")
    BY <1>2, <2>1 DEF GuardRequest, Respond, Move, TaskAdmitted, TaskAside
  <2>2. CASE Respond(r, "unowned") \/ Respond(r, "refused")
    BY <1>2, <2>2 DEF GuardRequest, Respond, Move, TaskAside
  <2> QED
    BY <1>2, <2>1, <2>2 DEF GuardRequest
<1>3. CASE ReadSideEffect(r)
  BY <1>3 DEF ReadSideEffect, Move, TaskAside
<1>4. CASE UseStaticEffect(r)
  BY <1>4 DEF UseStaticEffect, Move, TaskAside
<1>5. CASE CallSideEffect(r) \/ SideEffectRaises(r)
  BY <1>5 DEF CallSideEffect, SideEffectRaises, HandlerRaised, Respond, Move, TaskAside, TaskFailed
<1>6. CASE SideEffectReturns(r)
  BY <1>6 DEF SideEffectReturns, Move, TaskAside
<1>7. CASE ClientDisconnects(r)
  <2>1. /\ UNCHANGED <<pending, caught, reported, overlap, arrived, call>>
        /\ rstep[r] = "body" /\ rstep' = [rstep EXCEPT ![r] = "done"]
        /\ status' = [status EXCEPT ![r] = "disconnected"]
    BY <1>7 DEF ClientDisconnects, Respond, Move
  <2> QED
    BY <2>1, TaskEnds DEF TaskAside
<1>8. CASE RecordAndRespond(r)
  <2>1. /\ UNCHANGED <<pending, caught, reported, overlap, arrived, call>>
        /\ rstep[r] = "body" /\ rstep' = [rstep EXCEPT ![r] = "done"]
        /\ \/ status' = [status EXCEPT ![r] = "broken"]
           \/ status' = [status EXCEPT ![r] = "ok"]
    BY <1>8 DEF RecordAndRespond, Respond, Move
  <2> QED
    BY <2>1, TaskEnds DEF TaskAside
<1> QED
  BY <1>1, <1>2, <1>3, <1>4, <1>5, <1>6, <1>7, <1>8 DEF StepTask, CompleteTask

--------------------------------------------------------------------------------
\* The part of the invariant the steps below keep.
ErrorParts == FailedAreDone /\ PendingBlamed /\ CaughtBlamed /\ ErrorLostOnlyToOverlap

LEMMA AsideKeepsErrors ==
  ASSUME OneThread, ErrorInv, NEW t \in Threads, ThreadAside(t)
  PROVE  ErrorParts'
<1>1. UNCHANGED <<pending, caught, reported, status, rstep, overlap>>
  BY DEF ThreadAside
<1>2. \A u \in Threads : call[u].step # "clear" /\ call'[u].step # "clear"
  BY DEF ThreadAside, OneThread
<1> QED
  BY <1>1, <1>2 DEF ErrorParts, ErrorInv, FailedAreDone, PendingBlamed, CaughtBlamed, Blamed,
                    Admitted, ErrorLostOnlyToOverlap

\* raise_from_pending reads the error: the thread holds it while it is still pending.
LEMMA CheckKeepsErrors ==
  ASSUME OneThread, ErrorInv, NEW t \in Threads, CheckPending(t)
  PROVE  ErrorParts'
<1> USE DEF serverVars, endpointVars, threadVars, loopVars, historyVars
<1>1. UNCHANGED <<pending, reported, status, rstep, overlap>> /\ call[t].step = "check"
  BY DEF CheckPending, At
<1>2. call \in [Threads -> Calls] /\ caught \in [Threads -> Requests \cup {None}]
  BY DEF ErrorInv, TypeInv, TypeOK
<1>3. \A u \in Threads : u = t
  BY DEF OneThread
<1>4. caught[t] = None
  BY <1>1 DEF ErrorInv, CaughtBlamed
<1>5. FailedAreDone' /\ PendingBlamed'
  BY <1>1 DEF ErrorInv, FailedAreDone, PendingBlamed, Blamed, Admitted
<1>6. None \notin Requests
  BY ConstantsAssumption
<1>7. ErrorLostOnlyToOverlap'
  BY <1>1, <1>3, <1>4, <1>6 DEF ErrorInv, ErrorLostOnlyToOverlap
<1>0. TypeInv
  BY DEF ErrorInv
<1>9. \/ Goto(t, "clear") /\ pending # None /\ caught' = [caught EXCEPT ![t] = pending]
      \/ /\ caught' = caught
         /\ \/ Return(t) \/ Raise(t)
            \/ \E step \in {"test", "install", "open"} : Goto(t, step)
  BY DEF CheckPending, AfterCheck, AddOps, RemoveOps
<1>8. CaughtBlamed'
  <2>1. CASE Goto(t, "clear") /\ pending # None /\ caught' = [caught EXCEPT ![t] = pending]
    <3>1. caught'[t] = pending
      BY <1>2, <2>1
    <3>2. call'[t].step = "clear"
      BY <1>0, <2>1, GotoStep
    <3> QED
      BY <1>1, <1>3, <2>1, <3>1, <3>2 DEF ErrorInv, PendingBlamed, CaughtBlamed, Blamed, Admitted
  <2>2. CASE /\ caught' = caught
             /\ \/ Return(t) \/ Raise(t)
                \/ \E step \in {"test", "install", "open"} : Goto(t, step)
    <3>1. CASE Return(t)
      <4>1. call'[t].step # "clear"
        BY <1>2, <3>1, AfterIsCall DEF Return
      <4> QED
        BY <1>3, <1>4, <2>2, <4>1 DEF CaughtBlamed
    <3>2. CASE Raise(t)
      <4>1. call'[t].step # "clear"
        BY <1>2, <3>2 DEF Raise, Idle, Call
      <4> QED
        BY <1>3, <1>4, <2>2, <4>1 DEF CaughtBlamed
    <3>3. CASE \E step \in {"test", "install", "open"} : Goto(t, step)
      <4>1. call'[t].step # "clear"
        BY <1>0, <3>3, GotoStep
      <4> QED
        BY <1>3, <1>4, <2>2, <4>1 DEF CaughtBlamed
    <3> QED
      BY <2>2, <3>1, <3>2, <3>3
  <2> QED
    BY <1>9, <2>1, <2>2
<1> QED
  BY <1>5, <1>7, <1>8 DEF ErrorParts

\* The assignment that clears pending_exception may drop a later error than the one
\* raised: its handler was in flight with the other's.
LEMMA ClearKeepsErrors ==
  ASSUME OneThread, ErrorInv, NEW t \in Threads, ClearPending(t)
  PROVE  ErrorParts'
<1> USE DEF serverVars, endpointVars, threadVars, loopVars, historyVars
<1>1. /\ UNCHANGED <<status, rstep, overlap>> /\ call[t].step = "clear"
      /\ pending' = None /\ reported' = reported \cup {caught[t]}
      /\ caught' = [caught EXCEPT ![t] = None] /\ call' = [call EXCEPT ![t] = Idle]
  BY DEF ClearPending, At, Raise
<1>2. call \in [Threads -> Calls] /\ caught \in [Threads -> Requests \cup {None}]
  BY DEF ErrorInv, TypeInv, TypeOK
<1>3. \A u \in Threads : u = t
  BY DEF OneThread
<1>4. caught'[t] = None /\ call'[t].step # "clear"
  BY <1>1, <1>2 DEF Idle, Call
<1>5. FailedAreDone' /\ PendingBlamed' /\ CaughtBlamed'
  BY <1>1, <1>3, <1>4 DEF ErrorInv, FailedAreDone, PendingBlamed, CaughtBlamed
<1>6. ErrorLostOnlyToOverlap'
  <2>1. /\ status[caught[t]] = "failed"
        /\ pending # caught[t] => pending \in overlap[caught[t]]
    BY <1>1 DEF ErrorInv, CaughtBlamed, Blamed
  <2>2. caught[t] \in Requests /\ pending \in Requests \cup {None}
    BY <1>1 DEF ErrorInv, TypeInv, TypeOK, Caught
  <2>3. pending \in Requests /\ pending # caught[t] => caught[t] \in overlap[pending]
    BY <2>1, <2>2 DEF ErrorInv, OverlapInv
  <2> SUFFICES ASSUME NEW r \in Requests, status[r] = "failed"
               PROVE  r \in reported' \/ \E q \in overlap[r] : status[q] = "failed"
    BY <1>1 DEF ErrorLostOnlyToOverlap
  <2>4. \/ pending = r \/ r \in reported \/ caught[t] = r
        \/ \E q \in overlap[r] : status[q] = "failed"
    BY <1>3 DEF ErrorInv, ErrorLostOnlyToOverlap
  <2> QED
    BY <1>1, <2>1, <2>3, <2>4
<1> QED
  BY <1>5, <1>6 DEF ErrorParts

\* A task that goes on, or ends otherwise than by failing.
LEMMA TaskAsideKeepsErrors ==
  ASSUME ErrorInv, NEW r \in Requests, TaskAside(r) \/ TaskAdmitted(r)
  PROVE  ErrorParts'
<1>1. /\ UNCHANGED <<pending, caught, reported, overlap, call>>
      /\ rstep[r] # "done" /\ \E step : rstep' = [rstep EXCEPT ![r] = step]
      /\ status' = status \/ \E outcome : outcome # "failed" /\ status' = [status EXCEPT ![r] = outcome]
  BY DEF TaskAside, TaskAdmitted
<1>2. /\ rstep \in [Requests -> {"new", "scan", "guard", "read", "static", "callable",
                                 "running", "body", "done"}]
      /\ status \in [Requests -> Statuses] /\ pending \in Requests \cup {None}
      /\ overlap \in [Requests -> SUBSET Requests]
      /\ caught \in [Threads -> Requests \cup {None}]
  BY DEF ErrorInv, TypeInv, TypeOK
<1>3. \A q \in Requests : status'[q] = "failed" <=> status[q] = "failed"
  BY <1>1, <1>2 DEF ErrorInv, FailedAreDone
<1>4. FailedAreDone'
  BY <1>1, <1>2, <1>3 DEF ErrorInv, FailedAreDone
<1>5. ErrorLostOnlyToOverlap'
  BY <1>1, <1>2, <1>3 DEF ErrorInv, ErrorLostOnlyToOverlap
<1>6. pending # None => Admitted' \subseteq Admitted
  BY <1>2 DEF TaskAside, TaskAdmitted, Admitted
<1>7. PendingBlamed'
  BY <1>1, <1>2, <1>3, <1>6 DEF ErrorInv, PendingBlamed, Blamed
<1>8. CaughtBlamed'
  BY <1>1, <1>2, <1>3, <1>6 DEF ErrorInv, CaughtBlamed, Blamed, TypeInv, Caught
<1> QED
  BY <1>4, <1>5, <1>7, <1>8 DEF ErrorParts

\* A handler that fails overwrites only errors of handlers it was in flight with.
LEMMA TaskFailedKeepsErrors ==
  ASSUME ErrorInv, NEW r \in Requests, TaskFailed(r)
  PROVE  ErrorParts'
<1>1. /\ UNCHANGED <<caught, reported, overlap, call>>
      /\ rstep[r] \in {"callable", "running"} /\ rstep' = [rstep EXCEPT ![r] = "done"]
      /\ pending' = r /\ status' = [status EXCEPT ![r] = "failed"]
  BY DEF TaskFailed
<1>2. /\ rstep \in [Requests -> {"new", "scan", "guard", "read", "static", "callable",
                                 "running", "body", "done"}]
      /\ status \in [Requests -> Statuses] /\ pending \in Requests \cup {None}
  BY DEF ErrorInv, TypeInv, TypeOK
<1>3. r \in Admitted /\ r \in InFlight
  BY <1>1 DEF Admitted, InFlight
<1>4. Admitted' \subseteq Admitted \ {r} /\ Admitted \subseteq InFlight
  BY <1>1, <1>2 DEF Admitted, InFlight
<1>5. status'[r] = "failed" /\ rstep'[r] = "done"
  BY <1>1, <1>2
<1>6. \A q \in Requests : status[q] = "failed" => status'[q] = "failed"
  BY <1>1, <1>2
<1>7. \A q \in Requests : q # r => status'[q] = status[q] /\ rstep'[q] = rstep[q]
  BY <1>1, <1>2
<1>8. None \notin Requests
  BY ConstantsAssumption
<1>9. FailedAreDone'
  BY <1>5, <1>7 DEF ErrorInv, FailedAreDone
<1>10. PendingBlamed'
  BY <1>1, <1>3, <1>4, <1>5 DEF ErrorInv, OverlapInv, PendingBlamed, Blamed
<1>11. CaughtBlamed'
  <2> SUFFICES ASSUME NEW t \in Threads
               PROVE  IF call[t].step = "clear"
                      THEN /\ Blamed(caught[t])'
                           /\ r # caught[t] => r \in overlap[caught[t]]
                      ELSE caught[t] = None
    BY <1>1, <1>8 DEF CaughtBlamed
  <2>1. CASE call[t].step = "clear"
    <3>1. caught[t] \in Requests /\ Blamed(caught[t])
      BY <2>1 DEF ErrorInv, TypeInv, Caught, CaughtBlamed
    <3> QED
      BY <1>1, <1>3, <1>4, <1>6, <2>1, <3>1 DEF Blamed
  <2>2. CASE call[t].step # "clear"
    BY <2>2 DEF ErrorInv, CaughtBlamed
  <2> QED
    BY <2>1, <2>2
<1>12. ErrorLostOnlyToOverlap'
  <2> SUFFICES ASSUME NEW q \in Requests, status'[q] = "failed", q # r
               PROVE  \/ q \in reported \/ \E t \in Threads : caught[t] = q
                      \/ \E p \in overlap[q] : status'[p] = "failed"
    BY <1>1 DEF ErrorLostOnlyToOverlap
  <2>1. status[q] = "failed" /\ overlap[q] \subseteq Requests
    BY <1>7 DEF ErrorInv, TypeInv, TypeOK
  <2>2. CASE pending = q
    <3>1. r \in overlap[q]
      BY <1>3, <1>8, <2>2 DEF ErrorInv, PendingBlamed, Blamed
    <3> QED
      BY <1>5, <3>1
  <2>3. CASE pending # q
    BY <1>6, <2>1, <2>3 DEF ErrorInv, ErrorLostOnlyToOverlap
  <2> QED
    BY <2>2, <2>3
<1> QED
  BY <1>9, <1>10, <1>11, <1>12 DEF ErrorParts

\* A request that arrives is not admitted yet.
LEMMA ArriveKeepsErrors ==
  ASSUME ErrorInv, NEW r \in Requests, Arrive(r)
  PROVE  ErrorParts'
<1>1. /\ UNCHANGED <<pending, caught, reported, call, status>>
      /\ rstep[r] = "new" /\ rstep' = [rstep EXCEPT ![r] = "scan"]
  BY DEF Arrive, Move, serverVars, threadVars
<1>2. /\ rstep \in [Requests -> {"new", "scan", "guard", "read", "static", "callable",
                                 "running", "body", "done"}]
      /\ pending \in Requests \cup {None}
  BY DEF ErrorInv, TypeInv, TypeOK
<1>3. Admitted' = Admitted
  BY <1>1, <1>2 DEF Admitted
<1>4. \A q \in Requests : overlap[q] \subseteq overlap'[q]
  BY ArriveKeepsOverlaps DEF ErrorInv
<1>5. \A q \in Requests : Blamed(q) => Blamed(q)'
  BY <1>1, <1>3, <1>4 DEF Blamed
<1>6. FailedAreDone' /\ PendingBlamed' /\ ErrorLostOnlyToOverlap'
  BY <1>1, <1>2, <1>4, <1>5 DEF ErrorInv, FailedAreDone, PendingBlamed, ErrorLostOnlyToOverlap
<1>7. CaughtBlamed'
  BY <1>1, <1>4, <1>5 DEF ErrorInv, TypeInv, Caught, CaughtBlamed
<1> QED
  BY <1>6, <1>7 DEF ErrorParts

LEMMA ErrorStep == OneThread /\ ErrorInv /\ [Next]_vars => ErrorInv'
<1> SUFFICES ASSUME OneThread, ErrorInv, [Next]_vars PROVE ErrorInv'
  OBVIOUS
<1>1. TypeInv /\ TypeInv'
  BY TypeStep DEF ErrorInv
<1>2. ASSUME ServeThreadExits \/ UNCHANGED vars
      PROVE  ErrorParts' /\ OverlapInv'
  BY <1>2 DEF ServeThreadExits, vars, serverVars, endpointVars, threadVars, loopVars, historyVars,
     ErrorInv, ErrorParts, FailedAreDone, PendingBlamed, CaughtBlamed, Blamed, Admitted,
     ErrorLostOnlyToOverlap, OverlapInv, InFlight, ArrivedBefore
<1>3. ASSUME NEW t \in Threads, MakeCall(t) \/ StepCall(t)
      PROVE  ErrorParts' /\ OverlapInv'
  <2>1. ErrorParts'
    BY <1>1, <1>3, ErrorThreadSteps, AsideKeepsErrors, CheckKeepsErrors, ClearKeepsErrors
  <2>2. UNCHANGED <<overlap, arrived, rstep>>
    BY <1>1, <1>3, MakeCallSteps, StepCallSteps
       DEF ThreadStep, OpenCapture, CallCapture, captureVars, loopVars, historyVars
  <2> QED
    BY <2>1, <2>2 DEF ErrorInv, OverlapInv, InFlight, ArrivedBefore
<1>4. ASSUME NEW r \in Requests, StepTask(r) \/ CompleteTask(r)
      PROVE  ErrorParts' /\ OverlapInv'
  <2>1. TaskAside(r) \/ TaskAdmitted(r) \/ TaskFailed(r)
    BY <1>1, <1>4, ErrorTaskSteps
  <2>2. ErrorParts'
    BY <2>1, TaskAsideKeepsErrors, TaskFailedKeepsErrors
  <2>3. /\ UNCHANGED <<overlap, arrived>> /\ rstep[r] \notin {"new", "done"}
        /\ \E step : step # "new" /\ rstep' = [rstep EXCEPT ![r] = step]
    BY <2>1 DEF TaskAside, TaskAdmitted, TaskFailed
  <2> QED
    BY <1>1, <2>2, <2>3, MoveKeepsOverlaps DEF ErrorInv
<1>5. ASSUME NEW r \in Requests, Arrive(r)
      PROVE  ErrorParts' /\ OverlapInv'
  BY <1>1, <1>5, ArriveKeepsErrors, ArriveKeepsOverlaps DEF ErrorInv
<1> QED
  BY <1>1, <1>2, <1>3, <1>4, <1>5 DEF Next, ErrorInv, ErrorParts

\* With one test thread an error is lost only to another handler that failed while the
\* first was in flight: not to a reader, a stop, a removal or a context left by a raise.
THEOREM ErrorLostOnlyToOverlapCorrect ==
  ASSUME OneThread
  PROVE  Spec => []ErrorLostOnlyToOverlap
<1>1. ErrorInv /\ [Next]_vars => ErrorInv'
  BY ErrorStep
<1>2. ErrorInv => ErrorLostOnlyToOverlap
  BY DEF ErrorInv
<1> QED
  BY <1>1, <1>2, ErrorInit, PTL DEF Spec

\* The last step of stop() leaves nothing pending.
LEMMA StopEndsClear ==
  ASSUME TypeInv, [Next]_vars, NEW t \in Threads, call[t].op = "stop", call'[t] = Idle
  PROVE  pending' = None
<1> USE DEF serverVars, endpointVars, threadVars, loopVars, historyVars
<1>1. /\ call \in [Threads -> Calls] /\ call[t] \in Calls
      /\ call[t].step \in {"join", "check", "clear"} /\ call[t].ep = None
  BY DEF TypeInv, TypeOK, Calls, CallsOf, Idle, Call, AddOps, RemoveOps
<1>2. call'[t] # call[t] /\ call[t] # Idle
  BY DEF Idle, Call
<1>3. ASSUME NEW u \in Threads, MakeCall(u) \/ StepCall(u)
      PROVE  pending' = None
  <2>1. u = t
    <3>1. CASE MakeCall(u)
      <4>1. \E c : call' = [call EXCEPT ![u] = c]
        BY <3>1, MakeCallSteps DEF ThreadStep, CallCapture, Begin
      <4> QED
        BY <1>1, <1>2, <4>1
    <3>2. CASE StepCall(u)
      <4>1. ThreadStep(u) \/ OpenCapture(u)
        BY <3>2, StepCallSteps
      <4>2. \E c : call' = [call EXCEPT ![u] = c]
        BY <4>1 DEF ThreadStep, OpenCapture, Return
      <4> QED
        BY <1>1, <1>2, <4>2
    <3> QED
      BY <1>3, <3>1, <3>2
  <2>2. CheckPending(t) \/ ClearPending(t) \/ JoinServeThread(t)
    BY <1>1, <1>2, <1>3, <2>1
       DEF MakeCall, StepCall, At, CallAdd, CallRemove, CallPatch, CallCapture, ExitContext,
           CallIsAlive, CallStart, CallStop, Begin, TestOwner, AppendRoute, SetOwner, PopRoute,
           InstallEffect, RestoreEffect, OpenCapture, CloseCapture, PingAnswered, PingTimesOut
  <2>3. CASE CheckPending(t)
    <3>1. pending' = pending
      BY <2>3 DEF CheckPending
    <3>2. ~Goto(t, "clear")
      <4>1. Goto(t, "clear") => call'[t].step = "clear"
        BY GotoStep
      <4> QED
        BY <4>1 DEF Idle, Call
    <3> QED
      BY <2>3, <3>1, <3>2 DEF CheckPending, EndpointOps
  <2>4. CASE ClearPending(t)
    BY <2>4 DEF ClearPending
  <2>5. CASE JoinServeThread(t)
    <3>1. call'[t].step = "check"
      BY <2>5, GotoStep DEF JoinServeThread
    <3> QED
      BY <3>1 DEF Idle, Call
  <2> QED
    BY <2>2, <2>3, <2>4, <2>5
<1>4. ASSUME NEW r \in Requests, Arrive(r) \/ StepTask(r) \/ CompleteTask(r)
      PROVE  call' = call
  BY <1>4, TaskSteps DEF Arrive, TaskStep, RecordAndRespond
<1>5. ServeThreadExits \/ UNCHANGED vars => call' = call
  BY DEF ServeThreadExits, vars
<1> QED
  BY <1>2, <1>3, <1>4, <1>5 DEF Next

\* With one test thread, stop() leaves no error of a handler behind.
THEOREM StopSurfacesErrorsCorrect ==
  ASSUME OneThread
  PROVE  Spec => StopSurfacesErrors
<1> DEFINE Surfaced ==
      \A t \in Threads :
        call[t].op = "stop" /\ call'[t] = Idle =>
          \A r \in Requests : status'[r] = "failed" =>
            r \in reported' \/ \E q \in overlap'[r] : status'[q] = "failed"
<1>1. ErrorInv /\ [Next]_vars => ErrorInv'
  BY ErrorStep
<1>2. ErrorInv /\ ErrorInv' /\ [Next]_vars => Surfaced
  <2> SUFFICES ASSUME ErrorInv, ErrorInv', [Next]_vars, NEW t \in Threads,
                      call[t].op = "stop", call'[t] = Idle,
                      NEW r \in Requests, status'[r] = "failed"
               PROVE  r \in reported' \/ \E q \in overlap'[r] : status'[q] = "failed"
    OBVIOUS
  <2>1. pending' = None
    BY StopEndsClear DEF ErrorInv
  <2>2. \A u \in Threads : caught'[u] = None
    BY DEF OneThread, ErrorInv, CaughtBlamed, Idle, Call
  <2> QED
    BY <2>1, <2>2, ConstantsAssumption DEF ErrorInv, ErrorLostOnlyToOverlap
<1>3. Surfaced => [Surfaced]_vars
  OBVIOUS
<1> QED
  BY <1>1, <1>2, ErrorInit, PTL DEF Spec, StopSurfacesErrors

--------------------------------------------------------------------------------
\* An error that was raised is over: what is pending, or in the hands of a test thread,
\* is the error of a handler that failed, and what is pending was not raised yet.
RaisedInv ==
  /\ TypeInv /\ FailedAreDone
  /\ \A r \in reported : status[r] = "failed"
  /\ pending # None => status[pending] = "failed" /\ pending \notin reported
  /\ \A t \in Threads : caught[t] # None => status[caught[t]] = "failed"

LEMMA RaisedInit == Init => RaisedInv
<1> SUFFICES ASSUME Init PROVE RaisedInv
  OBVIOUS
<1>1. /\ reported = {} /\ pending = None /\ \A t \in Threads : caught[t] = None
      /\ \A r \in Requests : status[r] # "failed"
  BY DEF Init
<1> QED
  BY <1>1, TypeInit DEF RaisedInv, FailedAreDone

LEMMA RaisedStep ==
  ASSUME RaisedInv, [Next]_vars
  PROVE  RaisedInv' /\ \A t \in Threads : caught'[t] # caught[t] => caught'[t] \notin reported
<1> USE DEF serverVars, endpointVars, threadVars, loopVars, historyVars
<1> DEFINE Once == \A t \in Threads : caught'[t] # caught[t] => caught'[t] \notin reported
<1>1. TypeInv /\ TypeInv'
  BY TypeStep DEF RaisedInv
<1>2. /\ rstep \in [Requests -> {"new", "scan", "guard", "read", "static", "callable",
                                 "running", "body", "done"}]
      /\ status \in [Requests -> Statuses] /\ pending \in Requests \cup {None}
      /\ caught \in [Threads -> Requests \cup {None}] /\ reported \subseteq Requests
  BY <1>1 DEF TypeInv, TypeOK
<1>3. None \notin Requests
  BY ConstantsAssumption
<1>4. ASSUME UNCHANGED <<pending, caught, reported, status, rstep>>
      PROVE  RaisedInv' /\ Once
  BY <1>1, <1>4 DEF RaisedInv, FailedAreDone
<1>5. ASSUME NEW t \in Threads, MakeCall(t) \/ StepCall(t)
      PROVE  RaisedInv' /\ Once
  <2>1. CASE ThreadAside(t)
    BY <1>4, <2>1 DEF ThreadAside
  <2>2. CASE CheckPending(t)
    <3>1. /\ UNCHANGED <<pending, reported, status, rstep>>
          /\ \/ caught' = caught
             \/ pending # None /\ caught' = [caught EXCEPT ![t] = pending]
      BY <2>2 DEF CheckPending
    <3> QED
      BY <1>1, <1>2, <3>1 DEF RaisedInv, FailedAreDone
  <2>3. CASE ClearPending(t)
    <3>1. /\ UNCHANGED <<status, rstep>> /\ call[t].step = "clear" /\ pending' = None
          /\ reported' = reported \cup {caught[t]}
          /\ caught' = [caught EXCEPT ![t] = None]
      BY <2>3 DEF ClearPending, At
    <3>2. caught[t] \in Requests
      BY <1>1, <3>1 DEF TypeInv, Caught
    <3> QED
      BY <1>1, <1>2, <1>3, <3>1, <3>2 DEF RaisedInv, FailedAreDone
  <2> QED
    BY <1>1, <1>5, <2>1, <2>2, <2>3, ErrorThreadSteps
<1>6. ASSUME NEW r \in Requests, StepTask(r) \/ CompleteTask(r)
      PROVE  RaisedInv' /\ Once
  <2>1. CASE TaskAside(r) \/ TaskAdmitted(r)
    <3>1. /\ UNCHANGED <<pending, caught, reported>>
          /\ rstep[r] # "done" /\ \E step : rstep' = [rstep EXCEPT ![r] = step]
          /\ \/ status' = status
             \/ \E outcome : outcome # "failed" /\ status' = [status EXCEPT ![r] = outcome]
      BY <2>1 DEF TaskAside, TaskAdmitted
    <3>2. \A q \in Requests : status'[q] = "failed" <=> status[q] = "failed"
      BY <1>2, <3>1 DEF RaisedInv, FailedAreDone
    <3>3. FailedAreDone'
      BY <1>2, <3>1, <3>2 DEF RaisedInv, FailedAreDone
    <3> QED
      BY <1>1, <1>2, <3>1, <3>2, <3>3 DEF RaisedInv
  <2>2. CASE TaskFailed(r)
    <3>1. /\ UNCHANGED <<caught, reported>>
          /\ rstep[r] # "done" /\ rstep' = [rstep EXCEPT ![r] = "done"]
          /\ pending' = r /\ status' = [status EXCEPT ![r] = "failed"]
      BY <2>2 DEF TaskFailed
    <3>2. r \notin reported
      BY <3>1 DEF RaisedInv, FailedAreDone
    <3> QED
      BY <1>1, <1>2, <3>1, <3>2 DEF RaisedInv, FailedAreDone
  <2> QED
    BY <1>1, <1>6, <2>1, <2>2, ErrorTaskSteps
<1>7. ASSUME NEW r \in Requests, Arrive(r)
      PROVE  RaisedInv' /\ Once
  <2>1. /\ UNCHANGED <<pending, caught, reported, status>>
        /\ rstep[r] = "new" /\ rstep' = [rstep EXCEPT ![r] = "scan"]
    BY <1>7 DEF Arrive, Move
  <2> QED
    BY <1>1, <1>2, <2>1 DEF RaisedInv, FailedAreDone
<1>8. ASSUME ServeThreadExits \/ UNCHANGED vars
      PROVE  RaisedInv' /\ Once
  BY <1>4, <1>8 DEF ServeThreadExits, vars
<1> QED
  BY <1>5, <1>6, <1>7, <1>8 DEF Next

\* The error of a handler is taken up by a test thread only as long as none has raised
\* it: once it was raised it is pending no more.
THEOREM RaisedOnceCorrect == Spec => RaisedOnce
<1> DEFINE Once == \A t \in Threads : caught'[t] # caught[t] => caught'[t] \notin reported
<1>1. RaisedInv /\ [Next]_vars => RaisedInv' /\ Once
  BY RaisedStep
<1>2. Once => [Once]_vars
  OBVIOUS
<1> QED
  BY <1>1, <1>2, RaisedInit, PTL DEF Spec, RaisedOnce
==============================================================================
