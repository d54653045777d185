-------------------------- MODULE HttpServiceProofs ---------------------------
(***************************************************************************)
(* HttpService implements RouteTable: each request is answered by the      *)
(* routes of one moment.                                                   *)
(*                                                                         *)
(* The server has one request in service at a time, whose candidates are   *)
(* the copy it was matched against; what has been matched so far are those *)
(* of the tested candidates that serve it.                                 *)
(***************************************************************************)
EXTENDS HttpService, TLAPS

InService == {"reading", "lookup", "matching", "calling"}
NotAnswered == {"new", "queued", "reading", "lookup", "matching"}

Typed ==
  /\ rstep \in [Requests -> {"new", "queued", "done"} \cup InService]
  /\ routed \in [Requests -> Handlers \cup {None, "notfound", "ambiguous"}]
  /\ backlog \in Seq(Requests)

\* At most one request is in service, and none unless the server is handling it.
OneInService ==
  /\ \A r \in Requests : rstep[r] \in InService => r = current
  /\ serve # "handling" => current = None

\* The backlog holds requests that wait, each once.
Queued ==
  /\ \A i \in DOMAIN backlog : rstep[backlog[i]] = "queued"
  /\ \A i, j \in DOMAIN backlog : backlog[i] = backlog[j] => i = j

Unrouted == \A r \in Requests : rstep[r] \in NotAnswered => routed[r] = None

MatchedSoFar ==
  \A r \in Requests : rstep[r] = "matching" =>
    untested \subseteq candidates /\ matched = (candidates \ untested) \cap Serves[r]

TableInv == Typed /\ OneInService /\ Queued /\ Unrouted /\ MatchedSoFar

\* The decided of RouteTable, by its name.
Decided == [r \in Requests |-> IF rstep[r] = "matching" THEN {candidates \cap Serves[r]} ELSE {}]

LEMMA InitTable == Init => TableInv /\ Table!Init
<1> SUFFICES ASSUME Init PROVE TableInv /\ Table!Init
  OBVIOUS
<1>1. TableInv
  BY HttpAssumption DEF Init, TableInv, Typed, OneInService, Queued, Unrouted, MatchedSoFar, InService
<1>2. Table!Init
  BY DEF Init, Table!Init
<1> QED
  BY <1>1, <1>2

\* A step that leaves the server and the requests alone.
LEMMA Aside ==
  ASSUME TableInv, UNCHANGED <<serverVars, requestVars>>
  PROVE  TableInv'
BY DEF TableInv, Typed, OneInService, Queued, Unrouted, MatchedSoFar, serverVars, matchVars, requestVars

LEMMA EnqueueStep ==
  ASSUME TableInv, NEW r \in Requests, Enqueue(r)
  PROVE  TableInv' /\ Decided' = Decided
<1> USE DEF Enqueue, TableInv, matchVars
<1>1. Typed'
  BY DEF Typed
<1>2. OneInService'
  BY DEF Typed, OneInService, InService
<1>3. Queued'
  <2>1. \A i \in DOMAIN backlog : backlog[i] # r
    BY DEF Typed, Queued
  <2>2. /\ DOMAIN backlog' = 1..(Len(backlog) + 1) /\ DOMAIN backlog = 1..Len(backlog)
        /\ backlog'[Len(backlog) + 1] = r /\ Len(backlog) \in Nat
        /\ \A i \in 1..Len(backlog) : backlog'[i] = backlog[i] /\ backlog[i] \in Requests
    BY DEF Typed
  <2>3. \A i \in 1..Len(backlog) : rstep'[backlog[i]] = "queued"
    BY <2>1, <2>2 DEF Typed, Queued
  <2>4. \A i \in DOMAIN backlog' : i \in 1..Len(backlog) \/ i = Len(backlog) + 1
    BY <2>2
  <2>5. rstep'[r] = "queued"
    BY DEF Typed
  <2>6. \A i \in DOMAIN backlog' : rstep'[backlog'[i]] = "queued"
    BY <2>2, <2>3, <2>4, <2>5
  <2>7. ASSUME NEW i \in DOMAIN backlog', NEW j \in DOMAIN backlog', backlog'[i] = backlog'[j]
        PROVE  i = j
    BY <2>7, <2>1, <2>2, <2>4 DEF Queued
  <2> QED
    BY <2>6, <2>7 DEF Queued
<1>4. Unrouted'
  BY DEF Typed, Unrouted, NotAnswered
<1>5. MatchedSoFar'
  BY DEF Typed, MatchedSoFar
<1>6. Decided' = Decided
  BY DEF Typed, Decided
<1> QED
  BY <1>1, <1>2, <1>3, <1>4, <1>5, <1>6

\* The request in service is done, or goes on to what is not matching.
LEMMA ServiceStep ==
  ASSUME TableInv, NEW r \in Requests, r = current, rstep[r] \in InService,
         NEW s \in {"lookup", "calling", "done"},
         rstep' = [rstep EXCEPT ![r] = s],
         routed' = routed \/ (s \in {"calling", "done"} /\ \E h \in Handlers \cup {"notfound", "ambiguous"} :
                                 routed' = [routed EXCEPT ![r] = h]),
         s = "lookup" => routed' = routed /\ rstep[r] = "reading",
         backlog' = backlog,
         IF s = "done" THEN serve' = "polling" /\ current' = None ELSE UNCHANGED <<serve, current>>
  PROVE  TableInv' /\ \A q \in Requests : rstep'[q] # "matching"
<1> USE DEF TableInv
<1>1. Typed'
  BY DEF Typed, InService
<1>2. \A q \in Requests : q # r => rstep'[q] = rstep[q] /\ rstep[q] \notin InService
  BY DEF Typed, OneInService
<1>3. rstep'[r] = s
  BY DEF Typed
<1>4. \A q \in Requests : rstep'[q] # "matching"
  BY <1>2, <1>3 DEF InService
<1>5. OneInService'
  BY <1>2, <1>3 DEF OneInService, InService
<1>6. Queued'
  <2>1. \A i \in DOMAIN backlog : backlog[i] # r /\ backlog[i] \in Requests
    BY DEF Typed, Queued, InService
  <2> QED
    BY <2>1, <1>2 DEF Queued
<1>7. Unrouted'
  BY <1>2, <1>3 DEF Typed, Unrouted, NotAnswered, InService
<1>8. MatchedSoFar'
  BY <1>4 DEF MatchedSoFar
<1> QED
  BY <1>1, <1>4, <1>5, <1>6, <1>7, <1>8

LEMMA AcceptStep ==
  ASSUME TableInv, Accept
  PROVE  TableInv' /\ Decided' = Decided
<1> DEFINE r == Head(backlog)
<1> USE DEF Accept, TableInv, Advance, matchVars
<1>1. /\ Len(backlog) \in Nat /\ Len(backlog) # 0 /\ DOMAIN backlog = 1..Len(backlog)
      /\ r = backlog[1] /\ r \in Requests
      /\ backlog' \in Seq(Requests) /\ DOMAIN backlog' = 1..(Len(backlog) - 1)
      /\ \A i \in 1..(Len(backlog) - 1) : backlog'[i] = backlog[i + 1]
  BY DEF Typed
<1>2. rstep[r] = "queued"
  BY <1>1 DEF Queued
<1>3. /\ rstep' \in [Requests -> {"new", "queued", "done"} \cup InService]
      /\ rstep'[r] = "reading" /\ current' = r
      /\ \A q \in Requests : q # r => rstep'[q] = rstep[q]
  BY <1>1 DEF Typed, InService
<1>4. \A q \in Requests : rstep[q] \notin InService
  BY HttpAssumption DEF OneInService
<1>5. Typed'
  BY <1>1, <1>3 DEF Typed
<1>6. OneInService'
  BY <1>3, <1>4 DEF OneInService
<1>7. Queued'
  <2>1. \A i \in DOMAIN backlog' : backlog'[i] # r /\ backlog'[i] \in Requests
    BY <1>1 DEF Typed, Queued
  <2>2. \A i \in DOMAIN backlog' : rstep[backlog'[i]] = "queued"
    BY <1>1 DEF Queued
  <2>3. \A i, j \in DOMAIN backlog' : backlog'[i] = backlog'[j] => i = j
    BY <1>1 DEF Queued
  <2> QED
    BY <1>3, <2>1, <2>2, <2>3 DEF Queued
<1>8. Unrouted'
  BY <1>2, <1>3 DEF Unrouted, NotAnswered
<1>9. \A q \in Requests : rstep'[q] # "matching" /\ rstep[q] # "matching"
  BY <1>3, <1>4 DEF InService
<1> QED
  BY <1>5, <1>6, <1>7, <1>8, <1>9 DEF MatchedSoFar, Decided

\* The moment a request is answered by: the copy of the routes.
LEMMA CopyStep ==
  ASSUME TableInv, NEW r \in Requests, Copy(r)
  PROVE  TableInv' /\ Table!Decide(r)
<1> USE DEF Copy, TableInv, Advance
<1>1. /\ rstep' \in [Requests -> {"new", "queued", "done"} \cup InService]
      /\ rstep'[r] = "matching" /\ rstep[r] = "lookup"
      /\ \A q \in Requests : q # r => rstep'[q] = rstep[q] /\ rstep[q] \notin InService
  BY DEF Typed, OneInService, InService
<1>2. Typed' /\ OneInService' /\ Unrouted'
  BY <1>1 DEF Typed, OneInService, Unrouted, InService, NotAnswered
<1>3. Queued'
  <2>1. \A i \in DOMAIN backlog : backlog[i] # r /\ backlog[i] \in Requests
    BY <1>1 DEF Typed, Queued
  <2> QED
    BY <1>1, <2>1 DEF Queued
<1>4. MatchedSoFar'
  BY <1>1 DEF MatchedSoFar, InService
<1>5. Table!Decide(r)
  <2>1. \A q \in Requests : q # r => rstep[q] # "matching" /\ rstep'[q] # "matching"
    BY <1>1 DEF InService
  <2>2. Decided' = [Decided EXCEPT ![r] = {routes \cap Serves[r]}]
    BY <1>1, <2>1 DEF Decided
  <2>3. Decided[r] = {} /\ routed[r] = None
    BY <1>1 DEF Decided, Unrouted, NotAnswered
  <2> QED
    BY <2>2, <2>3 DEF Table!Decide, Decided, testVars
<1> QED
  BY <1>2, <1>3, <1>4, <1>5

LEMMA MatchNextStep ==
  ASSUME TableInv, NEW r \in Requests, MatchNext(r)
  PROVE  TableInv' /\ Decided' = Decided
<1> USE DEF MatchNext, TableInv, requestVars, testVars
<1>1. Typed' /\ OneInService' /\ Queued' /\ Unrouted'
  BY DEF Typed, OneInService, Queued, Unrouted
<1>2. MatchedSoFar'
  <2>1. PICK h \in untested :
          /\ untested' = untested \ {h}
          /\ matched' = IF RouteMatch(h, r) THEN matched \cup {h} ELSE matched
    OBVIOUS
  <2>2. \A q \in Requests : rstep[q] = "matching" => q = r
    BY DEF OneInService, InService
  <2>3. untested' \subseteq candidates' /\ matched' = (candidates' \ untested') \cap Serves[r]
    BY <2>1 DEF MatchedSoFar, RouteMatch
  <2> QED
    BY <2>2, <2>3 DEF MatchedSoFar
<1>3. Decided' = Decided
  BY DEF Decided
<1> QED
  BY <1>1, <1>2, <1>3

\* When every candidate is tested, what matched are the routes of that moment.
LEMMA DispatchStep ==
  ASSUME TableInv, NEW r \in Requests, Dispatch(r)
  PROVE  TableInv' /\ Table!Deliver(r)
<1> USE DEF Dispatch, Advance, Close
<1>1. /\ r = current /\ rstep[r] = "matching" /\ rstep[r] \in InService
      /\ matched = candidates \cap Serves[r] /\ backlog' = backlog
  BY DEF TableInv, MatchedSoFar, InService
<1>2. \A h \in matched : h \in Handlers
  BY <1>1, HttpAssumption
<1> DEFINE Answered == /\ routed' = [routed EXCEPT ![r] = Table!Answer(matched)]
                       /\ TableInv' /\ \A q \in Requests : rstep'[q] # "matching"
<1>3. Answered
  <2>1. CASE matched = {} /\ routed' = [routed EXCEPT ![r] = "notfound"] /\ Close(r, "error")
    <3>1. Table!Answer(matched) = "notfound"
      BY <2>1 DEF Table!Answer
    <3> QED
      BY <1>1, <2>1, <3>1, ServiceStep
  <2>2. CASE /\ \E g, h \in matched : g # h
             /\ routed' = [routed EXCEPT ![r] = "ambiguous"]
             /\ Close(r, "error")
    <3>1. Table!Answer(matched) = "ambiguous"
      <4>1. matched # {} /\ ~ \E h \in matched : matched = {h}
        BY <2>2
      <4> QED
        BY <4>1 DEF Table!Answer
    <3> QED
      BY <1>1, <2>2, <3>1, ServiceStep
  <2>3. ASSUME NEW h \in matched, matched = {h}, routed' = [routed EXCEPT ![r] = h],
               rstep' = [rstep EXCEPT ![r] = "calling"], UNCHANGED <<status, serve, current>>
        PROVE  Answered
    <3>1. Table!Answer(matched) = h
      <4>1. matched # {} /\ \E g \in matched : matched = {g}
        BY <2>3
      <4>2. (CHOOSE g \in matched : TRUE) = h
        BY <2>3
      <4> QED
        BY <4>1, <4>2 DEF Table!Answer
    <3> QED
      BY <1>1, <1>2, <2>3, <3>1, ServiceStep
  <2> QED
    BY <2>1, <2>2, <2>3
<1>4. Decided[r] = {matched} /\ Decided' = [Decided EXCEPT ![r] = {}]
  <2>1. \A q \in Requests : q # r => rstep[q] # "matching"
    BY <1>1 DEF TableInv, OneInService, InService
  <2> QED
    BY <1>1, <1>3, <2>1 DEF Decided
<1>5. Table!Deliver(r)
  BY <1>3, <1>4 DEF Table!Deliver, Decided, testVars
<1> QED
  BY <1>3, <1>5

LEMMA TableStep == TableInv /\ [Next]_vars => TableInv' /\ [Table!Next]_(Table!vars)
<1> SUFFICES ASSUME TableInv, [Next]_vars PROVE TableInv' /\ [Table!Next]_(Table!vars)
  OBVIOUS
<1> DEFINE Stutter == Decided' = Decided /\ UNCHANGED <<routes, routed>>
<1>0. Stutter => [Table!Next]_(Table!vars)
  BY DEF Table!vars, Decided
<1>1. ASSUME UNCHANGED <<serverVars, requestVars>> PROVE TableInv' /\ Decided' = Decided
  BY <1>1, Aside DEF Decided, serverVars, requestVars, matchVars
<1>2. ASSUME NEW h \in Handlers, UNCHANGED <<serverVars, requestVars>>,
             routes' \in {routes, routes \cup {h}, routes \ {h}}
      PROVE  TableInv' /\ [Table!Next]_(Table!vars)
  <2>1. routes' = routes \/ Table!Change(h)
    BY <1>1, <1>2 DEF Table!Change, Decided, requestVars
  <2> QED
    BY <1>0, <1>1, <1>2, <2>1 DEF Table!Next, requestVars
<1>3. ASSUME NEW h \in UserHandlers, Patch(h) \/ Unpatch(h)
      PROVE  TableInv' /\ [Table!Next]_(Table!vars)
  BY <1>2, <1>3 DEF Patch, Unpatch, Handlers
<1>4. ASSUME NEW r \in Clients, Connect(r) PROVE TableInv' /\ Stutter
  BY <1>4, EnqueueStep DEF Connect, Enqueue, Requests, testVars
<1>5. CASE CallStart \/ LeaveStart
  BY <1>2, <1>5 DEF CallStart, LeaveStart, Handlers
<1>6. CASE Launch
  <2>1. TableInv'
    BY <1>6 DEF Launch, TableInv, Typed, OneInService, Queued, Unrouted, MatchedSoFar, matchVars, requestVars
  <2> QED
    BY <1>0, <1>6, <2>1 DEF Launch, Decided, matchVars, requestVars
<1>7. CASE SendProbe
  BY <1>0, <1>7, EnqueueStep DEF SendProbe, Enqueue, Requests, testVars
<1>8. CASE TakeProbe
  <2>1. Probe \in Requests /\ rstep[Probe] = "done"
    BY <1>8 DEF TakeProbe, Requests
  <2>2. /\ rstep' = [rstep EXCEPT ![Probe] = "new"] /\ routed' = [routed EXCEPT ![Probe] = None]
        /\ UNCHANGED <<routes, serve, backlog, current, candidates, untested, matched>>
    BY <1>8 DEF TakeProbe, serverVars, testVars, matchVars
  <2>3. TableInv'
    <3>1. \A i \in DOMAIN backlog : backlog[i] # Probe /\ backlog[i] \in Requests
      BY <2>1 DEF TableInv, Typed, Queued
    <3>2. Queued'
      BY <2>1, <2>2, <3>1 DEF TableInv, Typed, Queued
    <3>3. Typed' /\ OneInService' /\ Unrouted' /\ MatchedSoFar'
      BY <2>1, <2>2 DEF TableInv, Typed, OneInService, Unrouted, MatchedSoFar, InService, NotAnswered
    <3> QED
      BY <3>2, <3>3 DEF TableInv
  <2>4. Decided' = Decided
    BY <2>1, <2>2 DEF Decided, TableInv, Typed
  <2>5. routed' = routed \/ Table!Renew(Probe)
    BY <2>1, <2>2, <2>4 DEF Table!Renew, Decided, TableInv, Typed
  <2> QED
    BY <1>0, <2>1, <2>2, <2>3, <2>4, <2>5 DEF Table!Next
<1>9. CASE SleepOn \/ CallStop \/ StopDone
  <2>1. CASE SleepOn \/ StopDone
    BY <1>0, <1>1, <2>1 DEF SleepOn, StopDone, testVars, requestVars
  <2>2. CASE CallStop
    <3>1. TableInv'
      BY <2>2 DEF CallStop, TableInv, Typed, OneInService, Queued, Unrouted, MatchedSoFar, matchVars, requestVars
    <3> QED
      BY <1>0, <2>2, <3>1 DEF CallStop, Decided, matchVars, requestVars
  <2> QED
    BY <1>9, <2>1, <2>2
<1>10. CASE ServeEnds
  <2>1. TableInv'
    BY <1>10 DEF ServeEnds, TableInv, Typed, OneInService, Queued, Unrouted, MatchedSoFar, matchVars, requestVars
  <2> QED
    BY <1>0, <1>10, <2>1 DEF ServeEnds, Decided, matchVars, requestVars, testVars
<1>11. CASE Accept
  BY <1>0, <1>11, AcceptStep DEF Accept, testVars
<1>12. ASSUME NEW r \in Requests, Copy(r) \/ Dispatch(r)
       PROVE  TableInv' /\ [Table!Next]_(Table!vars)
  BY <1>12, CopyStep, DispatchStep DEF Table!Next
<1>13. ASSUME NEW r \in Requests, MatchNext(r) PROVE TableInv' /\ Stutter
  BY <1>13, MatchNextStep DEF MatchNext, testVars, requestVars
<1>14. ASSUME NEW r \in Requests, Completes(r) PROVE TableInv' /\ Stutter
  <2>1. /\ rstep[r] \in {"reading", "calling"} /\ UNCHANGED <<routes, routed>>
        /\ TableInv' /\ \A q \in Requests : rstep'[q] # "matching"
    <3>1. CASE ReadRequest(r)
      BY <3>1, ServiceStep DEF ReadRequest, Advance, serverVars, testVars, InService
    <3>2. CASE HangUp(r)
      BY <3>2, ServiceStep DEF HangUp, Close, Advance, testVars, InService
    <3>3. CASE SideEffectEnds(r)
      BY <3>3, ServiceStep DEF SideEffectEnds, Close, Advance, testVars, InService
    <3> QED
      BY <1>14, <3>1, <3>2, <3>3 DEF Completes
  <2>2. \A q \in Requests : rstep[q] # "matching"
    BY <1>14, <2>1 DEF Completes, ReadRequest, HangUp, SideEffectEnds, TableInv, OneInService, InService
  <2> QED
    BY <2>1, <2>2 DEF Decided
<1>15. CASE UNCHANGED vars
  BY <1>0, <1>1, <1>15 DEF vars, testVars, requestVars
<1> QED
  BY <1>0, <1>3, <1>4, <1>5, <1>6, <1>7, <1>8, <1>9, <1>10, <1>11, <1>12, <1>13, <1>14, <1>15
  DEF Next, StepStart, StepServer

\* Whatever routes are patched in and out while the server matches a request against one
\* candidate after the other, the answer is that of the routes at one moment.
THEOREM AnsweredByTableCorrect == Spec => AnsweredByTable
<1> QED
  BY InitTable, TableStep, PTL DEF Spec, AnsweredByTable, Table!Spec

--------------------------------------------------------------------------------
(* The probe of start(). *)

\* The route of /health stands as long as start() may probe it, and the probe is under way
\* only within an attempt.
ProbeInv ==
  /\ starting \in {"launch", "probe"} => Health \in routes
  /\ rstep[Probe] # "new" => starting = "probe" /\ retrying = "attempt"
  /\ rstep[Probe] = "matching" => Health \in candidates
  /\ rstep[Probe] \in {"calling", "done"} => routed[Probe] \in {Health, "ambiguous"}

\* What is matched at the end includes the route of /health.
LEMMA ProbeDispatched ==
  ASSUME TableInv, ProbeInv, NEW r \in Requests, Dispatch(r)
  PROVE  ProbeInv'
<1> USE HttpAssumption DEF Dispatch, Advance, Close, testVars, ProbeInv
<1>1. rstep \in [Requests -> {"new", "queued", "done"} \cup InService] /\ Probe \in Requests
      /\ routed \in [Requests -> Handlers \cup {None, "notfound", "ambiguous"}]
  BY DEF TableInv, Typed, Requests
<1>2. CASE r # Probe
  <2>1. rstep[Probe] # "matching"
    BY <1>1, <1>2 DEF TableInv, OneInService, InService
  <2>2. rstep'[Probe] = rstep[Probe] /\ routed'[Probe] = routed[Probe]
    BY <1>1, <1>2
  <2> QED
    BY <2>1, <2>2 DEF retryVars
<1>3. CASE r = Probe
  <2>1. Health \in matched
    BY <1>3 DEF TableInv, MatchedSoFar
  <2>2. rstep'[Probe] \in {"calling", "done"} /\ routed'[Probe] \in {Health, "ambiguous"}
    BY <1>1, <1>3, <2>1
  <2> QED
    BY <1>1, <1>3, <2>2 DEF retryVars
<1> QED
  BY <1>2, <1>3

LEMMA ProbeStep ==
  ASSUME TableInv, ProbeInv, [Next]_vars
  PROVE  ProbeInv'
<1> USE HttpAssumption DEF ProbeInv
<1>1. rstep \in [Requests -> {"new", "queued", "done"} \cup InService] /\ Probe \in Requests
      /\ routed \in [Requests -> Handlers \cup {None, "notfound", "ambiguous"}]
  BY DEF TableInv, Typed, Requests
<1>2. ASSUME NEW h \in UserHandlers, Patch(h) \/ Unpatch(h) PROVE ProbeInv'
  BY <1>2 DEF Patch, Unpatch, serverVars, matchVars, requestVars, retryVars
<1>3. ASSUME NEW r \in Clients, Connect(r) PROVE ProbeInv'
  BY <1>1, <1>3 DEF Connect, Enqueue, matchVars, testVars, retryVars
<1>4. CASE CallStart \/ Launch \/ LeaveStart
  BY <1>4 DEF CallStart, Launch, LeaveStart, serverVars, matchVars, requestVars, retryVars
<1>5. CASE SendProbe \/ TakeProbe
  BY <1>1, <1>5 DEF SendProbe, TakeProbe, Enqueue, matchVars, testVars, serverVars, retryVars
<1>6. CASE SleepOn
  BY <1>6 DEF SleepOn, Sleep, testVars, serverVars, matchVars, requestVars
<1>7. CASE CallStop \/ StopDone \/ ServeEnds
  BY <1>7 DEF CallStop, StopDone, ServeEnds, testVars, serverVars, matchVars, requestVars, retryVars
<1>8. CASE Accept
  <2>1. Head(backlog) \in Requests /\ rstep[Head(backlog)] = "queued"
    BY <1>8 DEF Accept, TableInv, Typed, Queued
  <2> QED
    BY <1>1, <1>8, <2>1 DEF Accept, Advance, testVars, matchVars, retryVars
<1>9. ASSUME NEW r \in Requests, Copy(r) PROVE ProbeInv'
  <2>1. CASE r = Probe
    BY <1>1, <1>9, <2>1 DEF Copy, Advance, testVars, retryVars
  <2>2. CASE r # Probe
    <3>1. rstep[Probe] # "matching"
      BY <1>9, <2>2, <1>1 DEF Copy, TableInv, OneInService, InService
    <3> QED
      BY <1>1, <1>9, <2>2, <3>1 DEF Copy, Advance, testVars, retryVars
  <2> QED
    BY <2>1, <2>2
<1>10. ASSUME NEW r \in Requests, MatchNext(r) PROVE ProbeInv'
  BY <1>10 DEF MatchNext, testVars, requestVars, retryVars
<1>11. ASSUME NEW r \in Requests, Completes(r) PROVE ProbeInv'
  BY <1>1, <1>11 DEF Completes, ReadRequest, HangUp, SideEffectEnds, Close, Advance, testVars,
     serverVars, matchVars, retryVars, Requests
<1>12. CASE UNCHANGED vars
  BY <1>12 DEF vars, testVars, serverVars, matchVars, requestVars, retryVars
<1> QED
  BY <1>2, <1>3, <1>4, <1>5, <1>6, <1>7, <1>8, <1>9, <1>10, <1>11, <1>12, ProbeDispatched
  DEF Next, StepStart, StepServer

\* Whatever the test patches meanwhile, and however often start() is called, its probe finds
\* the route of /health, alone or beside one of the test.
THEOREM ProbeFindsHealthCorrect == Spec => []ProbeFindsHealth
<1>1. Init => ProbeInv
  BY DEF Init, ProbeInv, Requests
<1>2. ProbeInv => ProbeFindsHealth
  BY DEF ProbeInv, ProbeFindsHealth
<1>3. TableInv /\ [Next]_vars => TableInv'
  BY TableStep
<1> QED
  BY <1>1, <1>2, <1>3, InitTable, ProbeStep, PTL DEF Spec
================================================================================
