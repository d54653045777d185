------------------------------ MODULE RouteTable ------------------------------
(***************************************************************************)
(* What a router of patched routes promises.  Routes come and go at any    *)
(* time; each request is answered by the routes that stand at one moment   *)
(* of its service: by the one that matches it, with an error if none or    *)
(* several do.  Which routes come or go around that moment, and how long   *)
(* the answer takes, makes no difference.                                  *)
(***************************************************************************)
CONSTANTS
  Requests,  \* the requests a client may send
  Handlers,  \* the routes that may be patched in
  Serves,    \* Serves[r]: the handlers whose route matches request r
  None

VARIABLES
  routes,   \* the routes that stand
  decided,  \* decided[r]: the set of routes that matched r at its moment, once it has come
  routed    \* routed[r]: what r was routed to, None before

vars == <<routes, decided, routed>>

\* One match is the answer; the other two are errors.
Answer(matching) ==
  IF matching = {} THEN "notfound"
  ELSE IF \E h \in matching : matching = {h} THEN CHOOSE h \in matching : TRUE
  ELSE "ambiguous"

Init ==
  /\ routes = {}
  /\ decided = [r \in Requests |-> {}]
  /\ routed = [r \in Requests |-> None]

Change(h) ==
  /\ routes' = IF h \in routes THEN routes \ {h} ELSE routes \cup {h}
  /\ UNCHANGED <<decided, routed>>

Decide(r) ==
  /\ decided[r] = {} /\ routed[r] = None
  /\ decided' = [decided EXCEPT ![r] = {routes \cap Serves[r]}]
  /\ UNCHANGED <<routes, routed>>

Deliver(r) ==
  /\ \E matching \in decided[r] : routed' = [routed EXCEPT ![r] = Answer(matching)]
  /\ decided' = [decided EXCEPT ![r] = {}]
  /\ UNCHANGED routes

\* The client sends the request once more.
Renew(r) ==
  /\ routed[r] # None
  /\ routed' = [routed EXCEPT ![r] = None]
  /\ UNCHANGED <<routes, decided>>

Next ==
  \/ \E h \in Handlers : Change(h)
  \/ \E r \in Requests : Decide(r) \/ Deliver(r) \/ Renew(r)

Spec == Init /\ [][Next]_vars
================================================================================
