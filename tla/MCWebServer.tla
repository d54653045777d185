----------------------------- MODULE MCWebServer -----------------------------
(* Small instances of WebServer for TLC. *)
EXTENDS WebServer, TLC

\* Every endpoint is built with the same async callable.
CONSTANT Callable
MCInitialEffect == [e \in Endpoints |-> Callable]

\* Every request can be served by any endpoint of the test: they share one path.
MCServesAll == [r \in Requests |-> UserEndpoints \cup ClassEndpoints]

\* One endpoint is a websocket endpoint, whose route no HTTP request matches.
CONSTANT Other
MCServesOthers == [r \in Requests |-> (UserEndpoints \cup ClassEndpoints) \ {Other}]

CaptureSymmetry == Permutations(Requests) \cup Permutations(Captures)
==============================================================================
