---------------------------- MODULE MCHttpService -----------------------------
(***************************************************************************)
(* HttpService on a small instance: two routes of the test that overlap,   *)
(* one of them a pattern that matches /health too, and two clients.        *)
(***************************************************************************)
EXTENDS HttpService, TLC

CONSTANTS r1, r2, h1, h2

MCServes == r1 :> {h1, h2} @@ r2 :> {h1} @@ Probe :> {Health, h2}
MCOutcomes == h1 :> {"text", "raises"} @@ h2 :> {"unsendable"} @@ Health :> {"code"}
\* RetrySpec(attempts=10), with two attempts.
MCRetrySpecs == {[interval |-> 1, attempts |-> 2, timeout |-> None]}
================================================================================
