-------------------------- MODULE MCWebsocketService --------------------------
(***************************************************************************)
(* WebsocketService on a small instance: a connection that a path and two  *)
(* patterns may route, and one that the path only may.                      *)
(***************************************************************************)
EXTENDS WebsocketService, TLC

CONSTANTS c1, c2, p1, q1, q2, list, function, generator

MCPathOf == c1 :> p1 @@ c2 :> p1
MCMatches == c1 :> {q1, q2} @@ c2 :> {}
MCKind == list :> "list" @@ function :> "function" @@ generator :> "generator"
MCRoutable == p1 :> {generator} @@ q1 :> {list} @@ q2 :> {function}
MCMaxData == c1 :> 1 @@ c2 :> 0
================================================================================
