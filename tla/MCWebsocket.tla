----------------------------- MODULE MCWebsocket -----------------------------
(***************************************************************************)
(* A connection that talks, a connection that only comes and goes, and a   *)
(* call of capture_calls.                                                  *)
(***************************************************************************)
EXTENDS Websocket, TLC

CONSTANTS talker, passerBy

MCLimit == talker :> 2 @@ passerBy :> 0

ServerSays(data) == Message("server", data)
ClientSays(data) == Message("client", data)
MCPatterns ==
  {<<>>, <<Ellipsis>>, <<Ellipsis, Ellipsis>>,
   <<ClientSays(Ellipsis), Ellipsis>>,
   <<Ellipsis, ServerSays("bytes")>>,
   <<Ellipsis, ServerSays(Ellipsis), Ellipsis>>,
   <<ServerSays("text"), ClientSays("bytes")>>}
==============================================================================
