------------------------------ MODULE MCMatching -----------------------------
(***************************************************************************)
(* Three requests with repeated headers in different cases, a query and    *)
(* bodies of json, of other text and of bytes that are no text; and        *)
(* expectations that one, some or none of them meet.                       *)
(***************************************************************************)
EXTENDS Matching

MCLower == "Tag" :> "tag" @@ "TAG" :> "tag" @@ "tag" :> "tag"
MCUpper == "get" :> "GET" @@ "POST" :> "POST"
MCJsonOf == "{a:1}" :> "object" @@ "[" :> "invalid" @@ "0xFF" :> "undecodable"

Request(headers, method, path, params, query, content) ==
  [headers |-> headers, method |-> method, path |-> path, path_params |-> params,
   query_params |-> query, content |-> content]
MCRequests ==
  {Request(<<<<"Tag", "a">>, <<"tag", "a">>>>, "POST", "/x/1", "x" :> "1", <<>>, "{a:1}"),
   Request(<<<<"TAG", "a">>, <<"tag", "b">>>>, "GET", "/x/2", "x" :> "2",
           <<<<"q", "v">>, <<"p", "v">>, <<"q", "w">>>>, "["),
   Request(<<>>, "POST", "/x/1", "x" :> "1", <<<<"q", "w">>>>, "0xFF")}

Anything ==
  [headers |-> None, headers_submap |-> None, path |-> None, path_params |-> None,
   path_params_submap |-> None, query_params |-> None, query_params_submap |-> None,
   method |-> None, body |-> None]
MCExpectations ==
  {Anything,
   [Anything EXCEPT !.headers_submap = "TAG" :> <<"a", "a">>],
   [Anything EXCEPT !.headers_submap = "Tag" :> <<>>],
   [Anything EXCEPT !.headers = "Tag" :> <<"a", "b">>, !.path = {"/x/2", "/x/3"}],
   [Anything EXCEPT !.query_params_submap = "q" :> <<"w">>],
   [Anything EXCEPT !.query_params = ("q" :> <<"v", "w">> @@ "p" :> <<"v">>), !.method = "get"],
   [Anything EXCEPT !.path_params_submap = "x" :> "1", !.method = "POST"],
   [Anything EXCEPT !.path_params = "x" :> "2", !.body = [by |-> "content", accepts |-> {"["}]],
   [Anything EXCEPT !.body = [by |-> "json", accepts |-> {"object"}]]}
==============================================================================
