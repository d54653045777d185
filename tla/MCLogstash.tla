----------------------------- MODULE MCLogstash ------------------------------
(***************************************************************************)
(* Logstash on small instances.  A byte is a letter; "a" and "ab" are the   *)
(* lines that json.loads takes, so "b" and the empty line are bad.         *)
(***************************************************************************)
EXTENDS Logstash

CONSTANTS c1, c2

MCBytes == {"a", "b", "n", ";"}
MCRecords == {<<"a">>, <<"a", "b">>}
Newline == <<"n">>
Semicolon == <<";">>

\* The first client sends two records, of which no recv returns more than two bytes; the
\* second an empty line, which is none.
MCStreams == c1 :> {<<"a", "b", "n", "a", "n">>} @@ c2 :> {<<"n">>}
MCDelimiters == {Newline, Semicolon}
================================================================================
