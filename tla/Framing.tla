------------------------------- MODULE Framing -------------------------------
(***************************************************************************)
(* The cutting of a stream of bytes into lines, as bytes.split does it.    *)
(***************************************************************************)
EXTENDS Naturals, Sequences, FiniteSetsExt

\* The positions from i on at which the delimiter d stands in s.
Hits(s, d, i) == {j \in i..(Len(s) + 1 - Len(d)) : SubSeq(s, j, j + Len(d) - 1) = d}

\* bytes.split: the pieces of s between the delimiters, of which there is at least one.
Split(s, d) ==
  LET rest[i \in 1..(Len(s) + 1)] ==
        LET hits == Hits(s, d, i)
        IN IF hits = {} THEN <<SubSeq(s, i, Len(s))>>
           ELSE <<SubSeq(s, i, Min(hits) - 1)>> \o rest[Min(hits) + Len(d)]
  IN rest[1]

\* The pieces that a delimiter ends.
Lines(s, d) == LET pieces == Split(s, d) IN SubSeq(pieces, 1, Len(pieces) - 1)

\* The lines before the first that is not a record: json.loads raises on that one.
GoodPrefix(lines, Records) ==
  LET bad == {k \in DOMAIN lines : lines[k] \notin Records}
  IN IF bad = {} THEN lines ELSE SubSeq(lines, 1, Min(bad) - 1)
==============================================================================
