-------------------------- MODULE MCRequestStream --------------------------
(***************************************************************************)
(* Constants of TLC's run of RequestStream: requests of every kind, some   *)
(* with a body that reads like a request or like the end of a header, and  *)
(* a chunked one whose size does not fit into a machine word.              *)
(***************************************************************************)
EXTENDS RequestStream

Req(kind, framing, chunks) ==
  [kind |-> kind, framing |-> framing, chunks |-> chunks, trailer |-> FALSE,
   close |-> FALSE, expect |-> FALSE]

Get      == Req("plain", "none", << >>)
Inner    == <<Lead(Get), Crlf, Crlf>>
Delete   == Req("plain", "fixed", <<Inner>>)
Propfind == [Req("body", "fixed", <<Inner>>) EXCEPT !.close = TRUE]
Post     == [Req("lost", "fixed", <<<<Data("x")>>>>) EXCEPT !.expect = TRUE]
PutParts == [Req("put", "chunked", <<<<Data("x"), Crlf>>, <<Data("x")>>>>)
               EXCEPT !.trailer = TRUE]
PutBig   == Req("put", "chunked", <<<<Data("x"), Crlf>>, <<Data("x"), Data("x")>>>>)
PutAsk   == [Req("put", "fixed", <<<<Data("x"), Crlf, Crlf>>>>) EXCEPT !.expect = TRUE]

MCRequest == {Get, Delete, Propfind, Post, PutParts, PutBig, PutAsk}
MCDatum == {"x", "field"}
=============================================================================
