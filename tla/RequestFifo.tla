---------------------------- MODULE RequestFifo ----------------------------
(***************************************************************************)
(* What a connection promises to its client: requests are served one by    *)
(* one in the order in which they were sent, each at most once, each with  *)
(* exactly its own body, none after the one at which the connection ends.  *)
(* How requests and bodies are told apart in the bytes of the connection   *)
(* is not seen here; RequestStream implements it.                          *)
(***************************************************************************)
EXTENDS Naturals, Sequences

CONSTANTS
  Request,    \* the requests a client may send
  Served(_),  \* what the server takes a request to be, and its body
  IsLast(_)   \* whether the connection ends with a request

VARIABLES
  sent,  \* the requests the client has sent on this connection
  done,  \* what the server has served on it
  open   \* whether the server goes on reading from it

vars == <<sent, done, open>>

Init ==
  /\ sent = << >>
  /\ done = << >>
  /\ open = FALSE

Connect ==
  /\ ~open
  /\ open' = TRUE
  /\ sent' = << >>
  /\ done' = << >>

(* A client may send to a server that has already turned away.             *)
Send(r) ==
  /\ sent' = Append(sent, r)
  /\ UNCHANGED <<done, open>>

(* The answer may not reach the client, which ends the connection.         *)
Serve ==
  /\ open
  /\ Len(done) < Len(sent)
  /\ LET r == sent[Len(done) + 1]
     IN  /\ done' = Append(done, Served(r))
         /\ open' \in IF IsLast(r) THEN {FALSE} ELSE BOOLEAN
  /\ UNCHANGED sent

Stop ==
  /\ open
  /\ open' = FALSE
  /\ UNCHANGED <<sent, done>>

Next == Connect \/ (\E r \in Request : Send(r)) \/ Serve \/ Stop

Spec == Init /\ [][Next]_vars
=============================================================================
