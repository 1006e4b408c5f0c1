--------------------------- MODULE RequestStream ---------------------------
(***************************************************************************)
(* One connection: how HttpSession cuts requests and their bodies out of   *)
(* the bytes that arrive (handle_session, read_request, read_body and what *)
(* they call), and the client at the other end.                            *)
(*                                                                         *)
(* Bytes are grouped into atoms, the units the code tells apart: a CRLF, a *)
(* request line with its header fields, a line with a chunk size, a byte   *)
(* of data.  Any atom may be part of a body.  They arrive in pieces of any *)
(* size; what a reader has received and not used stays in buf_ for the     *)
(* next one.                                                               *)
(***************************************************************************)
EXTENDS Naturals, Sequences, SequencesExt

CONSTANTS
  Request,      \* the requests a client may send
  Datum,        \* bytes without a meaning to the server
  MaxRequests,  \* bound: the requests sent on one connection
  IoChunk,      \* kIoChunkSize, in atoms
  SizeMod       \* 2^w for the w bits of size_t

(***************************************************************************)
(* A request, as its sender means it.  "kind" says what the server does    *)
(* with a body: "plain" handlers never look for one (GET, HEAD, DELETE,    *)
(* MKCOL, COPY, MOVE, OPTIONS, UNLOCK, unknown methods), "body" handlers   *)
(* read it (POST, PROPFIND, PROPPATCH, LOCK), "lost" ones read it, answer  *)
(* 404 and give up (POST to an unknown path), and PUT may refuse before    *)
(* it has read any of it.                                                  *)
(***************************************************************************)
Crlf    == [crlf |-> TRUE]
Lead(r) == [lead |-> r]
Size(n) == [size |-> n]
Data(d) == [data |-> d]

Atom == {Crlf} \union [lead : Request] \union [size : Nat] \union [data : Datum]

Kind    == {"plain", "body", "lost", "put"}
Framing == {"none", "fixed", "chunked"}

ASSUME StreamAssumption ==
  /\ \A r \in Request :
       /\ r.kind \in Kind /\ r.framing \in Framing
       /\ r.chunks \in Seq(Seq(Atom))
       /\ r.framing = "none" => r.chunks = << >>
       /\ r.framing = "chunked" => \A i \in DOMAIN r.chunks : r.chunks[i] # << >>
       /\ {r.trailer, r.close, r.expect} \subseteq BOOLEAN
  /\ "field" \in Datum
  /\ MaxRequests \in Nat
  /\ IoChunk \in Nat \ {0}
  /\ SizeMod \in Nat \ {0}

VARIABLES
  pc,       \* what the session waits for or does next
  buf,      \* buf_: received and not yet used
  cur,      \* the request that is being read or handled
  body,     \* what has been collected of its body
  piece,    \* what read_fixed_body has collected so far
  need,     \* how much it still has to read
  total,    \* content_length of a chunked body
  handled,  \* the requests answered on this connection (history)
  wire,     \* sent by the client and not yet received
  held,     \* a body the client keeps back until it is told to continue
  told,     \* whether it has been told
  gone,     \* whether the client has closed or lost the connection
  sent      \* the requests sent on this connection (history)

session == <<pc, buf, cur, body, piece, need, total, handled>>
client  == <<wire, held, told, gone, sent>>
vars    == <<pc, buf, cur, body, piece, need, total, handled,
             wire, held, told, gone, sent>>

-----------------------------------------------------------------------------
(* The bytes of a request.                                                 *)
Body(r) == FlattenSeq(r.chunks)

Header(r) == <<Lead(r), Crlf, Crlf>>

Chunk(c) == <<Size(Len(c)), Crlf>> \o c \o <<Crlf>>

BodyBytes(r) ==
  CASE r.framing = "none"    -> << >>
    [] r.framing = "fixed"   -> Body(r)
    [] r.framing = "chunked" ->
         FlattenSeq([i \in DOMAIN r.chunks |-> Chunk(r.chunks[i])])
         \o <<Size(0), Crlf>>
         \o (IF r.trailer THEN <<Data("field"), Crlf>> ELSE << >>)
         \o <<Crlf>>

(* What Parser::parse_request makes of a text that is not one request:     *)
(* leading line ends are skipped; other text before a request line becomes *)
(* part of the method, while the header fields after it are still read.    *)
Garbled(close) ==
  [kind |-> "plain", framing |-> "none", chunks |-> << >>, trailer |-> FALSE,
   close |-> close, expect |-> FALSE]

NoRequest == Garbled(FALSE)

IsLead(a) == "lead" \in DOMAIN a
IsSize(a) == "size" \in DOMAIN a

(* The least number of a set: the first position of something in a text.   *)
First(S) == CHOOSE k \in S : \A j \in S : k <= j

Parsed(text) ==
  LET words == {i \in DOMAIN text : text[i] # Crlf}
  IN  IF words # {} /\ IsLead(text[First(words)]) THEN text[First(words)].lead
      ELSE Garbled(\E i \in words : IsLead(text[i]) /\ text[i].lead.close)

-----------------------------------------------------------------------------
(* The first end of a header, or of a line, in the buffer.                 *)
HeaderEnds == {k \in 1 .. Len(buf) - 1 : buf[k] = Crlf /\ buf[k + 1] = Crlf}
LineEnds   == {k \in 1 .. Len(buf) : buf[k] = Crlf}

Least(m, n) == IF m <= n THEN m ELSE n

UpTo(k) == SubSeq(buf, 1, k)
From(k) == SubSeq(buf, k, Len(buf))

(* What read_request and read_until look for is not yet in buf_.           *)
ReadsLine == {"size", "crlf", "trailer"}

Waiting ==
  \/ pc = "head" /\ HeaderEnds = {}
  \/ pc \in ReadsLine /\ LineEnds = {}

(* async_read_until takes whatever has come.                               *)
Receive ==
  /\ Waiting
  /\ \E n \in 1 .. Len(wire) :
       /\ buf' = buf \o SubSeq(wire, 1, n)
       /\ wire' = SubSeq(wire, n + 1, Len(wire))
  /\ UNCHANGED <<pc, cur, body, piece, need, total, handled, held, told, gone, sent>>

(* The connection ends in the middle of what is being read.                *)
ReadFails ==
  /\ gone
  /\ \/ Waiting /\ wire = << >>
     \/ pc = "fixed" /\ Len(wire) < Least(IoChunk, need)
  /\ pc' = "closing"
  /\ UNCHANGED <<buf, cur, body, piece, need, total, handled, client>>

(* read_body: "Transfer-Encoding: chunked" comes before Content-Length.    *)
StartBody(r) ==
  /\ pc' = CASE r.framing = "chunked" -> "size"
             [] r.framing = "fixed"   -> "buffered"
             [] r.framing = "none"    -> "handle"
  /\ need' = IF r.framing = "fixed" THEN Len(Body(r)) ELSE 0

(* read_request, and the dispatch of process_request.                      *)
ReadRequest ==
  /\ pc = "head"
  /\ HeaderEnds # {}
  /\ LET k == First(HeaderEnds)
         r == Parsed(UpTo(k - 1))
     IN  /\ buf' = From(k + 2)
         /\ cur' = r
         /\ \/ r.kind = "plain" /\ pc' = "handle" /\ need' = 0
            \/ r.kind = "put" /\ pc' = "put" /\ need' = 0
            \/ r.kind \in {"body", "lost"} /\ StartBody(r)
  /\ body' = << >> /\ piece' = << >> /\ total' = 0
  /\ UNCHANGED <<handled, client>>

(* Mutant: the session goes on after a refusal.                            *)
RefusePutAndGoOn ==
  /\ pc = "put"
  /\ pc' = "head"
  /\ UNCHANGED <<buf, cur, body, piece, need, total, handled, client>>

(* A PUT whose conditions fail is answered and ends the connection: its    *)
(* body may be on the way, and nobody will read it.                        *)
RefusePut ==
  /\ pc = "put"
  /\ pc' = "closing"
  /\ UNCHANGED <<buf, cur, body, piece, need, total, handled, client>>

(* Mutant: the interim answer is forgotten.                                *)
AcceptPutSilently ==
  /\ pc = "put"
  /\ StartBody(cur)
  /\ UNCHANGED <<buf, cur, body, piece, total, handled, client>>

(* "100 Continue", if the client has asked for it.                         *)
AcceptPut ==
  /\ pc = "put"
  /\ StartBody(cur)
  /\ told' = (told \/ (cur.expect /\ Len(handled) + 1 = Len(sent)))
  /\ UNCHANGED <<buf, cur, body, piece, total, handled, wire, held, gone, sent>>

-----------------------------------------------------------------------------
(* Mutant: all of buf_ is taken.                                           *)
TakeAllBuffered ==
  /\ pc = "buffered"
  /\ piece' = buf
  /\ buf' = << >>
  /\ need' = need - Len(buf)
  /\ pc' = "fixed"
  /\ UNCHANGED <<cur, body, total, handled, client>>

(* read_fixed_body takes from buf_ first, but not more than it needs, ...  *)
TakeBuffered ==
  /\ pc = "buffered"
  /\ LET n == Least(Len(buf), need)
     IN  /\ piece' = UpTo(n)
         /\ buf' = From(n + 1)
         /\ need' = need - n
  /\ pc' = "fixed"
  /\ UNCHANGED <<cur, body, total, handled, client>>

(* ... then the rest from the socket, in pieces of kIoChunkSize: each is   *)
(* added to buf_, and as much as has come is taken from the front.         *)
ReadPiece ==
  /\ pc = "fixed"
  /\ need > 0
  /\ LET n == Least(IoChunk, need)
         got == buf \o SubSeq(wire, 1, n)
     IN  /\ Len(wire) >= n
         /\ piece' = piece \o SubSeq(got, 1, n)
         /\ buf' = SubSeq(got, n + 1, Len(got))
         /\ wire' = SubSeq(wire, n + 1, Len(wire))
         /\ need' = need - n
  /\ UNCHANGED <<pc, cur, body, total, handled, held, told, gone, sent>>

EndFixed ==
  /\ pc = "fixed"
  /\ need = 0
  /\ \/ /\ cur.framing = "chunked"
        /\ pc' = "crlf"
        /\ UNCHANGED <<body, piece>>
     \/ /\ cur.framing = "fixed"
        /\ pc' = "handle"
        /\ body' = piece /\ piece' = << >>
  /\ UNCHANGED <<buf, cur, need, total, handled, client>>

(* read_until: the line up to the next CRLF.                               *)
ReadLine(state) ==
  /\ pc = state
  /\ LineEnds # {}
  /\ buf' = From(First(LineEnds) + 1)
  /\ UNCHANGED <<cur, handled, client>>

Line == UpTo(First(LineEnds) - 1)

(* Mutant: the sum of the chunk sizes may wrap around.                     *)
TooLargeAlone(n) == n > SizeMod - 1

(* The line does not fit into a size_t, or the sum of all chunks does not. *)
TooLarge(n) == n > SizeMod - 1 - total

(* parse_chunk_size_line, and what read_chunked_body does with the size.   *)
ReadSize ==
  /\ ReadLine("size")
  /\ \/ /\ ~(Len(Line) = 1 /\ IsSize(Line[1]))
        /\ pc' = "closing" /\ UNCHANGED need
     \/ /\ Len(Line) = 1 /\ IsSize(Line[1])
        /\ LET n == Line[1].size
           IN  \/ n = 0 /\ pc' = "trailer" /\ UNCHANGED need
               \/ n > 0 /\ TooLarge(n) /\ pc' = "closing" /\ UNCHANGED need
               \/ n > 0 /\ ~TooLarge(n) /\ pc' = "buffered" /\ need' = n
  /\ UNCHANGED <<body, piece, total>>

(* The CRLF after the data of a chunk; only then the chunk counts.         *)
ReadChunkEnd ==
  /\ ReadLine("crlf")
  /\ \/ /\ Line # << >>
        /\ pc' = "closing"
        /\ UNCHANGED <<body, piece, total>>
     \/ /\ Line = << >>
        /\ pc' = "size"
        /\ body' = body \o piece
        /\ total' = (total + Len(piece)) % SizeMod
        /\ piece' = << >>
  /\ UNCHANGED need

ReadTrailer ==
  /\ ReadLine("trailer")
  /\ pc' = IF Line = << >> THEN "handle" ELSE "trailer"
  /\ UNCHANGED <<body, piece, need, total>>

-----------------------------------------------------------------------------
(* "Connection: close" was asked for, or the handler throws after its      *)
(* answer.                                                                 *)
EndsConnection(r) == r.close \/ r.kind = "lost"

(* The handler has run, and the answer is written, or cannot be.           *)
Handle ==
  /\ pc = "handle"
  /\ handled' = Append(handled, [req |-> cur, body |-> body])
  /\ pc' \in (IF EndsConnection(cur) THEN {"closing"} ELSE {"head"})
             \union (IF gone THEN {"closing"} ELSE {})
  /\ UNCHANGED <<buf, cur, body, piece, need, total, client>>

(* The handler throws before it has an answer: a JSON body that is not an  *)
(* object, a file system that fails.  The session ends.                    *)
HandlerThrows ==
  /\ pc = "handle"
  /\ cur.kind \in {"plain", "body"}
  /\ pc' = "closing"
  /\ UNCHANGED <<buf, cur, body, piece, need, total, handled, client>>

(* handle_session catches what was thrown, and stops the session.          *)
Stop ==
  /\ pc = "closing"
  /\ pc' = "closed"
  /\ buf' = << >> /\ cur' = NoRequest /\ body' = << >> /\ piece' = << >>
  /\ need' = 0 /\ total' = 0
  /\ wire' = << >> /\ held' = << >>
  /\ UNCHANGED <<handled, told, gone, sent>>

-----------------------------------------------------------------------------
(* The client.  It may send further requests before the first is answered. *)
Send(r) ==
  /\ pc # "closed"
  /\ ~gone /\ held = << >>
  /\ Len(sent) < MaxRequests
  /\ sent' = Append(sent, r)
  /\ wire' = wire \o Header(r) \o (IF r.expect THEN << >> ELSE BodyBytes(r))
  /\ held' = IF r.expect THEN BodyBytes(r) ELSE << >>
  /\ told' = FALSE
  /\ UNCHANGED <<gone, session>>

SendBody ==
  /\ held # << >>
  /\ wire' = wire \o held
  /\ held' = << >>
  /\ UNCHANGED <<told, gone, sent, session>>

(* A client sends its body when it is told to, or when it tires of waiting *)
(* for that.                                                               *)
SendBodyTold    == told /\ SendBody
SendBodyUntold  == ~told /\ SendBody

(* The connection breaks, and some of what was sent never arrives.         *)
Hangup ==
  /\ pc # "closed"
  /\ ~gone
  /\ gone' = TRUE
  /\ held' = << >>
  /\ \E k \in 0 .. Len(wire) : wire' = SubSeq(wire, 1, k)
  /\ UNCHANGED <<told, sent, session>>

(* HttpFileServer accepts the connection.                                  *)
Open ==
  /\ pc = "closed"
  /\ pc' = "head"
  /\ handled' = << >> /\ sent' = << >>
  /\ told' = FALSE /\ gone' = FALSE
  /\ UNCHANGED <<buf, cur, body, piece, need, total, wire, held>>

Init ==
  /\ pc = "closed"
  /\ buf = << >> /\ cur = NoRequest /\ body = << >> /\ piece = << >>
  /\ need = 0 /\ total = 0 /\ handled = << >>
  /\ wire = << >> /\ held = << >> /\ told = FALSE /\ gone = FALSE /\ sent = << >>

Serving ==
  \/ ReadRequest \/ RefusePut \/ AcceptPut
  \/ TakeBuffered \/ ReadPiece \/ EndFixed
  \/ ReadSize \/ ReadChunkEnd \/ ReadTrailer
  \/ Handle \/ HandlerThrows \/ Stop

Sending == (\E r \in Request : Send(r)) \/ SendBodyTold \/ SendBodyUntold \/ Hangup

Next == Receive \/ ReadFails \/ Serving \/ Sending \/ Open

Spec == Init /\ [][Next]_vars

(* The event loop resumes a session whose data is there; a client that has *)
(* been told to continue does so.  Where the server never says "continue", *)
(* because only PUT does, the client must tire of waiting.                 *)
Fairness ==
  /\ WF_vars(Receive) /\ WF_vars(ReadFails) /\ WF_vars(Serving)
  /\ WF_vars(SendBodyTold)
  /\ WF_vars(SendBodyUntold /\ sent[Len(sent)].kind # "put")

FairSpec == Spec /\ Fairness

-----------------------------------------------------------------------------
(* Every variable has a value of its kind.                                 *)
TypeOK ==
  /\ pc \in {"closed", "head", "put", "buffered", "fixed", "handle", "closing"}
            \union ReadsLine
  /\ cur \in Request \union {Garbled(close) : close \in BOOLEAN}
  /\ {buf, body, piece, wire, held} \subseteq Seq(Atom)
  /\ need \in Nat
  /\ total \in 0 .. SizeMod - 1
  /\ {told, gone} \subseteq BOOLEAN
  /\ sent \in Seq(Request)
  /\ handled \in Seq([req : Request \union {Garbled(close) : close \in BOOLEAN},
                      body : Seq(Atom)])

(* Chunk sizes are added up in a machine word: while a chunked body is     *)
(* read, the count is exactly what has been collected, because a chunk     *)
(* with which it would wrap around ends the connection.                    *)
CountExact ==
  pc \in {"size", "crlf", "trailer"} => total = Len(body)

(* A request with a body that its handler never looks for (read_body is    *)
(* only called for POST, PUT, PROPFIND, PROPPATCH and LOCK).               *)
Unread(r) == r.kind = "plain" /\ BodyBytes(r) # << >>

Ignored == {i \in DOMAIN handled : Unread(handled[i].req)}

(* What was answered while the server still knew where requests begin.     *)
InStep ==
  IF Ignored = {} THEN handled ELSE SubSeq(handled, 1, First(Ignored))

Reading == pc \notin {"closed", "closing"}

Fifo == INSTANCE RequestFifo WITH
  sent <- sent,
  done <- InStep,
  open <- Reading,
  Served <- LAMBDA r : [req |-> r, body |-> IF r.kind = "plain" THEN << >> ELSE Body(r)],
  IsLast <- LAMBDA r : r.close

(* However the bytes arrive, requests are answered in the order in which   *)
(* they were sent, each once and with exactly its own body, and none after *)
(* one that asks for the connection to be closed, or that is refused; up   *)
(* to and including the first whose body is not read.                      *)
ImplementsFifo == Fifo!Spec

(* Every request of a client that sends it in full is answered, or the     *)
(* connection ends; unless an earlier body was not read.  A client that    *)
(* waits for "100 Continue" before a PUT need not tire of waiting.         *)
SentIsAnswered ==
  \A n \in 1 .. MaxRequests :
    Reading /\ Len(sent) >= n ~> Len(handled) >= n \/ ~Reading \/ Ignored # {}
=============================================================================
