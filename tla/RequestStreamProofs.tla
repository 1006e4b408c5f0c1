------------------------ MODULE RequestStreamProofs ------------------------
(***************************************************************************)
(* What holds of a connection for every set of requests, every body and    *)
(* every way the bytes arrive: all that is read is what it should be       *)
(* (StreamTypeCorrect), the length of a chunked body is counted without    *)
(* wrapping around (CountsExactly), and requests are answered in order,    *)
(* each with its own body (AnswersInOrder): the session implements         *)
(* RequestFifo.                                                            *)
(***************************************************************************)
EXTENDS RequestStream, SequenceLemmas

Garbles  == {Garbled(close) : close \in BOOLEAN}
States   == {"closed", "head", "put", "buffered", "fixed", "handle", "closing"}
            \union ReadsLine
Answered == [req : Request \union Garbles, body : Seq(Atom)]

(* TypeOK, variable by variable.                                           *)
Types ==
  /\ pc \in States
  /\ cur \in Request \union Garbles
  /\ buf \in Seq(Atom) /\ body \in Seq(Atom) /\ piece \in Seq(Atom)
  /\ wire \in Seq(Atom) /\ held \in Seq(Atom)
  /\ need \in Nat
  /\ total \in 0 .. SizeMod - 1
  /\ told \in BOOLEAN /\ gone \in BOOLEAN
  /\ sent \in Seq(Request)
  /\ handled \in Seq(Answered)

LEMMA TypesAreTypeOK == Types <=> TypeOK
  BY DEF Types, TypeOK, States, Answered, Garbles

-----------------------------------------------------------------------------
(* The bytes of a request are atoms.                                       *)
LEMMA AtomKinds ==
  /\ Crlf \in Atom
  /\ \A r \in Request : Lead(r) \in Atom
  /\ \A n \in Nat : Size(n) \in Atom
  /\ \A d \in Datum : Data(d) \in Atom
  BY DEF Atom, Crlf, Lead, Size, Data

(* An atom says by its fields what it is.                                  *)
LEMMA AtomFields ==
  ASSUME NEW a \in Atom
  PROVE  /\ IsLead(a) => a.lead \in Request /\ a = Lead(a.lead)
         /\ IsSize(a) => a.size \in Nat /\ a = Size(a.size)
<1>1. CASE a = Crlf
  BY <1>1 DEF Crlf, IsLead, IsSize
<1>2. CASE a \in [lead : Request]
  BY <1>2 DEF IsLead, IsSize, Lead
<1>3. CASE a \in [size : Nat]
  BY <1>3 DEF IsLead, IsSize, Size
<1>4. CASE a \in [data : Datum]
  BY <1>4 DEF IsLead, IsSize
<1> QED
  BY <1>1, <1>2, <1>3, <1>4 DEF Atom

LEMMA BodyIsAtoms ==
  ASSUME NEW r \in Request
  PROVE  Body(r) \in Seq(Atom) /\ Len(Body(r)) \in Nat
<1>1. r.chunks \in Seq(Seq(Atom))
  BY StreamAssumption
<1>2. Body(r) \in Seq(Atom)
  BY <1>1, FlattenType DEF Body
<1> QED
  BY <1>2, LenProperties

LEMMA ChunkIsAtoms ==
  ASSUME NEW c \in Seq(Atom)
  PROVE  /\ <<Size(Len(c)), Crlf>> \in Seq(Atom) /\ <<Crlf>> \in Seq(Atom)
         /\ Chunk(c) \in Seq(Atom)
<1>1. Len(c) \in Nat
  BY LenProperties
<1>2. <<Size(Len(c)), Crlf>> \in Seq(Atom) /\ <<Crlf>> \in Seq(Atom)
  BY <1>1, AtomKinds
<1>3. <<Size(Len(c)), Crlf>> \o c \in Seq(Atom)
  BY <1>2, ConcatProperties
<1>4. Chunk(c) \in Seq(Atom)
  BY <1>2, <1>3, ConcatProperties DEF Chunk
<1> QED
  BY <1>2, <1>4

(* The chunks of a request, as they are sent.                              *)
Chunked(chunks) == [i \in DOMAIN chunks |-> Chunk(chunks[i])]

LEMMA ChunkedIsAtoms ==
  ASSUME NEW c \in Seq(Seq(Atom))
  PROVE  /\ Chunked(c) \in Seq(Seq(Atom)) /\ Len(Chunked(c)) = Len(c)
         /\ \A i \in 1 .. Len(c) : Chunked(c)[i] = Chunk(c[i])
         /\ FlattenSeq(Chunked(c)) \in Seq(Atom)
<1>1. Len(c) \in Nat /\ DOMAIN c = 1 .. Len(c)
  BY LenProperties
<1>2. ASSUME NEW i \in 1 .. Len(c) PROVE Chunk(c[i]) \in Seq(Atom)
  BY ElementOfSeq, ChunkIsAtoms
<1>3. Chunked(c) \in [1 .. Len(c) -> Seq(Atom)]
  BY <1>1, <1>2 DEF Chunked
<1>4. Chunked(c) \in Seq(Seq(Atom)) /\ Len(Chunked(c)) = Len(c)
  BY <1>1, <1>3
<1> QED
  BY <1>1, <1>4, FlattenType DEF Chunked

LEMMA HeaderIsAtoms ==
  ASSUME NEW r \in Request
  PROVE  Header(r) \in Seq(Atom) /\ Len(Header(r)) = 3
  BY AtomKinds DEF Header

(* How the body of a request is sent, by its framing.                      *)
Field(r) == IF r.trailer THEN <<Data("field"), Crlf>> ELSE << >>

LastChunk(r) == <<Size(0), Crlf>> \o Field(r) \o <<Crlf>>

LEMMA LastChunkIsAtoms ==
  ASSUME NEW r \in Request
  PROVE  /\ <<Size(0), Crlf>> \in Seq(Atom) /\ Field(r) \in Seq(Atom)
         /\ <<Crlf>> \in Seq(Atom) /\ LastChunk(r) \in Seq(Atom)
<1>1. /\ <<Size(0), Crlf>> \in Seq(Atom) /\ Field(r) \in Seq(Atom)
      /\ <<Crlf>> \in Seq(Atom)
  BY AtomKinds, StreamAssumption DEF Field
<1>2. <<Size(0), Crlf>> \o Field(r) \in Seq(Atom)
  BY <1>1, ConcatProperties
<1>3. LastChunk(r) \in Seq(Atom)
  BY <1>1, <1>2, ConcatProperties DEF LastChunk
<1> QED
  BY <1>1, <1>3

LEMMA BodyBytesByFraming ==
  ASSUME NEW r \in Request
  PROVE  /\ r.framing = "none" => BodyBytes(r) = << >>
         /\ r.framing = "fixed" => BodyBytes(r) = Body(r)
         /\ r.framing = "chunked" =>
              BodyBytes(r) = FlattenSeq(Chunked(r.chunks)) \o LastChunk(r)
<1>1. r.chunks \in Seq(Seq(Atom))
  BY StreamAssumption
<1>2. ASSUME r.framing = "chunked"
      PROVE  BodyBytes(r) = FlattenSeq(Chunked(r.chunks)) \o LastChunk(r)
  <2> DEFINE chunks == FlattenSeq(Chunked(r.chunks))
             end == <<Size(0), Crlf>>
             field == Field(r)
             close == <<Crlf>>
  <2>1. BodyBytes(r) = Cat(Cat(Cat(chunks, end), field), close)
    BY <1>2 DEF BodyBytes, Chunked, Field, Cat
  <2>2. LastChunk(r) = Cat(Cat(end, field), close)
    BY DEF LastChunk, Cat
  <2>3. /\ chunks \in Seq(Atom) /\ end \in Seq(Atom)
        /\ field \in Seq(Atom) /\ close \in Seq(Atom)
    BY <1>1, ChunkedIsAtoms, LastChunkIsAtoms
  <2> HIDE DEF chunks, end, field, close
  <2>4. Cat(end, field) \in Seq(Atom)
    BY <2>3, CatType
  <2>5. Cat(Cat(chunks, end), field) = Cat(chunks, Cat(end, field))
    BY <2>3, CatAssociative
  <2>6. Cat(Cat(chunks, Cat(end, field)), close) = Cat(chunks, Cat(Cat(end, field), close))
    BY <2>3, <2>4, CatAssociative
  <2>7. BodyBytes(r) = Cat(chunks, LastChunk(r))
    BY <2>1, <2>2, <2>5, <2>6
  <2> QED
    BY <2>7 DEF chunks, Cat
<1>3. r.framing = "none" => BodyBytes(r) = << >>
  BY DEF BodyBytes
<1>4. r.framing = "fixed" => BodyBytes(r) = Body(r)
  BY DEF BodyBytes
<1> QED
  BY <1>2, <1>3, <1>4

LEMMA BodyBytesIsAtoms ==
  ASSUME NEW r \in Request
  PROVE  BodyBytes(r) \in Seq(Atom)
<1>1. r.framing \in Framing /\ r.chunks \in Seq(Seq(Atom))
  BY StreamAssumption
<1>2. CASE r.framing = "none"
  BY <1>2, EmptySeq, BodyBytesByFraming
<1>3. CASE r.framing = "fixed"
  BY <1>3, BodyIsAtoms, BodyBytesByFraming
<1>4. CASE r.framing = "chunked"
  <2>1. FlattenSeq(Chunked(r.chunks)) \in Seq(Atom) /\ LastChunk(r) \in Seq(Atom)
    BY <1>1, ChunkedIsAtoms, LastChunkIsAtoms
  <2>2. FlattenSeq(Chunked(r.chunks)) \o LastChunk(r) \in Seq(Atom)
    BY <2>1, ConcatProperties
  <2> QED
    BY <1>4, <2>2, BodyBytesByFraming
<1> QED
  BY <1>1, <1>2, <1>3, <1>4 DEF Framing

-----------------------------------------------------------------------------
(* What the code looks for in a text, and finds.                           *)
LEMMA FirstIsLeast ==
  ASSUME NEW S, S \subseteq Nat, S # {}
  PROVE  First(S) \in S /\ \A j \in S : First(S) <= j
  BY LeastExists DEF First

LEMMA ParsedIsRequest ==
  ASSUME NEW text \in Seq(Atom)
  PROVE  Parsed(text) \in Request \union Garbles
<1> DEFINE words == {i \in DOMAIN text : text[i] # Crlf}
<1>1. DOMAIN text = 1 .. Len(text) /\ Len(text) \in Nat
  BY LenProperties
<1>2. words \subseteq Nat /\ words \subseteq 1 .. Len(text)
  BY <1>1
<1>3. CASE words # {} /\ IsLead(text[First(words)])
  <2>1. First(words) \in words
    <3> HIDE DEF words
    <3> QED
      BY <1>2, <1>3, FirstIsLeast
  <2>2. text[First(words)] \in Atom
    BY <1>2, <2>1, ElementOfSeq
  <2>3. text[First(words)].lead \in Request
    BY <1>3, <2>2, AtomFields
  <2> QED
    BY <1>3, <2>3 DEF Parsed
<1>4. CASE ~(words # {} /\ IsLead(text[First(words)]))
  <2> DEFINE close == \E i \in words : IsLead(text[i]) /\ text[i].lead.close
  <2>1. Parsed(text) = Garbled(close)
    BY <1>4 DEF Parsed
  <2>2. close \in BOOLEAN
    OBVIOUS
  <2> QED
    BY <2>1, <2>2 DEF Garbles
<1> QED
  BY <1>3, <1>4

(* A line, or a header, ends within the buffer.                            *)
LEMMA EndsInBuffer ==
  ASSUME buf \in Seq(Atom)
  PROVE  /\ LineEnds # {} => First(LineEnds) \in LineEnds
         /\ HeaderEnds # {} => First(HeaderEnds) \in HeaderEnds
         /\ LineEnds \subseteq 1 .. Len(buf) /\ Len(buf) \in Nat
         /\ HeaderEnds \subseteq 1 .. Len(buf) - 1
<1>1. /\ Len(buf) \in Nat
      /\ LineEnds \subseteq 1 .. Len(buf) /\ HeaderEnds \subseteq 1 .. Len(buf) - 1
  BY LenProperties DEF LineEnds, HeaderEnds
<1>2. LineEnds \subseteq Nat /\ HeaderEnds \subseteq Nat
  BY <1>1
<1> QED
  BY <1>1, <1>2, FirstIsLeast

(* The buffer, cut at a position.                                          *)
LEMMA BufferCut ==
  ASSUME buf \in Seq(Atom), NEW k \in Nat, k <= Len(buf)
  PROVE  /\ UpTo(k) \in Seq(Atom) /\ Len(UpTo(k)) = k
         /\ From(k + 1) \in Seq(Atom) /\ Len(From(k + 1)) = Len(buf) - k
         /\ UpTo(k) \o From(k + 1) = buf
<1>1. k \in 0 .. Len(buf)
  BY LenProperties
<1> QED
  BY <1>1, CutInTwo DEF UpTo, From
-----------------------------------------------------------------------------
(* Every action leaves every variable a value of its kind.                 *)
LEMMA InitTypes == Init => Types
<1> SUFFICES ASSUME Init PROVE Types
  OBVIOUS
<1>1. /\ << >> \in Seq(Atom) /\ << >> \in Seq(Request) /\ << >> \in Seq(Answered)
  BY EmptySeq
<1>2. 0 \in 0 .. SizeMod - 1
  BY StreamAssumption
<1>3. NoRequest \in Garbles
  BY DEF NoRequest, Garbles
<1> QED
  BY <1>1, <1>2, <1>3 DEF Init, Types, States

LEMMA StartBodyTypes ==
  ASSUME NEW r \in Request \union Garbles, StartBody(r),
         r \in Garbles => r.framing = "none"
  PROVE  pc' \in States /\ need' \in Nat
<1>1. r.framing \in Framing
  BY StreamAssumption DEF Framing
<1>2. r.framing = "fixed" => Len(Body(r)) \in Nat
  BY BodyIsAtoms
<1> QED
  BY <1>1, <1>2 DEF StartBody, Framing, States, ReadsLine

LEMMA GarbledIsPlain ==
  ASSUME NEW r \in Garbles
  PROVE  r.kind = "plain" /\ r.framing = "none" /\ r.chunks = << >>
  BY DEF Garbles, Garbled

LEMMA ReceiveTypes ==
  ASSUME Types, Receive
  PROVE  Types'
<1>1. PICK n \in 1 .. Len(wire) :
        /\ buf' = buf \o SubSeq(wire, 1, n)
        /\ wire' = SubSeq(wire, n + 1, Len(wire))
  BY DEF Receive
<1>2. n \in 0 .. Len(wire)
  BY LenProperties DEF Types
<1>3. SubSeq(wire, 1, n) \in Seq(Atom) /\ SubSeq(wire, n + 1, Len(wire)) \in Seq(Atom)
  BY <1>2, CutInTwo DEF Types
<1>4. buf' \in Seq(Atom) /\ wire' \in Seq(Atom)
  BY <1>1, <1>3, ConcatProperties DEF Types
<1> QED
  BY <1>4 DEF Types, Receive

LEMMA ReadRequestTypes ==
  ASSUME Types, ReadRequest
  PROVE  Types'
<1> DEFINE k == First(HeaderEnds)
           r == Parsed(UpTo(k - 1))
<1>1. k \in 1 .. Len(buf) - 1 /\ Len(buf) \in Nat
  BY EndsInBuffer DEF Types, ReadRequest
<1> HIDE DEF k
<1>2. k - 1 \in Nat /\ k - 1 <= Len(buf) /\ k + 1 \in Nat /\ k + 1 <= Len(buf)
      /\ (k + 1) + 1 = k + 2
  BY <1>1
<1>3. UpTo(k - 1) \in Seq(Atom) /\ From(k + 2) \in Seq(Atom)
  <2>1. UpTo(k - 1) \in Seq(Atom)
    BY <1>2, BufferCut DEF Types
  <2>2. From((k + 1) + 1) \in Seq(Atom)
    BY <1>2, BufferCut DEF Types
  <2> QED
    BY <1>2, <2>1, <2>2
<1>4. r \in Request \union Garbles
  BY <1>3, ParsedIsRequest
<1> HIDE DEF r
<1>5. /\ buf' = From(k + 2) /\ cur' = r
      /\ body' = << >> /\ piece' = << >> /\ total' = 0
      /\ \/ r.kind = "plain" /\ pc' = "handle" /\ need' = 0
         \/ r.kind = "put" /\ pc' = "put" /\ need' = 0
         \/ r.kind \in {"body", "lost"} /\ StartBody(r)
      /\ UNCHANGED <<handled, client>>
  BY DEF ReadRequest, k, r
<1>6. pc' \in States /\ need' \in Nat
  <2>1. CASE r.kind \in {"body", "lost"} /\ StartBody(r)
    BY <1>4, <2>1, StartBodyTypes, GarbledIsPlain
  <2> QED
    BY <1>5, <2>1 DEF States
<1>7. << >> \in Seq(Atom) /\ 0 \in 0 .. SizeMod - 1
  BY EmptySeq, StreamAssumption
<1> QED
  BY <1>3, <1>4, <1>5, <1>6, <1>7 DEF Types, client

LEMMA AcceptPutTypes ==
  ASSUME Types, AcceptPut
  PROVE  Types'
<1>1. StartBody(cur)
  BY DEF AcceptPut
<1>2. pc' \in States /\ need' \in Nat
  BY <1>1, StartBodyTypes, GarbledIsPlain DEF Types
<1>3. told' \in BOOLEAN
  BY DEF AcceptPut, Types
<1> QED
  BY <1>2, <1>3 DEF AcceptPut, Types
LEMMA TakeBufferedTypes ==
  ASSUME Types, TakeBuffered
  PROVE  Types'
<1> DEFINE n == Least(Len(buf), need)
<1>1. /\ piece' = UpTo(n) /\ buf' = From(n + 1) /\ need' = need - n
      /\ pc' = "fixed"
      /\ UNCHANGED <<cur, body, total, handled, client>>
  BY DEF TakeBuffered
<1>2. n \in Nat /\ n <= Len(buf) /\ need - n \in Nat
  BY LenProperties DEF Least, Types
<1> HIDE DEF n
<1>3. UpTo(n) \in Seq(Atom) /\ From(n + 1) \in Seq(Atom)
  BY <1>2, BufferCut DEF Types
<1> QED
  BY <1>1, <1>2, <1>3 DEF Types, States, client

LEMMA ReadPieceTypes ==
  ASSUME Types, ReadPiece
  PROVE  Types'
<1> DEFINE n == Least(IoChunk, need)
           got == buf \o SubSeq(wire, 1, n)
<1>1. /\ Len(wire) >= n
      /\ piece' = piece \o SubSeq(got, 1, n)
      /\ buf' = SubSeq(got, n + 1, Len(got))
      /\ wire' = SubSeq(wire, n + 1, Len(wire))
      /\ need' = need - n
      /\ UNCHANGED <<pc, cur, body, total, handled, held, told, gone, sent>>
  BY DEF ReadPiece
<1>2. n \in Nat /\ n \in 0 .. Len(wire) /\ need - n \in Nat
  BY <1>1, LenProperties, StreamAssumption DEF Least, Types
<1> HIDE DEF n
<1>3. /\ SubSeq(wire, 1, n) \in Seq(Atom) /\ Len(SubSeq(wire, 1, n)) = n
      /\ SubSeq(wire, n + 1, Len(wire)) \in Seq(Atom)
  BY <1>2, CutInTwo DEF Types
<1>4. got \in Seq(Atom) /\ Len(got) = Len(buf) + n /\ Len(buf) \in Nat
  BY <1>3, ConcatProperties, LenProperties DEF Types
<1> HIDE DEF got
<1>5. n \in 0 .. Len(got)
  BY <1>2, <1>4
<1>6. SubSeq(got, 1, n) \in Seq(Atom) /\ SubSeq(got, n + 1, Len(got)) \in Seq(Atom)
  BY <1>4, <1>5, CutInTwo
<1>7. piece \o SubSeq(got, 1, n) \in Seq(Atom)
  BY <1>6, ConcatProperties DEF Types
<1> QED
  BY <1>1, <1>2, <1>3, <1>6, <1>7 DEF Types

LEMMA ReadLineTypes ==
  ASSUME Types, NEW state, ReadLine(state)
  PROVE  buf' \in Seq(Atom) /\ Line \in Seq(Atom) /\ Len(Line) \in Nat
<1> DEFINE k == First(LineEnds)
<1>1. k \in 1 .. Len(buf) /\ Len(buf) \in Nat
  BY EndsInBuffer DEF Types, ReadLine
<1> HIDE DEF k
<1>2. k - 1 \in Nat /\ k - 1 <= Len(buf) /\ k \in Nat /\ k <= Len(buf)
  BY <1>1
<1>3. From(k + 1) \in Seq(Atom) /\ UpTo(k - 1) \in Seq(Atom)
  BY <1>2, BufferCut DEF Types
<1> QED
  BY <1>3, LenProperties DEF ReadLine, Line, k

LEMMA LineNamesSize ==
  ASSUME Line \in Seq(Atom), Len(Line) = 1, IsSize(Line[1])
  PROVE  Line[1].size \in Nat
<1>1. Line[1] \in Atom
  BY ElementOfSeq
<1> QED
  BY <1>1, AtomFields

LEMMA ReadSizeTypes ==
  ASSUME Types, ReadSize
  PROVE  Types'
<1>1. /\ ReadLine("size") /\ UNCHANGED <<body, piece, total>>
      /\ UNCHANGED <<cur, handled, client>>
  BY DEF ReadSize, ReadLine
<1>2. buf' \in Seq(Atom) /\ Line \in Seq(Atom)
  BY <1>1, ReadLineTypes
<1>3. pc' \in {"closing", "trailer", "buffered"} /\ need' \in Nat
  BY <1>2, LineNamesSize DEF ReadSize, Types
<1> QED
  BY <1>1, <1>2, <1>3 DEF Types, States, ReadsLine, client

LEMMA ReadChunkEndTypes ==
  ASSUME Types, ReadChunkEnd
  PROVE  Types'
<1>1. ReadLine("crlf") /\ need' = need /\ UNCHANGED <<cur, handled, client>>
  BY DEF ReadChunkEnd, ReadLine
<1>2. buf' \in Seq(Atom)
  BY <1>1, ReadLineTypes
<1>3. body \o piece \in Seq(Atom) /\ << >> \in Seq(Atom) /\ Len(piece) \in Nat
  BY ConcatProperties, EmptySeq, LenProperties DEF Types
<1>4. (total + Len(piece)) % SizeMod \in 0 .. SizeMod - 1
  BY <1>3, StreamAssumption DEF Types
<1>5. /\ pc' \in {"closing", "size"}
      /\ body' \in Seq(Atom) /\ piece' \in Seq(Atom) /\ total' \in 0 .. SizeMod - 1
  BY <1>3, <1>4 DEF ReadChunkEnd, Types
<1> QED
  BY <1>1, <1>2, <1>5 DEF Types, States, ReadsLine, client

LEMMA SendTypes ==
  ASSUME Types, NEW r \in Request, Send(r)
  PROVE  Types'
<1>1. Header(r) \in Seq(Atom) /\ BodyBytes(r) \in Seq(Atom) /\ << >> \in Seq(Atom)
  BY HeaderIsAtoms, BodyBytesIsAtoms, EmptySeq
<1> DEFINE now == IF r.expect THEN << >> ELSE BodyBytes(r)
<1>2. now \in Seq(Atom) /\ wire' = (wire \o Header(r)) \o now
  BY <1>1 DEF Send
<1> HIDE DEF now
<1>3. wire \o Header(r) \in Seq(Atom)
  BY <1>1, ConcatProperties DEF Types
<1>4. wire' \in Seq(Atom)
  BY <1>2, <1>3, ConcatProperties
<1>5. held' \in Seq(Atom) /\ told' = FALSE /\ UNCHANGED <<gone, session>>
  BY <1>1 DEF Send
<1>6. sent' \in Seq(Request)
  BY AppendProperties DEF Send, Types
<1> QED
  BY <1>4, <1>5, <1>6 DEF Types, session

LEMMA SendBodyTypes ==
  ASSUME Types, SendBody
  PROVE  Types'
<1>1. wire \o held \in Seq(Atom) /\ << >> \in Seq(Atom)
  BY ConcatProperties, EmptySeq DEF Types
<1> QED
  BY <1>1 DEF SendBody, Types, session

LEMMA HangupTypes ==
  ASSUME Types, Hangup
  PROVE  Types'
<1>1. PICK k \in 0 .. Len(wire) : wire' = SubSeq(wire, 1, k)
  BY DEF Hangup
<1>2. wire' \in Seq(Atom) /\ << >> \in Seq(Atom)
  BY <1>1, CutInTwo, EmptySeq DEF Types
<1> QED
  BY <1>2 DEF Hangup, Types, session

(* The steps that only move on, or forget.                                 *)
LEMMA OtherTypes ==
  ASSUME Types,
         \/ ReadFails \/ RefusePut \/ EndFixed \/ ReadTrailer
         \/ Handle \/ HandlerThrows \/ Stop \/ Open
  PROVE  Types'
<1>1. /\ << >> \in Seq(Atom) /\ << >> \in Seq(Request) /\ << >> \in Seq(Answered)
      /\ 0 \in 0 .. SizeMod - 1
  BY EmptySeq, StreamAssumption
<1>2. CASE ReadFails \/ RefusePut \/ HandlerThrows
  BY <1>2 DEF ReadFails, RefusePut, HandlerThrows, Types, States, client
<1>3. CASE EndFixed
  BY <1>1, <1>3 DEF EndFixed, Types, States, ReadsLine, client
<1>4. CASE ReadTrailer
  <2>1. ReadLine("trailer") /\ pc' \in {"handle", "trailer"}
        /\ UNCHANGED <<body, piece, need, total>> /\ UNCHANGED <<cur, handled, client>>
    BY <1>4 DEF ReadTrailer, ReadLine
  <2>2. buf' \in Seq(Atom)
    BY <2>1, ReadLineTypes
  <2> QED
    BY <2>1, <2>2 DEF Types, States, ReadsLine, client
<1>5. CASE Handle
  <2>1. [req |-> cur, body |-> body] \in Answered
    BY DEF Types, Answered
  <2>2. handled' \in Seq(Answered)
    BY <1>5, <2>1, AppendProperties DEF Handle, Types
  <2> QED
    BY <1>5, <2>2 DEF Handle, Types, States, client
<1>6. CASE Stop
  <2>1. NoRequest \in Garbles
    BY DEF NoRequest, Garbles
  <2> QED
    BY <1>1, <1>6, <2>1 DEF Stop, Types, States
<1>7. CASE Open
  BY <1>1, <1>7 DEF Open, Types, States
<1> QED
  BY <1>2, <1>3, <1>4, <1>5, <1>6, <1>7

LEMMA NextTypes == Types /\ [Next]_vars => Types'
<1> SUFFICES ASSUME Types, [Next]_vars PROVE Types'
  OBVIOUS
<1>1. CASE Receive
  BY <1>1, ReceiveTypes
<1>2. CASE ReadRequest \/ AcceptPut
  BY <1>2, ReadRequestTypes, AcceptPutTypes
<1>3. CASE TakeBuffered \/ ReadPiece
  BY <1>3, TakeBufferedTypes, ReadPieceTypes
<1>4. CASE ReadSize \/ ReadChunkEnd
  BY <1>4, ReadSizeTypes, ReadChunkEndTypes
<1>5. CASE \/ ReadFails \/ RefusePut \/ EndFixed \/ ReadTrailer
           \/ Handle \/ HandlerThrows \/ Stop \/ Open
  BY <1>5, OtherTypes
<1>6. CASE Sending
  BY <1>6, SendTypes, SendBodyTypes, HangupTypes
     DEF Sending, SendBodyTold, SendBodyUntold
<1>7. CASE UNCHANGED vars
  BY <1>7 DEF vars, Types
<1> QED
  BY <1>1, <1>2, <1>3, <1>4, <1>5, <1>6, <1>7 DEF Next, Serving

(* Whatever is sent and however it arrives, the buffer, the body and the   *)
(* count of its length are always what the code takes them for.            *)
THEOREM StreamTypeCorrect == Spec => []TypeOK
<1>1. Spec => []Types
  BY InitTypes, NextTypes, PTL DEF Spec
<1> QED
  BY <1>1, TypesAreTypeOK, PTL
-----------------------------------------------------------------------------
(* Why the count of a chunked body does not wrap around: a chunk is only   *)
(* read when it fits into what is left of the machine word, and from then  *)
(* on what has been collected of it and what is still to come are together *)
(* no more than that.                                                      *)
ReadingChunk == pc \in {"buffered", "fixed"} /\ cur.framing = "chunked"

ChunkFits ==
  /\ pc \in ReadsLine => cur.framing = "chunked"
  /\ pc = "put" => total = 0 /\ body = << >>
  /\ pc \in ReadsLine \/ ReadingChunk => total = Len(body)
  /\ ReadingChunk /\ pc = "buffered" => need + total <= SizeMod - 1
  /\ ReadingChunk /\ pc = "fixed" => need + Len(piece) + total <= SizeMod - 1
  /\ pc = "crlf" => Len(piece) + total <= SizeMod - 1

LEMMA StartBodyFits ==
  ASSUME NEW r, StartBody(r), cur' = r, total' = 0, body' = << >>,
         r.framing \in Framing
  PROVE  ChunkFits'
<1>1. Len(<< >>) = 0
  OBVIOUS
<1>2. \/ pc' = "size" /\ r.framing = "chunked"
      \/ pc' = "buffered" /\ r.framing = "fixed"
      \/ pc' = "handle"
  BY DEF StartBody, Framing
<1> QED
  BY <1>1, <1>2 DEF ChunkFits, ReadingChunk, ReadsLine

LEMMA ChunkFitsStep == Types /\ ChunkFits /\ [Next]_vars => ChunkFits'
<1> SUFFICES ASSUME Types, ChunkFits, [Next]_vars PROVE ChunkFits'
  OBVIOUS
<1>1. CASE ReadRequest
  <2> DEFINE r == Parsed(UpTo(First(HeaderEnds) - 1))
  <2>1. cur' = r /\ total' = 0 /\ body' = << >>
        /\ \/ pc' \in {"handle", "put"}
           \/ StartBody(r)
    BY <1>1 DEF ReadRequest
  <2>2. r.framing \in Framing
    <3>1. cur' \in Request \union Garbles
      BY <1>1, ReadRequestTypes DEF Types
    <3> QED
      BY <2>1, <3>1, StreamAssumption, GarbledIsPlain DEF Framing
  <2> HIDE DEF r
  <2>3. CASE StartBody(r)
    BY <2>1, <2>2, <2>3, StartBodyFits
  <2>4. CASE pc' \in {"handle", "put"}
    BY <2>1, <2>4 DEF ChunkFits, ReadingChunk, ReadsLine
  <2> QED
    BY <2>1, <2>3, <2>4
<1>2. CASE AcceptPut
  <2>1. cur.framing \in Framing
    BY StreamAssumption, GarbledIsPlain DEF Types, Framing
  <2>2. cur' = cur /\ total' = 0 /\ body' = << >> /\ StartBody(cur)
    BY <1>2 DEF AcceptPut, ChunkFits
  <2> QED
    BY <2>1, <2>2, StartBodyFits
<1>3. CASE TakeBuffered
  <2> DEFINE n == Least(Len(buf), need)
  <2>1. /\ pc = "buffered" /\ pc' = "fixed"
        /\ piece' = UpTo(n) /\ need' = need - n /\ UNCHANGED <<cur, body, total>>
    BY <1>3 DEF TakeBuffered
  <2>2. n \in Nat /\ n <= Len(buf) /\ need \in Nat
    BY LenProperties DEF Least, Types
  <2> HIDE DEF n
  <2>3. Len(piece') = n
    BY <2>1, <2>2, BufferCut DEF Types
  <2>4. need' + Len(piece') = need
    BY <2>1, <2>2, <2>3
  <2> QED
    BY <2>1, <2>4 DEF ChunkFits, ReadingChunk, ReadsLine
<1>4. CASE ReadPiece
  <2> DEFINE n == Least(IoChunk, need)
             got == buf \o SubSeq(wire, 1, n)
  <2>1. /\ pc = "fixed" /\ pc' = "fixed" /\ Len(wire) >= n
        /\ piece' = piece \o SubSeq(got, 1, n)
        /\ need' = need - n /\ UNCHANGED <<cur, body, total>>
    BY <1>4 DEF ReadPiece
  <2>2. n \in Nat /\ n \in 0 .. Len(wire) /\ need \in Nat
    BY <2>1, LenProperties, StreamAssumption DEF Least, Types
  <2> HIDE DEF n
  <2>3. SubSeq(wire, 1, n) \in Seq(Atom) /\ Len(SubSeq(wire, 1, n)) = n
    BY <2>2, CutInTwo DEF Types
  <2>4. got \in Seq(Atom) /\ n \in 0 .. Len(got)
    BY <2>2, <2>3, ConcatProperties, LenProperties DEF Types
  <2> HIDE DEF got
  <2>5. SubSeq(got, 1, n) \in Seq(Atom) /\ Len(SubSeq(got, 1, n)) = n
    BY <2>4, CutInTwo
  <2>6. Len(piece') = Len(piece) + n /\ Len(piece) \in Nat
    BY <2>1, <2>5, ConcatProperties, LenProperties DEF Types
  <2>7. need' + Len(piece') = need + Len(piece)
    BY <2>1, <2>2, <2>6
  <2> QED
    BY <2>1, <2>7 DEF ChunkFits, ReadingChunk, ReadsLine
<1>5. CASE EndFixed
  <2>1. /\ pc = "fixed" /\ need = 0 /\ UNCHANGED <<cur, total>>
        /\ \/ /\ cur.framing = "chunked" /\ pc' = "crlf"
              /\ body' = body /\ piece' = piece
           \/ pc' = "handle"
    BY <1>5 DEF EndFixed
  <2>2. Len(piece) \in Nat /\ total \in Nat
    BY LenProperties DEF Types
  <2>3. need + Len(piece) + total = Len(piece) + total
    BY <2>1, <2>2
  <2> QED
    BY <2>1, <2>3 DEF ChunkFits, ReadingChunk, ReadsLine
<1>6. CASE ReadSize
  <2>1. /\ pc = "size" /\ UNCHANGED <<cur, body, piece, total>>
        /\ \/ pc' \in {"closing", "trailer"}
           \/ pc' = "buffered" /\ need' = Line[1].size /\ ~TooLarge(need')
              /\ Len(Line) = 1 /\ IsSize(Line[1])
    BY <1>6 DEF ReadSize, ReadLine
  <2>2. need' \in Nat /\ total \in Nat /\ SizeMod \in Nat
    BY <1>6, ReadSizeTypes, StreamAssumption DEF Types
  <2>3. pc' = "buffered" => need' + total <= SizeMod - 1
    <3>1. \A n, t, m \in Nat : ~(n > m - 1 - t) => n + t <= m - 1
      OBVIOUS
    <3> QED
      BY <2>1, <2>2, <3>1 DEF TooLarge
  <2> QED
    BY <2>1, <2>3 DEF ChunkFits, ReadingChunk, ReadsLine
<1>7. CASE ReadChunkEnd
  <2>1. /\ pc = "crlf" /\ cur' = cur
        /\ \/ pc' = "closing"
           \/ pc' = "size" /\ body' = body \o piece
              /\ total' = (total + Len(piece)) % SizeMod
    BY <1>7 DEF ReadChunkEnd, ReadLine
  <2>2. /\ Len(body) \in Nat /\ Len(piece) \in Nat
        /\ Len(body \o piece) = Len(body) + Len(piece)
    BY LenProperties, ConcatProperties DEF Types
  <2>3. total = Len(body) /\ Len(piece) + total <= SizeMod - 1
    BY <2>1 DEF ChunkFits, ReadsLine
  <2>4. (total + Len(piece)) % SizeMod = total + Len(piece)
    BY <2>2, <2>3, StreamAssumption
  <2> QED
    BY <2>1, <2>2, <2>3, <2>4 DEF ChunkFits, ReadingChunk, ReadsLine
<1>8. CASE ReadTrailer
  BY <1>8 DEF ReadTrailer, ReadLine, ChunkFits, ReadingChunk, ReadsLine
<1>9. CASE ReadFails \/ RefusePut \/ Handle \/ HandlerThrows \/ Stop \/ Open
  <2>1. pc' \in {"closing", "closed", "head"}
    BY <1>9 DEF ReadFails, RefusePut, Handle, HandlerThrows, Stop, Open
  <2> QED
    BY <2>1 DEF ChunkFits, ReadingChunk, ReadsLine
<1>10. CASE Receive \/ Sending \/ UNCHANGED vars
  <2>1. UNCHANGED <<pc, cur, body, piece, need, total>>
    BY <1>10 DEF Receive, Sending, Send, SendBodyTold, SendBodyUntold, SendBody,
                 Hangup, session, vars
  <2> QED
    BY <2>1 DEF ChunkFits, ReadingChunk
<1> QED
  BY <1>1, <1>2, <1>3, <1>4, <1>5, <1>6, <1>7, <1>8, <1>9, <1>10 DEF Next, Serving

(* For every width of a machine word and every sequence of chunk sizes,    *)
(* the count that is kept of a chunked body is its length: no sum of sizes *)
(* that wraps around gets past the check.                                  *)
THEOREM CountsExactly == Spec => []CountExact
<1>1. Init => ChunkFits
  BY DEF Init, ChunkFits, ReadingChunk, ReadsLine
<1>2. ChunkFits => CountExact
  BY DEF ChunkFits, CountExact, ReadsLine
<1> QED
  BY <1>1, <1>2, InitTypes, NextTypes, ChunkFitsStep, PTL DEF Spec
-----------------------------------------------------------------------------
(* What a request is on the wire, and what is left of it when some of its  *)
(* chunks have been read.                                                  *)
Bytes(r) == Cat(Header(r), BodyBytes(r))

Stream(s) == [i \in DOMAIN s |-> Bytes(s[i])]

After(n) == Remaining(Stream(sent), n)

LeftOf(r, k) == Cat(Remaining(Chunked(r.chunks), k), LastChunk(r))

Taken(r, k) == FlattenSeq(SubSeq(r.chunks, 1, k))

LEMMA BytesIsAtoms ==
  ASSUME NEW r \in Request
  PROVE  Bytes(r) \in Seq(Atom)
  BY HeaderIsAtoms, BodyBytesIsAtoms, CatType DEF Bytes

LEMMA StreamIsAtoms ==
  ASSUME NEW s \in Seq(Request)
  PROVE  /\ Stream(s) \in Seq(Seq(Atom)) /\ Len(Stream(s)) = Len(s)
         /\ \A i \in 1 .. Len(s) : Stream(s)[i] = Bytes(s[i])
<1>1. Len(s) \in Nat /\ DOMAIN s = 1 .. Len(s)
  BY LenProperties
<1>2. ASSUME NEW i \in 1 .. Len(s) PROVE Bytes(s[i]) \in Seq(Atom)
  BY ElementOfSeq, BytesIsAtoms
<1>3. Stream(s) \in [1 .. Len(s) -> Seq(Atom)]
  BY <1>1, <1>2 DEF Stream
<1>4. Stream(s) \in Seq(Seq(Atom)) /\ Len(Stream(s)) = Len(s)
  BY <1>1, <1>3
<1> QED
  BY <1>1, <1>4 DEF Stream

LEMMA StreamStep ==
  ASSUME NEW s \in Seq(Request), NEW n \in 0 .. Len(s)
  PROVE  /\ Remaining(Stream(s), n) \in Seq(Atom)
         /\ n = Len(s) => Remaining(Stream(s), n) = << >>
         /\ n < Len(s) =>
              /\ s[n + 1] \in Request
              /\ Remaining(Stream(s), n + 1) \in Seq(Atom)
              /\ Remaining(Stream(s), n)
                   = Cat(Bytes(s[n + 1]), Remaining(Stream(s), n + 1))
<1>1. /\ Stream(s) \in Seq(Seq(Atom)) /\ Len(Stream(s)) = Len(s)
      /\ \A i \in 1 .. Len(s) : Stream(s)[i] = Bytes(s[i])
  BY StreamIsAtoms
<1>2. Len(s) \in Nat
  BY LenProperties
<1> DEFINE m == Stream(s)
<1> HIDE DEF m
<1>3. m \in Seq(Seq(Atom)) /\ n \in 0 .. Len(m) /\ Len(m) = Len(s)
  BY <1>1 DEF m
<1>4. /\ Remaining(m, n) \in Seq(Atom)
      /\ n = Len(m) => Remaining(m, n) = << >>
      /\ n < Len(m) =>
           /\ m[n + 1] \in Seq(Atom)
           /\ Remaining(m, n + 1) \in Seq(Atom)
           /\ Remaining(m, n) = m[n + 1] \o Remaining(m, n + 1)
  BY <1>3, RemainingStep
<1>5. n < Len(s) => n + 1 \in 1 .. Len(s)
  BY <1>2
<1>6. n < Len(s) => s[n + 1] \in Request /\ m[n + 1] = Bytes(s[n + 1])
  BY <1>1, <1>5, ElementOfSeq DEF m
<1> QED
  BY <1>3, <1>4, <1>6 DEF m, Cat

LEMMA StreamAppend ==
  ASSUME NEW s \in Seq(Request), NEW r \in Request, NEW n \in 0 .. Len(s)
  PROVE  Remaining(Stream(Append(s, r)), n) = Cat(Remaining(Stream(s), n), Bytes(r))
<1>1. /\ Stream(s) \in Seq(Seq(Atom)) /\ Len(Stream(s)) = Len(s)
      /\ \A i \in 1 .. Len(s) : Stream(s)[i] = Bytes(s[i])
  BY StreamIsAtoms
<1>2. /\ Append(s, r) \in Seq(Request) /\ Len(Append(s, r)) = Len(s) + 1
      /\ \A i \in 1 .. Len(s) : Append(s, r)[i] = s[i]
      /\ Append(s, r)[Len(s) + 1] = r
      /\ Len(s) \in Nat
  BY AppendProperties, LenProperties
<1> DEFINE t == Append(s, r)
<1> HIDE DEF t
<1>3. /\ Stream(t) \in Seq(Seq(Atom)) /\ Len(Stream(t)) = Len(t)
      /\ \A i \in 1 .. Len(t) : Stream(t)[i] = Bytes(t[i])
  BY <1>2, StreamIsAtoms DEF t
<1>4. Bytes(r) \in Seq(Atom)
  BY BytesIsAtoms
<1> DEFINE m == Stream(s)
<1> HIDE DEF m
<1>5. /\ Append(m, Bytes(r)) \in Seq(Seq(Atom)) /\ Len(Append(m, Bytes(r))) = Len(m) + 1
      /\ \A i \in 1 .. Len(m) : Append(m, Bytes(r))[i] = m[i]
      /\ Append(m, Bytes(r))[Len(m) + 1] = Bytes(r)
  BY <1>1, <1>4, AppendProperties DEF m
<1>6. ASSUME NEW i \in 1 .. Len(Stream(t)) PROVE Stream(t)[i] = Append(m, Bytes(r))[i]
  <2>1. i \in 1 .. Len(t) /\ Stream(t)[i] = Bytes(t[i])
    BY <1>3
  <2>2. CASE i <= Len(s)
    <3>1. i \in 1 .. Len(s) /\ i \in 1 .. Len(m)
      BY <1>1, <1>2, <2>1, <2>2 DEF t, m
    <3> QED
      BY <1>1, <1>2, <1>5, <2>1, <3>1 DEF t, m
  <2>3. CASE ~(i <= Len(s))
    <3>1. i = Len(s) + 1 /\ Len(m) = Len(s)
      BY <1>1, <1>2, <2>1, <2>3 DEF t, m
    <3> QED
      BY <1>2, <1>5, <2>1, <3>1 DEF t
  <2> QED
    BY <2>2, <2>3
<1>7. Stream(t) = Append(m, Bytes(r))
  <2>1. Len(Stream(t)) = Len(Append(m, Bytes(r)))
    BY <1>1, <1>2, <1>3, <1>5 DEF t, m
  <2> QED
    BY <1>3, <1>5, <1>6, <2>1, SeqEqual
<1>8. Remaining(Append(m, Bytes(r)), n) = Remaining(m, n) \o Bytes(r)
  <2>1. m \in Seq(Seq(Atom)) /\ n \in 0 .. Len(m)
    BY <1>1 DEF m
  <2> QED
    BY <1>4, <2>1, RemainingAppend
<1> QED
  BY <1>7, <1>8 DEF t, m, Cat

LEMMA HeaderBytes ==
  ASSUME NEW r \in Request
  PROVE  Lead(r) # Crlf /\ Header(r) = <<Lead(r), Crlf, Crlf>>
  BY DEF Lead, Crlf, Header

LEMMA DataBytes ==
  /\ \A n \in Nat : Size(n) # Crlf
  /\ \A d \in Datum : Data(d) # Crlf
  BY DEF Size, Crlf, Data

(* A chunk: the line with its size, its data, an empty line.               *)
SizeLine(n) == <<Size(n)>>

EndOfLine == <<Crlf>>

LineOf(l) == Cat(l, EndOfLine)

LEMMA TwoInARow ==
  ASSUME NEW a, NEW b
  PROVE  Cat(<<a>>, <<b>>) = <<a, b>>
<1> DEFINE S == {a, b}
           s == <<a>>
           t == <<b>>
           u == <<a, b>>
<1>1. /\ s \in Seq(S) /\ Len(s) = 1 /\ s[1] = a
      /\ t \in Seq(S) /\ Len(t) = 1 /\ t[1] = b
      /\ u \in Seq(S) /\ Len(u) = 2 /\ u[1] = a /\ u[2] = b
  OBVIOUS
<1> HIDE DEF S, s, t, u
<1>2. /\ s \o t \in Seq(S) /\ Len(s \o t) = Len(s) + Len(t)
      /\ \A i \in 1 .. Len(s) + Len(t) :
           (s \o t)[i] = IF i <= Len(s) THEN s[i] ELSE t[i - Len(s)]
  BY <1>1, ConcatProperties
<1>3. Len(s \o t) = 2 /\ (s \o t)[1] = a /\ (s \o t)[2] = b
  BY <1>1, <1>2
<1>4. s \o t = u
  BY <1>1, <1>2, <1>3, SeqEqual
<1> QED
  BY <1>4 DEF Cat, s, t, u

LEMMA LineIsAtoms ==
  /\ EndOfLine \in Seq(Atom) /\ Len(EndOfLine) = 1 /\ EndOfLine[1] = Crlf
  /\ \A n \in Nat : SizeLine(n) \in Seq(Atom) /\ LineOf(SizeLine(n)) = <<Size(n), Crlf>>
  /\ \A l \in Seq(Atom) : LineOf(l) \in Seq(Atom) /\ Len(LineOf(l)) = Len(l) + 1
  /\ LineOf(<< >>) = <<Crlf>>
<1>1. EndOfLine \in Seq(Atom) /\ Len(EndOfLine) = 1 /\ EndOfLine[1] = Crlf
  BY AtomKinds DEF EndOfLine
<1>2. ASSUME NEW n \in Nat
      PROVE  SizeLine(n) \in Seq(Atom) /\ LineOf(SizeLine(n)) = <<Size(n), Crlf>>
  <2>1. Size(n) \in Atom /\ Crlf \in Atom
    BY AtomKinds
  <2> QED
    BY <2>1, TwoInARow DEF SizeLine, LineOf, EndOfLine
<1>3. ASSUME NEW l \in Seq(Atom)
      PROVE  LineOf(l) \in Seq(Atom) /\ Len(LineOf(l)) = Len(l) + 1
  <2>1. /\ Cat(l, EndOfLine) \in Seq(Atom)
        /\ Len(Cat(l, EndOfLine)) = Len(l) + Len(EndOfLine)
    BY <1>1, CatType
  <2> QED
    BY <1>1, <2>1 DEF LineOf
<1>4. LineOf(<< >>) = <<Crlf>>
  BY <1>1, CatEmpty DEF LineOf, EndOfLine
<1> QED
  BY <1>1, <1>2, <1>3, <1>4

LEMMA ChunkIsLines ==
  ASSUME NEW c \in Seq(Atom)
  PROVE  /\ Len(c) \in Nat
         /\ Chunk(c) = Cat(LineOf(SizeLine(Len(c))), Cat(c, EndOfLine))
<1>1. Len(c) \in Nat
  BY LenProperties
<1>2. LineOf(SizeLine(Len(c))) = <<Size(Len(c)), Crlf>>
  BY <1>1, LineIsAtoms
<1>3. LineOf(SizeLine(Len(c))) \in Seq(Atom) /\ EndOfLine \in Seq(Atom)
  BY <1>1, LineIsAtoms
<1>4. Chunk(c) = Cat(Cat(LineOf(SizeLine(Len(c))), c), EndOfLine)
  BY <1>2 DEF Chunk, Cat, EndOfLine
<1>5. Cat(Cat(LineOf(SizeLine(Len(c))), c), EndOfLine)
        = Cat(LineOf(SizeLine(Len(c))), Cat(c, EndOfLine))
  BY <1>3, CatAssociative
<1> QED
  BY <1>1, <1>4, <1>5

(* What is left after some chunks begins with the next one, or ends the    *)
(* body.                                                                   *)
LEMMA LeftStep ==
  ASSUME NEW r \in Request, r.framing = "chunked", NEW k \in 0 .. Len(r.chunks)
  PROVE  /\ LeftOf(r, k) \in Seq(Atom) /\ Taken(r, k) \in Seq(Atom)
         /\ k = 0 => Taken(r, k) = << >> /\ LeftOf(r, k) = BodyBytes(r)
         /\ k = Len(r.chunks) => Taken(r, k) = Body(r) /\ LeftOf(r, k) = LastChunk(r)
         /\ k < Len(r.chunks) =>
              /\ r.chunks[k + 1] \in Seq(Atom) /\ r.chunks[k + 1] # << >>
              /\ k + 1 \in 0 .. Len(r.chunks)
              /\ LeftOf(r, k + 1) \in Seq(Atom)
              /\ Taken(r, k + 1) = Cat(Taken(r, k), r.chunks[k + 1])
              /\ LeftOf(r, k)
                   = Cat(LineOf(SizeLine(Len(r.chunks[k + 1]))),
                         Cat(r.chunks[k + 1], Cat(EndOfLine, LeftOf(r, k + 1))))
<1>1. /\ r.chunks \in Seq(Seq(Atom)) /\ Len(r.chunks) \in Nat
      /\ \A i \in 1 .. Len(r.chunks) : r.chunks[i] # << >> /\ r.chunks[i] \in Seq(Atom)
  BY StreamAssumption, LenProperties, ElementOfSeq
<1>2. LastChunk(r) \in Seq(Atom)
  BY LastChunkIsAtoms
<1> DEFINE c == r.chunks
           m == Chunked(c)
<1> HIDE DEF c
<1>3. /\ m \in Seq(Seq(Atom)) /\ Len(m) = Len(c)
      /\ \A i \in 1 .. Len(c) : m[i] = Chunk(c[i])
      /\ FlattenSeq(m) \in Seq(Atom)
  BY <1>1, ChunkedIsAtoms DEF c
<1> HIDE DEF m
<1>4. k \in 0 .. Len(m) /\ k \in 0 .. Len(c) /\ k \in Nat /\ Len(c) \in Nat
      /\ c \in Seq(Seq(Atom))
  BY <1>1, <1>3 DEF c
<1>5. /\ Remaining(m, k) \in Seq(Atom)
      /\ k = Len(m) => Remaining(m, k) = << >>
      /\ k < Len(m) =>
           /\ m[k + 1] \in Seq(Atom)
           /\ Remaining(m, k + 1) \in Seq(Atom)
           /\ Remaining(m, k) = m[k + 1] \o Remaining(m, k + 1)
  BY <1>3, <1>4, RemainingStep
<1>6. /\ Taken(r, k) \in Seq(Atom)
      /\ k = 0 => Taken(r, k) = << >>
      /\ k = Len(c) => Taken(r, k) = Body(r)
      /\ k < Len(c) => Taken(r, k + 1) = Cat(Taken(r, k), c[k + 1])
  BY <1>4, TakenStep DEF Taken, Body, Cat, c
<1>7. LeftOf(r, k) \in Seq(Atom)
  BY <1>2, <1>5, CatType DEF LeftOf, m, c
<1>8. ASSUME k = 0 PROVE LeftOf(r, k) = BodyBytes(r)
  <2>1. Remaining(m, 0) = FlattenSeq(m)
    <3>1. SubSeq(m, 0 + 1, Len(m)) = m
      BY <1>3, SubSeqFull
    <3> QED
      BY <3>1 DEF Remaining
  <2>2. BodyBytes(r) = Cat(FlattenSeq(m), LastChunk(r))
    BY BodyBytesByFraming DEF m, c, Cat
  <2> QED
    BY <1>8, <2>1, <2>2 DEF LeftOf, m, c
<1>9. ASSUME k = Len(c) PROVE LeftOf(r, k) = LastChunk(r)
  <2>1. Remaining(m, k) = << >>
    BY <1>3, <1>5, <1>9
  <2>2. LeftOf(r, k) = Cat(<< >>, LastChunk(r))
    BY <2>1 DEF LeftOf, m, c
  <2> QED
    BY <1>2, <2>2, CatEmpty
<1>10. ASSUME k < Len(c)
       PROVE  /\ c[k + 1] \in Seq(Atom) /\ c[k + 1] # << >>
              /\ k + 1 \in 0 .. Len(c)
              /\ LeftOf(r, k + 1) \in Seq(Atom)
              /\ LeftOf(r, k)
                   = Cat(LineOf(SizeLine(Len(c[k + 1]))),
                         Cat(c[k + 1], Cat(EndOfLine, LeftOf(r, k + 1))))
  <2>1. k + 1 \in 1 .. Len(c) /\ k + 1 \in 0 .. Len(c) /\ k < Len(m)
    BY <1>3, <1>4, <1>10
  <2>2. c[k + 1] \in Seq(Atom) /\ c[k + 1] # << >> /\ m[k + 1] = Chunk(c[k + 1])
    BY <1>1, <1>3, <2>1 DEF c
  <2> DEFINE d == c[k + 1]
             line == LineOf(SizeLine(Len(d)))
             rest == Remaining(m, k + 1)
             end == LastChunk(r)
  <2> HIDE DEF d
  <2>3. d \in Seq(Atom)
    BY <2>2 DEF d
  <2>4. Len(d) \in Nat /\ Chunk(d) = Cat(line, Cat(d, EndOfLine))
    BY <2>3, ChunkIsLines
  <2>5. line \in Seq(Atom) /\ EndOfLine \in Seq(Atom)
    BY <2>4, LineIsAtoms
  <2>6. rest \in Seq(Atom) /\ Remaining(m, k) = Cat(Chunk(d), rest) /\ end \in Seq(Atom)
    BY <1>2, <1>5, <2>1, <2>2 DEF d, Cat
  <2> HIDE DEF line, rest, end
  <2>7. LeftOf(r, k) = Cat(Cat(Cat(line, Cat(d, EndOfLine)), rest), end)
    BY <2>4, <2>6 DEF LeftOf, m, c, end
  <2>8. LeftOf(r, k + 1) = Cat(rest, end)
    BY DEF LeftOf, m, c, end, rest
  <2>9. Cat(rest, end) \in Seq(Atom) /\ Cat(d, EndOfLine) \in Seq(Atom)
    BY <2>3, <2>5, <2>6, CatType
  <2>10. Cat(line, Cat(d, EndOfLine)) \in Seq(Atom)
    BY <2>5, <2>9, CatType
  <2>11. Cat(Cat(Cat(line, Cat(d, EndOfLine)), rest), end)
           = Cat(Cat(line, Cat(d, EndOfLine)), Cat(rest, end))
    BY <2>6, <2>10, CatAssociative
  <2>12. Cat(Cat(line, Cat(d, EndOfLine)), Cat(rest, end))
           = Cat(line, Cat(Cat(d, EndOfLine), Cat(rest, end)))
    BY <2>5, <2>9, CatAssociative
  <2>13. Cat(Cat(d, EndOfLine), Cat(rest, end)) = Cat(d, Cat(EndOfLine, Cat(rest, end)))
    BY <2>3, <2>5, <2>9, CatAssociative
  <2> QED
    BY <2>1, <2>2, <2>7, <2>8, <2>9, <2>11, <2>12, <2>13 DEF d, line
<1> QED
  BY <1>6, <1>7, <1>8, <1>9, <1>10 DEF c

(* The end of a chunked body: a line with a size of zero, perhaps a field, *)
(* an empty line.                                                          *)
LEMMA LastChunkIsLines ==
  ASSUME NEW r \in Request
  PROVE  /\ LastChunk(r) = Cat(LineOf(SizeLine(0)), Cat(Field(r), LineOf(<< >>)))
         /\ Field(r) \in Seq(Atom)
         /\ \/ Field(r) = << >>
            \/ /\ Data("field") # Crlf /\ <<Data("field")>> \in Seq(Atom)
               /\ Field(r) = LineOf(<<Data("field")>>)
<1>1. /\ <<Size(0), Crlf>> \in Seq(Atom) /\ Field(r) \in Seq(Atom)
      /\ <<Crlf>> \in Seq(Atom)
  BY LastChunkIsAtoms
<1>2. LineOf(SizeLine(0)) = <<Size(0), Crlf>> /\ LineOf(<< >>) = <<Crlf>>
  BY LineIsAtoms
<1>3. LastChunk(r) = Cat(Cat(<<Size(0), Crlf>>, Field(r)), <<Crlf>>)
  BY DEF LastChunk, Cat
<1>4. Cat(Cat(<<Size(0), Crlf>>, Field(r)), <<Crlf>>)
        = Cat(<<Size(0), Crlf>>, Cat(Field(r), <<Crlf>>))
  <2> DEFINE a == <<Size(0), Crlf>>
             b == Field(r)
             c == <<Crlf>>
  <2>1. a \in Seq(Atom) /\ b \in Seq(Atom) /\ c \in Seq(Atom)
    BY <1>1
  <2> HIDE DEF a, b, c
  <2>2. Cat(Cat(a, b), c) = Cat(a, Cat(b, c))
    BY <2>1, CatAssociative
  <2> QED
    BY <2>2 DEF a, b, c
<1>5. Data("field") # Crlf /\ Data("field") \in Atom
  BY StreamAssumption, DataBytes, AtomKinds
<1>6. <<Data("field")>> \in Seq(Atom)
      /\ LineOf(<<Data("field")>>) = <<Data("field"), Crlf>>
  BY <1>5, TwoInARow DEF LineOf, EndOfLine
<1> QED
  BY <1>1, <1>2, <1>3, <1>4, <1>5, <1>6 DEF Field

-----------------------------------------------------------------------------
(* What is still to come: received, on the way, kept back.                 *)
Coming == Cat(buf, Cat(wire, held))

LEMMA ComingIsAtoms ==
  ASSUME Types
  PROVE  Coming \in Seq(Atom) /\ Cat(wire, held) \in Seq(Atom)
<1>1. Cat(wire, held) \in Seq(Atom)
  BY CatType DEF Types
<1> QED
  BY <1>1, CatType DEF Types, Coming

(* What is received is the beginning of what is expected.                  *)
LEMMA BufferBegins ==
  ASSUME Types, NEW lost \in Seq(Atom), NEW e, e = Cat(Coming, lost)
  PROVE  \A i \in 1 .. Len(buf) : e[i] = buf[i]
<1>1. buf \in Seq(Atom) /\ Coming \in Seq(Atom) /\ Cat(wire, held) \in Seq(Atom)
  BY ComingIsAtoms DEF Types
<1>2. /\ Len(buf) \in Nat /\ Len(Cat(wire, held)) \in Nat
      /\ Len(Coming) = Len(buf) + Len(Cat(wire, held))
      /\ \A i \in 1 .. Len(buf) : Coming[i] = buf[i]
  BY <1>1, CatType DEF Coming
<1>3. \A i \in 1 .. Len(Coming) : Cat(Coming, lost)[i] = Coming[i]
  BY <1>1, CatType
<1>4. \A i \in 1 .. Len(buf) : i \in 1 .. Len(Coming)
  BY <1>2
<1> QED
  BY <1>2, <1>3, <1>4

(* When a beginning is used up, the rest is still to come.                 *)
LEMMA Advance ==
  ASSUME Types, NEW x \in Seq(Atom), NEW rest \in Seq(Atom),
         buf = Cat(x, rest),
         NEW lost \in Seq(Atom), NEW e \in Seq(Atom),
         Cat(Coming, lost) = Cat(x, e)
  PROVE  Cat(Cat(rest, Cat(wire, held)), lost) = e
<1> DEFINE w == Cat(wire, held)
<1>1. w \in Seq(Atom)
  BY ComingIsAtoms
<1> HIDE DEF w
<1>2. Coming = Cat(Cat(x, rest), w)
  BY DEF Coming, w
<1>3. Cat(Cat(x, rest), w) = Cat(x, Cat(rest, w)) /\ Cat(rest, w) \in Seq(Atom)
  BY <1>1, CatAssociative, CatType
<1>4. Cat(Cat(x, Cat(rest, w)), lost) = Cat(x, Cat(Cat(rest, w), lost))
  BY <1>3, CatAssociative
<1>5. Cat(Cat(rest, w), lost) \in Seq(Atom)
  BY <1>3, CatType
<1>6. Cat(x, Cat(Cat(rest, w), lost)) = Cat(x, e)
  BY <1>2, <1>3, <1>4
<1> QED
  BY <1>5, <1>6, CatCancel DEF w

(* A line that is expected is the line that is read.                       *)
LEMMA LineRead ==
  ASSUME Types, NEW state, ReadLine(state),
         NEW l \in Seq(Atom), \A i \in 1 .. Len(l) : l[i] # Crlf,
         NEW lost \in Seq(Atom), NEW e \in Seq(Atom),
         Cat(Coming, lost) = Cat(LineOf(l), e)
  PROVE  Line = l /\ Cat(Coming', lost) = e
<1> DEFINE k == First(LineEnds)
           n == Len(l)
           x == LineOf(l)
<1>1. /\ k \in LineEnds /\ k \in 1 .. Len(buf) /\ Len(buf) \in Nat /\ buf[k] = Crlf
      /\ \A j \in LineEnds : k <= j
  <2>1. LineEnds # {} /\ LineEnds \subseteq Nat
    BY EndsInBuffer, SMTT(60) DEF ReadLine, Types
  <2>2. k \in LineEnds /\ \A j \in LineEnds : k <= j
    BY <2>1, FirstIsLeast
  <2> QED
    BY <2>2, EndsInBuffer DEF LineEnds, Types
<1> HIDE DEF k
<1>2. /\ n \in Nat /\ x \in Seq(Atom) /\ Len(x) = n + 1 /\ x[n + 1] = Crlf
      /\ \A i \in 1 .. n : x[i] = l[i]
  <2>1. EndOfLine \in Seq(Atom) /\ Len(EndOfLine) = 1 /\ EndOfLine[1] = Crlf
    BY LineIsAtoms
  <2>2. /\ l \o EndOfLine \in Seq(Atom) /\ Len(l \o EndOfLine) = Len(l) + Len(EndOfLine)
        /\ \A i \in 1 .. Len(l) + Len(EndOfLine) :
             (l \o EndOfLine)[i] = IF i <= Len(l) THEN l[i] ELSE EndOfLine[i - Len(l)]
    BY <2>1, ConcatProperties
  <2>3. x = l \o EndOfLine /\ Len(l) \in Nat
    BY LenProperties DEF LineOf, Cat
  <2> HIDE DEF x
  <2>4. n + 1 \in 1 .. Len(l) + Len(EndOfLine) /\ ~(n + 1 <= Len(l)) /\ (n + 1) - Len(l) = 1
    BY <2>1, <2>3
  <2> QED
    BY <2>1, <2>2, <2>3, <2>4
<1> HIDE DEF x, n
<1>3. \A i \in 1 .. n + 1 : Cat(x, e)[i] = x[i]
  <2>1. x \in Seq(Atom)
    BY <1>2
  <2>2. \A i \in 1 .. Len(x) : Cat(x, e)[i] = x[i]
    BY <2>1, CatType
  <2> QED
    BY <1>2, <2>2
<1>4. \A i \in 1 .. Len(buf) : Cat(x, e)[i] = buf[i]
  BY BufferBegins DEF x
<1>5. k = n + 1
  <2>1. ASSUME k <= n PROVE FALSE
    <3>1. k \in 1 .. n /\ k \in 1 .. n + 1
      BY <1>1, <1>2, <2>1
    <3>2. buf[k] = l[k]
      BY <1>1, <1>2, <1>3, <1>4, <3>1
    <3> QED
      BY <1>1, <3>1, <3>2 DEF n
  <2>2. n + 1 \in 1 .. n + 1 /\ n + 1 \in 1 .. Len(buf)
    BY <1>1, <1>2, <2>1
  <2>3. buf[n + 1] = Crlf
    BY <1>2, <1>3, <1>4, <2>2
  <2>4. n + 1 \in LineEnds
    BY <2>2, <2>3 DEF LineEnds
  <2>5. k <= n + 1
    BY <1>1, <2>4
  <2> QED
    BY <1>1, <1>2, <2>1, <2>5
<1>6. n + 1 \in Nat /\ n + 1 <= Len(buf) /\ n <= Len(buf) /\ (n + 1) - 1 = n
  BY <1>1, <1>2, <1>5
<1>7. /\ UpTo(n + 1) \in Seq(Atom) /\ Len(UpTo(n + 1)) = n + 1
      /\ From((n + 1) + 1) \in Seq(Atom)
      /\ Cat(UpTo(n + 1), From((n + 1) + 1)) = buf
  BY <1>6, BufferCut DEF Cat, Types
<1>8. n + 1 \in 0 .. Len(buf) /\ n \in 0 .. Len(buf)
  BY <1>2, <1>6
<1>9. /\ \A i \in 1 .. n + 1 : UpTo(n + 1)[i] = buf[i]
      /\ UpTo(n) \in Seq(Atom) /\ Len(UpTo(n)) = n
      /\ \A i \in 1 .. n : UpTo(n)[i] = buf[i]
  BY <1>8, CutInTwo DEF UpTo, Types
<1>10. \A i \in 1 .. n + 1 : buf[i] = x[i]
  BY <1>3, <1>4, <1>6
<1>11. UpTo(n + 1) = x
  <2>1. \A i \in 1 .. Len(UpTo(n + 1)) : UpTo(n + 1)[i] = x[i]
    BY <1>7, <1>9, <1>10
  <2> QED
    BY <1>2, <1>7, <2>1, SeqEqual
<1>12. UpTo(n) = l
  <2>1. \A i \in 1 .. n : i \in 1 .. n + 1
    BY <1>2
  <2>2. \A i \in 1 .. Len(UpTo(n)) : UpTo(n)[i] = l[i]
    BY <1>2, <1>9, <1>10, <2>1
  <2> QED
    BY <1>9, <2>2, SeqEqual DEF n
<1>13. Line = l
  BY <1>5, <1>6, <1>12 DEF Line, k
<1>14. buf' = From((n + 1) + 1) /\ wire' = wire /\ held' = held
  BY <1>5 DEF ReadLine, client, k
<1>15. Cat(Cat(From((n + 1) + 1), Cat(wire, held)), lost) = e
  BY <1>2, <1>7, <1>11, Advance DEF x
<1> QED
  BY <1>13, <1>14, <1>15 DEF Coming

(* A request that is expected is the request that is read.                 *)
LEMMA HeaderRead ==
  ASSUME Types, ReadRequest, NEW r \in Request,
         NEW lost \in Seq(Atom), NEW e \in Seq(Atom),
         Cat(Coming, lost) = Cat(Header(r), e)
  PROVE  cur' = r /\ Cat(Coming', lost) = e
<1> DEFINE k == First(HeaderEnds)
           x == Header(r)
<1>1. /\ k \in 1 .. Len(buf) - 1 /\ Len(buf) \in Nat
      /\ buf[k] = Crlf /\ buf[k + 1] = Crlf
      /\ \A j \in HeaderEnds : k <= j
  <2>1. HeaderEnds # {} /\ HeaderEnds \subseteq Nat
    BY EndsInBuffer, SMTT(60) DEF ReadRequest, Types
  <2>2. k \in HeaderEnds /\ \A j \in HeaderEnds : k <= j
    BY <2>1, FirstIsLeast
  <2> QED
    BY <2>2, EndsInBuffer DEF HeaderEnds, Types
<1> HIDE DEF k
<1>2. /\ x \in Seq(Atom) /\ Len(x) = 3
      /\ x[1] = Lead(r) /\ x[2] = Crlf /\ x[3] = Crlf /\ Lead(r) # Crlf
  BY HeaderIsAtoms, HeaderBytes
<1> HIDE DEF x
<1>3. \A i \in 1 .. 3 : Cat(x, e)[i] = x[i]
  <2>1. x \in Seq(Atom)
    BY <1>2
  <2>2. \A i \in 1 .. Len(x) : Cat(x, e)[i] = x[i]
    BY <2>1, CatType
  <2> QED
    BY <1>2, <2>2
<1>4. \A i \in 1 .. Len(buf) : Cat(x, e)[i] = buf[i]
  BY BufferBegins DEF x
<1>5. k # 1
  <2>1. 1 \in 1 .. 3 /\ 1 \in 1 .. Len(buf)
    BY <1>1
  <2> QED
    BY <1>1, <1>2, <1>3, <1>4, <2>1
<1>6. 1 \in 1 .. Len(buf) /\ 2 \in 1 .. Len(buf) /\ 3 \in 1 .. Len(buf)
      /\ 2 \in 1 .. Len(buf) - 1
  BY <1>1, <1>5
<1>7. buf[1] = Lead(r) /\ buf[2] = Crlf /\ buf[3] = Crlf
  BY <1>2, <1>3, <1>4, <1>6
<1>8. k = 2
  <2>1. 2 \in HeaderEnds
    BY <1>6, <1>7 DEF HeaderEnds
  <2>2. k <= 2
    BY <1>1, <2>1
  <2> QED
    BY <1>1, <1>5, <2>2
<1>9. k - 1 = 1 /\ k + 2 = 4 /\ 3 \in 0 .. Len(buf) /\ 1 \in 0 .. Len(buf)
  BY <1>1, <1>6, <1>8
<1>10. /\ UpTo(1) \in Seq(Atom) /\ Len(UpTo(1)) = 1 /\ UpTo(1)[1] = Lead(r)
  BY <1>7, <1>9, CutInTwo DEF UpTo, Types
<1>11. /\ UpTo(3) \in Seq(Atom) /\ Len(UpTo(3)) = 3
       /\ \A i \in 1 .. 3 : UpTo(3)[i] = buf[i]
       /\ From(4) \in Seq(Atom) /\ Cat(UpTo(3), From(4)) = buf
  <2>1. /\ SubSeq(buf, 1, 3) \in Seq(Atom) /\ Len(SubSeq(buf, 1, 3)) = 3
        /\ \A i \in 1 .. 3 : SubSeq(buf, 1, 3)[i] = buf[i]
        /\ SubSeq(buf, 3 + 1, Len(buf)) \in Seq(Atom)
        /\ SubSeq(buf, 1, 3) \o SubSeq(buf, 3 + 1, Len(buf)) = buf
    BY <1>9, CutInTwo DEF Types
  <2>2. 3 + 1 = 4
    OBVIOUS
  <2> QED
    BY <2>1, <2>2 DEF UpTo, From, Cat
<1>12. UpTo(3) = x
  <2>1. \A i \in 1 .. 3 : i \in 1 .. Len(buf)
    BY <1>6
  <2>2. \A i \in 1 .. Len(UpTo(3)) : UpTo(3)[i] = x[i]
    BY <1>3, <1>4, <1>11, <2>1
  <2> QED
    BY <1>2, <1>11, <2>2, SeqEqual
<1>13. Cat(Cat(From(4), Cat(wire, held)), lost) = e
  BY <1>2, <1>11, <1>12, Advance DEF x
<1>14. Parsed(UpTo(1)) = r
  <2> DEFINE text == UpTo(1)
             words == {i \in DOMAIN text : text[i] # Crlf}
  <2>1. DOMAIN text = 1 .. 1
    BY <1>10, LenProperties
  <2>2. words = {1}
    BY <1>2, <1>10, <2>1
  <2>3. First(words) = 1
    <3> HIDE DEF words
    <3>1. words \subseteq Nat /\ words # {}
      BY <2>2
    <3>2. First(words) \in words
      BY <3>1, FirstIsLeast
    <3> QED
      BY <2>2, <3>2
  <2>4. IsLead(Lead(r)) /\ Lead(r).lead = r
    BY DEF IsLead, Lead
  <2> QED
    BY <1>10, <2>2, <2>3, <2>4 DEF Parsed
<1>15. /\ buf' = From(k + 2) /\ cur' = Parsed(UpTo(k - 1))
       /\ wire' = wire /\ held' = held
  BY DEF ReadRequest, client, k
<1>16. buf' = From(4) /\ cur' = r
  BY <1>9, <1>14, <1>15
<1> QED
  BY <1>13, <1>15, <1>16 DEF Coming

-----------------------------------------------------------------------------
(* Where the session stands in the request it reads: "ahead" is what it    *)
(* has not yet used of that request, and the rest has become what it       *)
(* should.  First in the middle of some data d, which something follows.   *)
InData(d, after, ahead) ==
  \/ pc = "buffered" /\ need = Len(d) /\ ahead = Cat(d, after)
  \/ pc = "fixed" /\ \E u \in Seq(Atom) :
        d = Cat(piece, u) /\ need = Len(u) /\ ahead = Cat(u, after)

InPut(ahead) ==
  pc = "put" /\ cur.kind = "put" /\ body = << >> /\ ahead = BodyBytes(cur)

InHandler(ahead) ==
  /\ pc = "handle"
  /\ \/ cur.kind = "plain" /\ body = << >> /\ ahead = BodyBytes(cur)
     \/ cur.kind # "plain" /\ body = Body(cur) /\ ahead = << >>

InFixed(ahead) ==
  cur.framing = "fixed" /\ cur.kind # "plain" /\ InData(Body(cur), << >>, ahead)

InChunk(k, ahead) ==
  /\ body = Taken(cur, k)
  /\ \/ pc = "size" /\ ahead = LeftOf(cur, k)
     \/ /\ k < Len(cur.chunks)
        /\ \/ InData(cur.chunks[k + 1], Cat(EndOfLine, LeftOf(cur, k + 1)), ahead)
           \/ /\ pc = "crlf" /\ piece = cur.chunks[k + 1]
              /\ ahead = Cat(EndOfLine, LeftOf(cur, k + 1))

InTrailer(ahead) ==
  /\ pc = "trailer" /\ body = Body(cur)
  /\ ahead \in {Cat(Field(cur), LineOf(<< >>)), LineOf(<< >>)}

InChunked(ahead) ==
  /\ cur.framing = "chunked" /\ cur.kind # "plain"
  /\ InTrailer(ahead) \/ \E k \in 0 .. Len(cur.chunks) : InChunk(k, ahead)

Position(ahead) ==
  \/ pc = "head" /\ ahead = << >>
  \/ InPut(ahead) \/ InHandler(ahead) \/ InFixed(ahead) \/ InChunked(ahead)

(* Reading a body begins at its first byte.                                *)
LEMMA StartBodyMoves ==
  ASSUME NEW r \in Request, r.kind # "plain", StartBody(r), cur' = r, body' = << >>
  PROVE  Position(BodyBytes(r))'
<1>1. r.framing \in Framing /\ r.chunks \in Seq(Seq(Atom))
  BY StreamAssumption
<1>2. CASE r.framing = "none"
  <2>1. pc' = "handle" /\ BodyBytes(r) = << >>
    BY <1>2, BodyBytesByFraming DEF StartBody
  <2>2. Body(r) = << >>
    <3>1. r.chunks = << >>
      BY <1>2, StreamAssumption
    <3> QED
      BY <3>1, FlattenEmpty DEF Body
  <2>3. InHandler(BodyBytes(r))'
    BY <2>1, <2>2 DEF InHandler
  <2> QED
    BY <2>3 DEF Position
<1>3. CASE r.framing = "fixed"
  <2>1. pc' = "buffered" /\ need' = Len(Body(r)) /\ BodyBytes(r) = Body(r)
    BY <1>3, BodyBytesByFraming DEF StartBody
  <2>2. Body(r) = Cat(Body(r), << >>)
    BY BodyIsAtoms, CatEmpty
  <2>3. InFixed(BodyBytes(r))'
    BY <1>3, <2>1, <2>2 DEF InFixed, InData
  <2> QED
    BY <2>3 DEF Position
<1>4. CASE r.framing = "chunked"
  <2>1. 0 \in 0 .. Len(r.chunks)
    BY <1>1, LenProperties
  <2>2. Taken(r, 0) = << >> /\ LeftOf(r, 0) = BodyBytes(r)
    BY <1>4, <2>1, LeftStep
  <2>3. pc' = "size"
    BY <1>4 DEF StartBody
  <2>4. InChunk(0, BodyBytes(r))'
    BY <2>2, <2>3 DEF InChunk
  <2>5. InChunked(BodyBytes(r))'
    BY <1>4, <2>1, <2>4 DEF InChunked
  <2> QED
    BY <2>5 DEF Position
<1> QED
  BY <1>1, <1>2, <1>3, <1>4 DEF Framing

(* Data is taken from the front of what is to come.                        *)
LEMMA DataStep ==
  ASSUME Types, NEW d \in Seq(Atom), NEW after \in Seq(Atom), NEW ahead \in Seq(Atom),
         NEW lost \in Seq(Atom), NEW rest \in Seq(Atom),
         InData(d, after, ahead), Cat(Coming, lost) = Cat(ahead, rest),
         TakeBuffered \/ ReadPiece
  PROVE  \E new \in Seq(Atom) :
           InData(d, after, new)' /\ Cat(Coming', lost) = Cat(new, rest)
<1> DEFINE w == Cat(wire, held)
<1>1. w \in Seq(Atom) /\ buf \in Seq(Atom) /\ wire \in Seq(Atom) /\ held \in Seq(Atom)
  BY ComingIsAtoms DEF Types
<1>2. CASE TakeBuffered
  <2> DEFINE n == Least(Len(buf), need)
  <2>1. /\ pc = "buffered" /\ pc' = "fixed"
        /\ piece' = UpTo(n) /\ buf' = From(n + 1) /\ need' = need - n
        /\ wire' = wire /\ held' = held
    BY <1>2 DEF TakeBuffered, client
  <2>2. need = Len(d) /\ ahead = Cat(d, after)
    BY <2>1 DEF InData
  <2>3. n \in Nat /\ n <= Len(buf) /\ n <= need /\ need \in Nat
    BY LenProperties DEF Least, Types
  <2> HIDE DEF n
  <2>4. /\ UpTo(n) \in Seq(Atom) /\ Len(UpTo(n)) = n
        /\ From(n + 1) \in Seq(Atom) /\ Cat(UpTo(n), From(n + 1)) = buf
    BY <2>3, BufferCut DEF Cat, Types
  <2> DEFINE got == UpTo(n)
             coming == Cat(From(n + 1), w)
  <2>5. got \in Seq(Atom) /\ Len(got) = n /\ coming \in Seq(Atom)
    BY <1>1, <2>4, CatType
  <2>6. Coming = Cat(got, coming)
    <3> HIDE DEF w
    <3>1. Coming = Cat(buf, w)
      BY DEF Coming, w
    <3>2. Cat(Cat(got, From(n + 1)), w) = Cat(got, coming)
      BY <1>1, <2>4, CatAssociative
    <3> QED
      BY <2>4, <3>1, <3>2
  <2>7. Coming' = coming
    BY <2>1 DEF Coming
  <2> HIDE DEF got, coming
  <2>8. << >> \in Seq(Atom) /\ d = Cat(<< >>, d) /\ Cat(<< >>, got) = got
    BY <2>5, CatEmpty
  <2>9. Len(got) <= Len(d)
    BY <2>2, <2>3, <2>5
  <2>10. Cat(Cat(got, coming), lost) = Cat(Cat(d, after), rest)
    BY <2>2, <2>6
  <2>11. PICK v \in Seq(Atom) :
           /\ d = Cat(Cat(<< >>, got), v) /\ Len(d) = Len(got) + Len(v)
           /\ Cat(coming, lost) = Cat(Cat(v, after), rest)
    <3>1. << >> \in Seq(Atom) /\ d \in Seq(Atom) /\ got \in Seq(Atom) /\ coming \in Seq(Atom)
      BY <2>5, <2>8
    <3>2. Cat(coming, lost) \in Seq(Atom) /\ Cat(after, rest) \in Seq(Atom)
      BY <3>1, CatType
    <3>3. Cat(got, Cat(coming, lost)) = Cat(d, Cat(after, rest))
      <4>1. Cat(Cat(got, coming), lost) = Cat(got, Cat(coming, lost))
        BY <3>1, CatAssociative
      <4>2. Cat(Cat(d, after), rest) = Cat(d, Cat(after, rest))
        BY <3>1, CatAssociative
      <4> QED
        BY <2>10, <4>1, <4>2
    <3>4. PICK v \in Seq(Atom) :
            d = Cat(got, v) /\ Cat(coming, lost) = Cat(v, Cat(after, rest))
      BY <3>1, <3>2, <3>3, <2>9, LongerBeginning
    <3>5. Cat(got, v) = Cat(Cat(<< >>, got), v)
      BY <2>8
    <3>6. Cat(v, Cat(after, rest)) = Cat(Cat(v, after), rest)
      BY <3>4, CatAssociative
    <3>7. Len(Cat(got, v)) = Len(got) + Len(v)
      BY <3>1, <3>4, CatType
    <3> QED
      BY <2>8, <3>4, <3>5, <3>6, <3>7
  <2>12. need' = Len(v) /\ piece' = got
    <3>1. Len(v) \in Nat
      BY <2>11, LenProperties
    <3> QED
      BY <2>1, <2>2, <2>3, <2>5, <2>11, <3>1 DEF got
  <2>13. Cat(v, after) \in Seq(Atom)
    BY <2>11, CatType
  <2>14. InData(d, after, Cat(v, after))'
    BY <2>1, <2>8, <2>11, <2>12 DEF InData
  <2> QED
    BY <2>7, <2>11, <2>13, <2>14
<1>3. CASE ReadPiece
  <2> DEFINE n == Least(IoChunk, need)
             first == SubSeq(wire, 1, n)
             all == buf \o first
  <2>1. /\ pc = "fixed" /\ pc' = "fixed" /\ Len(wire) >= n
        /\ piece' = piece \o SubSeq(all, 1, n)
        /\ buf' = SubSeq(all, n + 1, Len(all))
        /\ wire' = SubSeq(wire, n + 1, Len(wire))
        /\ need' = need - n /\ held' = held
    BY <1>3 DEF ReadPiece
  <2>2. PICK u \in Seq(Atom) : d = Cat(piece, u) /\ need = Len(u) /\ ahead = Cat(u, after)
    BY <2>1 DEF InData
  <2>3. n \in Nat /\ n \in 0 .. Len(wire) /\ n <= need /\ need \in Nat
    BY <2>1, LenProperties, StreamAssumption DEF Least, Types
  <2> HIDE DEF n
  <2>4. /\ first \in Seq(Atom) /\ Len(first) = n
        /\ wire' \in Seq(Atom) /\ Cat(first, wire') = wire
    BY <1>1, <2>1, <2>3, CutInTwo, ZenonT(60) DEF Cat
  <2>5. all = Cat(buf, first)
    BY DEF Cat
  <2> HIDE DEF first
  <2>6. all \in Seq(Atom) /\ Len(all) = Len(buf) + n /\ Len(buf) \in Nat
    <3>1. Cat(buf, first) \in Seq(Atom) /\ Len(Cat(buf, first)) = Len(buf) + Len(first)
      BY <1>1, <2>4, CatType
    <3> QED
      BY <1>1, <2>4, <2>5, <3>1, LenProperties
  <2> HIDE DEF all
  <2>7. n \in 0 .. Len(all)
    BY <2>3, <2>6
  <2> DEFINE got == SubSeq(all, 1, n)
             v0 == Cat(buf', Cat(wire', held))
  <2>8. got \in Seq(Atom) /\ Len(got) = n /\ buf' \in Seq(Atom) /\ Cat(got, buf') = all
    BY <2>1, <2>6, <2>7, CutInTwo, ZenonT(60) DEF Cat
  <2> HIDE DEF got
  <2>9. Cat(wire', held) \in Seq(Atom)
    BY <1>1, <2>4, CatType
  <2>10. v0 \in Seq(Atom)
    BY <2>8, <2>9, CatType
  <2>11. Coming = Cat(got, v0)
    <3>1. Coming = Cat(buf, Cat(Cat(first, wire'), held))
      BY <2>4 DEF Coming
    <3>2. Cat(Cat(first, wire'), held) = Cat(first, Cat(wire', held))
      BY <1>1, <2>4, CatAssociative
    <3>3. Cat(buf, Cat(first, Cat(wire', held))) = Cat(Cat(buf, first), Cat(wire', held))
      BY <1>1, <2>4, <2>9, CatAssociative
    <3>4. Cat(Cat(got, buf'), Cat(wire', held)) = Cat(got, v0)
      BY <2>8, <2>9, CatAssociative
    <3> QED
      BY <2>5, <2>8, <3>1, <3>2, <3>3, <3>4
  <2>12. Coming' = v0
    BY <2>1 DEF Coming
  <2> HIDE DEF v0
  <2>13. Len(got) <= Len(u) /\ piece \in Seq(Atom)
    BY <2>2, <2>3, <2>8 DEF Types
  <2>14. Cat(Cat(got, v0), lost) = Cat(Cat(u, after), rest)
    BY <2>2, <2>11
  <2>15. PICK v \in Seq(Atom) :
           /\ d = Cat(Cat(piece, got), v) /\ Len(u) = Len(got) + Len(v)
           /\ Cat(v0, lost) = Cat(Cat(v, after), rest)
    <3>1. piece \in Seq(Atom) /\ u \in Seq(Atom) /\ got \in Seq(Atom) /\ v0 \in Seq(Atom)
      BY <2>2, <2>8, <2>10, <2>13
    <3>2. Cat(v0, lost) \in Seq(Atom) /\ Cat(after, rest) \in Seq(Atom)
      BY <3>1, CatType
    <3>3. Cat(got, Cat(v0, lost)) = Cat(u, Cat(after, rest))
      <4>1. Cat(Cat(got, v0), lost) = Cat(got, Cat(v0, lost))
        BY <3>1, CatAssociative
      <4>2. Cat(Cat(u, after), rest) = Cat(u, Cat(after, rest))
        BY <3>1, CatAssociative
      <4> QED
        BY <2>14, <4>1, <4>2
    <3>4. PICK v \in Seq(Atom) :
            u = Cat(got, v) /\ Cat(v0, lost) = Cat(v, Cat(after, rest))
      BY <3>1, <3>2, <3>3, <2>13, LongerBeginning
    <3>5. Cat(piece, Cat(got, v)) = Cat(Cat(piece, got), v)
      BY <3>1, <3>4, CatAssociative
    <3>6. Cat(v, Cat(after, rest)) = Cat(Cat(v, after), rest)
      BY <3>4, CatAssociative
    <3>7. Len(Cat(got, v)) = Len(got) + Len(v)
      BY <3>1, <3>4, CatType
    <3> QED
      BY <2>2, <3>4, <3>5, <3>6, <3>7
  <2>16. need' = Len(v) /\ piece' = Cat(piece, got)
    <3>1. Len(v) \in Nat
      BY <2>15, LenProperties
    <3>2. piece' = Cat(piece, got)
      BY <2>1 DEF got, Cat
    <3> QED
      BY <2>1, <2>2, <2>3, <2>8, <2>15, <3>1, <3>2, SMTT(60)
  <2>17. Cat(v, after) \in Seq(Atom)
    BY <2>15, CatType
  <2>18. InData(d, after, Cat(v, after))'
    BY <2>1, <2>15, <2>16 DEF InData
  <2> QED
    BY <2>12, <2>15, <2>17, <2>18
<1> QED
  BY <1>2, <1>3

-----------------------------------------------------------------------------
(* The steps of a body, each from a place in a request to the next.        *)
LEMMA AcceptPutMoves ==
  ASSUME Types, cur \in Request, NEW ahead \in Seq(Atom),
         NEW lost \in Seq(Atom), NEW rest \in Seq(Atom),
         Position(ahead), Cat(Coming, lost) = Cat(ahead, rest), AcceptPut
  PROVE  \E new \in Seq(Atom) : Position(new)' /\ Cat(Coming', lost) = Cat(new, rest)
<1>1. PICK r \in Request : r = cur
  OBVIOUS
<1>2. InPut(ahead) /\ body' = body /\ cur' = r /\ StartBody(r)
      /\ UNCHANGED <<buf, wire, held>>
  BY <1>1 DEF AcceptPut, Position, InPut, InHandler, InFixed, InChunked, InTrailer,
              InChunk, InData
<1>3. r.kind # "plain" /\ body' = << >> /\ ahead = BodyBytes(r)
  BY <1>1, <1>2 DEF InPut
<1>4. Position(BodyBytes(r))'
  BY <1>1, <1>2, <1>3, StartBodyMoves
<1>5. Coming' = Coming
  BY <1>2 DEF Coming
<1>6. BodyBytes(r) \in Seq(Atom)
  BY <1>3
<1> QED
  BY <1>3, <1>4, <1>5, <1>6

LEMMA TakingMoves ==
  ASSUME Types, cur \in Request, NEW ahead \in Seq(Atom),
         NEW lost \in Seq(Atom), NEW rest \in Seq(Atom),
         Position(ahead), Cat(Coming, lost) = Cat(ahead, rest),
         TakeBuffered \/ ReadPiece
  PROVE  \E new \in Seq(Atom) : Position(new)' /\ Cat(Coming', lost) = Cat(new, rest)
<1>1. PICK r \in Request : r = cur
  OBVIOUS
<1>2. pc \in {"buffered", "fixed"} /\ cur' = r /\ body' = body
  BY <1>1 DEF TakeBuffered, ReadPiece
<1>3. InFixed(ahead) \/ InChunked(ahead)
  BY <1>2 DEF Position, InPut, InHandler
<1>4. CASE InFixed(ahead)
  <2>1. PICK none \in Seq(Atom) : none = << >>
    BY EmptySeq
  <2>2. Body(r) \in Seq(Atom) /\ InData(Body(r), none, ahead)
    BY <1>1, <1>4, <2>1, BodyIsAtoms DEF InFixed
  <2>3. PICK new \in Seq(Atom) :
          InData(Body(r), none, new)' /\ Cat(Coming', lost) = Cat(new, rest)
    BY <2>2, DataStep
  <2>4. InFixed(new)'
    BY <1>1, <1>2, <1>4, <2>1, <2>3 DEF InFixed
  <2> QED
    BY <2>3, <2>4 DEF Position
<1>5. CASE InChunked(ahead)
  <2>1. /\ r.framing = "chunked" /\ r.kind # "plain" /\ Len(r.chunks) \in Nat
        /\ \E k \in 0 .. Len(r.chunks) :
             /\ body = Taken(r, k) /\ k < Len(r.chunks)
             /\ InData(r.chunks[k + 1], Cat(EndOfLine, LeftOf(r, k + 1)), ahead)
    <3>1. Len(r.chunks) \in Nat
      BY StreamAssumption, LenProperties
    <3> QED
      BY <1>1, <1>2, <1>5, <3>1 DEF InChunked, InTrailer, InChunk
  <2>2. PICK k \in 0 .. Len(r.chunks) :
          /\ body = Taken(r, k) /\ k < Len(r.chunks)
          /\ InData(r.chunks[k + 1], Cat(EndOfLine, LeftOf(r, k + 1)), ahead)
    BY <2>1
  <2>3. r.chunks[k + 1] \in Seq(Atom) /\ LeftOf(r, k + 1) \in Seq(Atom)
    BY <2>1, <2>2, LeftStep
  <2>4. Cat(EndOfLine, LeftOf(r, k + 1)) \in Seq(Atom)
    BY <2>3, LineIsAtoms, CatType
  <2>5. PICK new \in Seq(Atom) :
          /\ InData(r.chunks[k + 1], Cat(EndOfLine, LeftOf(r, k + 1)), new)'
          /\ Cat(Coming', lost) = Cat(new, rest)
    BY <2>2, <2>3, <2>4, DataStep
  <2>6. InChunk(k, new)'
    BY <1>2, <2>2, <2>5 DEF InChunk
  <2>7. InChunked(new)'
    BY <1>2, <2>1, <2>2, <2>6 DEF InChunked
  <2> QED
    BY <2>5, <2>7 DEF Position
<1> QED
  BY <1>3, <1>4, <1>5

(* When all of some data is taken, what follows it comes next.             *)
LEMMA DataEnds ==
  ASSUME NEW d \in Seq(Atom), NEW after \in Seq(Atom), NEW ahead,
         piece \in Seq(Atom), pc = "fixed", need = 0, InData(d, after, ahead)
  PROVE  piece = d /\ ahead = after
<1>1. PICK u \in Seq(Atom) : d = Cat(piece, u) /\ need = Len(u) /\ ahead = Cat(u, after)
  BY DEF InData
<1>2. u = << >>
  BY <1>1, EmptySeq
<1>3. Cat(piece, << >>) = piece /\ Cat(<< >>, after) = after
  BY CatEmpty
<1> QED
  BY <1>1, <1>2, <1>3

LEMMA EndFixedMoves ==
  ASSUME Types, cur \in Request, NEW ahead \in Seq(Atom),
         NEW lost \in Seq(Atom), NEW rest \in Seq(Atom),
         Position(ahead), Cat(Coming, lost) = Cat(ahead, rest), EndFixed
  PROVE  \E new \in Seq(Atom) : Position(new)' /\ Cat(Coming', lost) = Cat(new, rest)
<1>1. PICK r \in Request : r = cur
  OBVIOUS
<1>2. pc = "fixed" /\ need = 0 /\ cur' = r /\ UNCHANGED <<buf, wire, held>>
      /\ piece \in Seq(Atom)
  BY <1>1 DEF EndFixed, client, Types
<1>3. Coming' = Coming
  BY <1>2 DEF Coming
<1>4. InFixed(ahead) \/ InChunked(ahead)
  BY <1>2 DEF Position, InPut, InHandler
<1>5. CASE InFixed(ahead)
  <2>1. Body(r) \in Seq(Atom) /\ << >> \in Seq(Atom) /\ InData(Body(r), << >>, ahead)
        /\ r.framing = "fixed" /\ r.kind # "plain"
    BY <1>1, <1>5, BodyIsAtoms, EmptySeq DEF InFixed
  <2>2. piece = Body(r) /\ ahead = << >>
    BY <1>2, <2>1, DataEnds
  <2>3. pc' = "handle" /\ body' = piece
    BY <1>1, <2>1 DEF EndFixed
  <2>4. InHandler(ahead)'
    BY <1>2, <2>1, <2>2, <2>3 DEF InHandler
  <2> QED
    BY <1>3, <2>4 DEF Position
<1>6. CASE InChunked(ahead)
  <2>1. Len(r.chunks) \in Nat
    BY StreamAssumption, LenProperties
  <2>2. r.framing = "chunked" /\ r.kind # "plain"
    BY <1>1, <1>6 DEF InChunked
  <2>3. PICK k \in 0 .. Len(r.chunks) :
          /\ body = Taken(r, k) /\ k < Len(r.chunks)
          /\ InData(r.chunks[k + 1], Cat(EndOfLine, LeftOf(r, k + 1)), ahead)
    BY <1>1, <1>2, <1>6, <2>1 DEF InChunked, InTrailer, InChunk
  <2>4. r.chunks[k + 1] \in Seq(Atom) /\ LeftOf(r, k + 1) \in Seq(Atom)
    BY <2>2, <2>3, LeftStep
  <2>5. Cat(EndOfLine, LeftOf(r, k + 1)) \in Seq(Atom)
    BY <2>4, LineIsAtoms, CatType
  <2>6. piece = r.chunks[k + 1] /\ ahead = Cat(EndOfLine, LeftOf(r, k + 1))
    BY <1>2, <2>3, <2>4, <2>5, DataEnds
  <2>7. pc' = "crlf" /\ body' = body /\ piece' = piece
    BY <1>1, <2>2 DEF EndFixed
  <2>8. InChunk(k, ahead)'
    BY <1>2, <2>3, <2>6, <2>7 DEF InChunk
  <2>9. InChunked(ahead)'
    BY <1>2, <2>2, <2>3, <2>8 DEF InChunked
  <2> QED
    BY <1>3, <2>9 DEF Position
<1> QED
  BY <1>4, <1>5, <1>6

(* The line that comes next is the line that is read.                      *)
LEMMA LineComes ==
  ASSUME Types, NEW state, ReadLine(state),
         NEW l \in Seq(Atom), \A i \in 1 .. Len(l) : l[i] # Crlf,
         NEW new \in Seq(Atom), NEW ahead, ahead = Cat(LineOf(l), new),
         NEW lost \in Seq(Atom), NEW rest \in Seq(Atom),
         Cat(Coming, lost) = Cat(ahead, rest)
  PROVE  Line = l /\ Cat(Coming', lost) = Cat(new, rest)
<1> DEFINE x == LineOf(l)
           e == Cat(new, rest)
<1>1. x \in Seq(Atom) /\ e \in Seq(Atom)
  BY LineIsAtoms, CatType
<1>2. Cat(Coming, lost) = Cat(x, e)
  <2> HIDE DEF x
  <2>1. Cat(Cat(x, new), rest) = Cat(x, e)
    BY <1>1, CatAssociative
  <2> QED
    BY <2>1 DEF x
<1> QED
  BY <1>1, <1>2, LineRead, SMTT(60)

LEMMA ReadSizeMoves ==
  ASSUME Types, cur \in Request, NEW ahead \in Seq(Atom),
         NEW lost \in Seq(Atom), NEW rest \in Seq(Atom),
         Position(ahead), Cat(Coming, lost) = Cat(ahead, rest), ReadSize, Reading'
  PROVE  \E new \in Seq(Atom) : Position(new)' /\ Cat(Coming', lost) = Cat(new, rest)
<1>1. PICK r \in Request : r = cur
  OBVIOUS
<1>2. /\ pc = "size" /\ ReadLine("size") /\ cur' = r
      /\ body' = body /\ pc' # "closing"
  BY <1>1 DEF ReadSize, ReadLine, Reading
<1>3. InChunked(ahead)
  BY <1>2 DEF Position, InPut, InHandler, InFixed, InData
<1>4. r.framing = "chunked" /\ r.kind # "plain" /\ Len(r.chunks) \in Nat
  BY <1>1, <1>3, StreamAssumption, LenProperties DEF InChunked
<1>5. PICK k \in 0 .. Len(r.chunks) : body = Taken(r, k) /\ ahead = LeftOf(r, k)
  BY <1>1, <1>2, <1>3 DEF InChunked, InTrailer, InChunk, InData
<1>6. ASSUME NEW l \in Seq(Atom), NEW new \in Seq(Atom),
             \A i \in 1 .. Len(l) : l[i] # Crlf, ahead = Cat(LineOf(l), new)
      PROVE  Line = l /\ Cat(Coming', lost) = Cat(new, rest)
  BY <1>2, <1>6, LineComes
<1>7. ASSUME NEW n \in Nat, NEW new \in Seq(Atom),
             ahead = Cat(LineOf(SizeLine(n)), new)
      PROVE  /\ Cat(Coming', lost) = Cat(new, rest)
             /\ n = 0 => pc' = "trailer"
             /\ n # 0 => pc' = "buffered" /\ need' = n
  <2>1. SizeLine(n) \in Seq(Atom)
    BY LineIsAtoms
  <2>2. Len(SizeLine(n)) = 1 /\ SizeLine(n)[1] = Size(n) /\ Size(n) # Crlf
        /\ IsSize(Size(n)) /\ Size(n).size = n
    BY AtomKinds DEF SizeLine, IsSize, Size, Crlf
  <2>3. \A i \in 1 .. Len(SizeLine(n)) : SizeLine(n)[i] # Crlf
    BY <2>2
  <2>4. Line = SizeLine(n) /\ Cat(Coming', lost) = Cat(new, rest)
    BY <1>6, <1>7, <2>1, <2>3
  <2>5. Len(Line) = 1 /\ IsSize(Line[1]) /\ Line[1].size = n
    BY <2>2, <2>4
  <2>6. /\ n = 0 => pc' = "trailer"
        /\ n > 0 => pc' = "buffered" /\ need' = n
    BY <1>2, <2>5 DEF ReadSize
  <2> QED
    BY <2>4, <2>6
<1>8. CASE k < Len(r.chunks)
  <2> DEFINE d == r.chunks[k + 1]
             after == Cat(EndOfLine, LeftOf(r, k + 1))
             new == Cat(d, after)
  <2>1. /\ d \in Seq(Atom) /\ d # << >> /\ LeftOf(r, k + 1) \in Seq(Atom)
        /\ LeftOf(r, k) = Cat(LineOf(SizeLine(Len(d))), new)
    BY <1>4, <1>5, <1>8, LeftStep
  <2>2. after \in Seq(Atom)
    BY <2>1, LineIsAtoms, CatType
  <2>3. new \in Seq(Atom) /\ Len(d) \in Nat
    BY <2>1, <2>2, CatType, ZenonT(60)
  <2>4. Len(d) # 0
    BY <2>1, EmptySeq
  <2>5. ahead = Cat(LineOf(SizeLine(Len(d))), new)
    BY <1>5, <2>1
  <2> HIDE DEF new
  <2>6. Cat(Coming', lost) = Cat(new, rest) /\ pc' = "buffered" /\ need' = Len(d)
    BY <1>7, <2>3, <2>4, <2>5
  <2>7. InData(d, after, new)'
    BY <2>6 DEF InData, new
  <2>8. InChunk(k, new)'
    BY <1>2, <1>5, <1>8, <2>7 DEF InChunk
  <2>9. InChunked(new)'
    BY <1>2, <1>4, <1>5, <2>8 DEF InChunked
  <2> QED
    BY <2>3, <2>6, <2>9 DEF Position
<1>9. CASE ~(k < Len(r.chunks))
  <2> DEFINE new == Cat(Field(r), LineOf(<< >>))
  <2>1. k = Len(r.chunks)
    BY <1>4, <1>5, <1>9
  <2>2. body = Body(r) /\ ahead = LastChunk(r)
    BY <1>4, <1>5, <2>1, LeftStep
  <2>3. ahead = Cat(LineOf(SizeLine(0)), new) /\ Field(r) \in Seq(Atom)
    BY <2>2, LastChunkIsLines
  <2>4. new \in Seq(Atom)
    BY <2>3, LineIsAtoms, EmptySeq, CatType
  <2> HIDE DEF new
  <2>5. Cat(Coming', lost) = Cat(new, rest) /\ pc' = "trailer"
    BY <1>7, <2>3, <2>4
  <2>6. InTrailer(new)'
    BY <1>2, <2>2, <2>5 DEF InTrailer, new
  <2>7. InChunked(new)'
    BY <1>2, <1>4, <2>6 DEF InChunked
  <2> QED
    BY <2>4, <2>5, <2>7 DEF Position
<1> QED
  BY <1>8, <1>9

LEMMA ReadChunkEndMoves ==
  ASSUME Types, cur \in Request, NEW ahead \in Seq(Atom),
         NEW lost \in Seq(Atom), NEW rest \in Seq(Atom),
         Position(ahead), Cat(Coming, lost) = Cat(ahead, rest), ReadChunkEnd, Reading'
  PROVE  \E new \in Seq(Atom) : Position(new)' /\ Cat(Coming', lost) = Cat(new, rest)
<1>1. PICK r \in Request : r = cur
  OBVIOUS
<1>2. /\ pc = "crlf" /\ ReadLine("crlf") /\ cur' = r /\ pc' # "closing"
  BY <1>1 DEF ReadChunkEnd, ReadLine, Reading
<1>3. InChunked(ahead)
  BY <1>2 DEF Position, InPut, InHandler, InFixed, InData
<1>4. r.framing = "chunked" /\ r.kind # "plain" /\ Len(r.chunks) \in Nat
  BY <1>1, <1>3, StreamAssumption, LenProperties DEF InChunked
<1>5. PICK k \in 0 .. Len(r.chunks) :
        /\ body = Taken(r, k) /\ k < Len(r.chunks) /\ piece = r.chunks[k + 1]
        /\ ahead = Cat(EndOfLine, LeftOf(r, k + 1))
  BY <1>1, <1>2, <1>3 DEF InChunked, InTrailer, InChunk, InData
<1> DEFINE new == LeftOf(r, k + 1)
<1>6. /\ new \in Seq(Atom) /\ k + 1 \in 0 .. Len(r.chunks)
      /\ Taken(r, k + 1) = Cat(Taken(r, k), r.chunks[k + 1])
  BY <1>4, <1>5, LeftStep
<1> HIDE DEF new
<1>7. PICK l \in Seq(Atom) : l = << >>
  BY EmptySeq
<1>8. Line = << >> /\ Cat(Coming', lost) = Cat(new, rest)
  <2>1. EndOfLine \in Seq(Atom) /\ LineOf(l) = EndOfLine
    BY <1>7, LineIsAtoms DEF EndOfLine
  <2>2. Cat(Cat(EndOfLine, new), rest) = Cat(EndOfLine, Cat(new, rest))
        /\ Cat(new, rest) \in Seq(Atom)
    BY <1>6, <2>1, CatAssociative, CatType
  <2>3. Cat(Coming, lost) = Cat(LineOf(l), Cat(new, rest))
    BY <1>5, <2>1, <2>2 DEF new
  <2>4. \A i \in 1 .. Len(l) : l[i] # Crlf
    BY <1>7
  <2>5. Line = l /\ Cat(Coming', lost) = Cat(new, rest)
    BY <1>2, <2>2, <2>3, <2>4, LineRead
  <2> QED
    BY <1>7, <2>5
<1>9. pc' = "size" /\ body' = Cat(body, piece)
  BY <1>8 DEF ReadChunkEnd, Cat
<1>10. InChunk(k + 1, new)'
  BY <1>2, <1>5, <1>6, <1>9 DEF InChunk, new
<1>11. InChunked(new)'
  BY <1>2, <1>4, <1>6, <1>10 DEF InChunked
<1> QED
  BY <1>6, <1>8, <1>11 DEF Position

LEMMA ReadTrailerMoves ==
  ASSUME Types, cur \in Request, NEW ahead \in Seq(Atom),
         NEW lost \in Seq(Atom), NEW rest \in Seq(Atom),
         Position(ahead), Cat(Coming, lost) = Cat(ahead, rest), ReadTrailer
  PROVE  \E new \in Seq(Atom) : Position(new)' /\ Cat(Coming', lost) = Cat(new, rest)
<1>1. PICK r \in Request : r = cur
  OBVIOUS
<1>2. /\ pc = "trailer" /\ ReadLine("trailer") /\ cur' = r /\ body' = body
  BY <1>1 DEF ReadTrailer, ReadLine
<1>3. InChunked(ahead)
  BY <1>2 DEF Position, InPut, InHandler, InFixed, InData
<1>4. /\ r.framing = "chunked" /\ r.kind # "plain" /\ body = Body(r)
      /\ ahead \in {Cat(Field(r), LineOf(<< >>)), LineOf(<< >>)}
  BY <1>1, <1>2, <1>3 DEF InChunked, InTrailer, InChunk, InData
<1>5. ASSUME NEW l \in Seq(Atom), NEW new \in Seq(Atom),
             \A i \in 1 .. Len(l) : l[i] # Crlf, ahead = Cat(LineOf(l), new)
      PROVE  Line = l /\ Cat(Coming', lost) = Cat(new, rest)
  BY <1>2, <1>5, LineComes, SMTT(60)
<1>6. PICK none \in Seq(Atom) : none = << >>
  BY EmptySeq
<1>7. LineOf(none) \in Seq(Atom) /\ Cat(LineOf(none), none) = LineOf(none)
      /\ Cat(none, LineOf(none)) = LineOf(none)
  BY <1>6, LineIsAtoms, CatEmpty
<1>8. CASE ahead = LineOf(none)
  <2>1. \A i \in 1 .. Len(none) : none[i] # Crlf
    BY <1>6
  <2>2. Line = none /\ Cat(Coming', lost) = Cat(none, rest)
    BY <1>5, <1>7, <1>8, <2>1
  <2>3. pc' = "handle"
    BY <1>6, <2>2 DEF ReadTrailer
  <2>4. InHandler(none)'
    BY <1>2, <1>4, <1>6, <2>3 DEF InHandler
  <2> QED
    BY <2>2, <2>4 DEF Position
<1>9. CASE ahead # LineOf(none)
  <2>1. ahead = Cat(Field(r), LineOf(none)) /\ Field(r) # none
    BY <1>4, <1>6, <1>7, <1>9
  <2> DEFINE l == <<Data("field")>>
  <2>2. Data("field") # Crlf /\ l \in Seq(Atom) /\ Field(r) = LineOf(l)
    BY <1>6, <2>1, LastChunkIsLines
  <2>3. \A i \in 1 .. Len(l) : l[i] # Crlf
    BY <2>2
  <2>4. l # << >>
    OBVIOUS
  <2> HIDE DEF l
  <2>5. Line = l /\ Cat(Coming', lost) = Cat(LineOf(none), rest)
    BY <1>5, <1>7, <2>1, <2>2, <2>3
  <2>6. pc' = "trailer"
    BY <2>4, <2>5 DEF ReadTrailer
  <2>7. InTrailer(LineOf(none))'
    BY <1>2, <1>4, <1>6, <2>6 DEF InTrailer
  <2>8. InChunked(LineOf(none))'
    BY <1>2, <1>4, <2>7 DEF InChunked
  <2> QED
    BY <1>7, <2>5, <2>8 DEF Position
<1> QED
  BY <1>8, <1>9

-----------------------------------------------------------------------------
(* As long as no body has been left unread, the session knows where it is  *)
(* in the requests that were sent: what is still to come, with what was    *)
(* lost when the connection broke, is the rest of the request it has begun *)
(* and all that were sent after it.                                        *)
Begun == IF pc = "head" THEN Len(handled) ELSE Len(handled) + 1

Located ==
  /\ Begun <= Len(sent)
  /\ pc # "head" => cur = sent[Begun]
  /\ \E ahead \in Seq(Atom), lost \in Seq(Atom) :
       /\ gone \/ lost = << >>
       /\ Position(ahead)
       /\ Cat(Coming, lost) = Cat(ahead, After(Begun))

ClosedIsEmpty == pc = "closed" => buf = << >> /\ wire = << >> /\ held = << >>

KnowsPlace ==
  /\ Reading /\ Ignored = {} => Located
  /\ ClosedIsEmpty

LEMMA LocatedFacts ==
  ASSUME Types, Located
  PROVE  /\ Begun \in 0 .. Len(sent) /\ Begun \in Nat /\ Len(sent) \in Nat
         /\ After(Begun) \in Seq(Atom)
         /\ pc # "head" => Begun \in 1 .. Len(sent) /\ cur \in Request
<1>1. Len(sent) \in Nat /\ Len(handled) \in Nat
  BY LenProperties DEF Types
<1>2. Begun \in 0 .. Len(sent) /\ (pc # "head" => Begun \in 1 .. Len(sent))
  BY <1>1 DEF Begun, Located
<1>3. After(Begun) \in Seq(Atom)
  BY <1>2, StreamStep DEF After, Types
<1>4. pc # "head" => cur \in Request
  BY <1>2, ElementOfSeq DEF Types, Located
<1> QED
  BY <1>1, <1>2, <1>3, <1>4

(* A place in a request does not change while the session does not.        *)
LEMMA PositionStays ==
  ASSUME NEW ahead, Position(ahead), UNCHANGED <<pc, cur, body, piece, need>>
  PROVE  Position(ahead)'
<1>1. CASE pc = "head" /\ ahead = << >>
  BY <1>1 DEF Position
<1>2. CASE InPut(ahead)
  BY <1>2 DEF Position, InPut
<1>3. CASE InHandler(ahead)
  BY <1>3 DEF Position, InHandler
<1>4. ASSUME NEW d, NEW after, InData(d, after, ahead) PROVE InData(d, after, ahead)'
  BY <1>4 DEF InData
<1>5. CASE InFixed(ahead)
  BY <1>4, <1>5 DEF Position, InFixed
<1>6. CASE InChunked(ahead)
  <2>1. CASE InTrailer(ahead)
    <3>1. InTrailer(ahead)'
      BY <2>1 DEF InTrailer
    <3> QED
      BY <1>6, <3>1 DEF Position, InChunked
  <2>2. ASSUME NEW k \in 0 .. Len(cur.chunks), InChunk(k, ahead) PROVE InChunk(k, ahead)'
    <3>1. cur' = cur /\ pc' = pc /\ piece' = piece /\ body' = body
      OBVIOUS
    <3> QED
      BY <1>4, <2>2, <3>1 DEF InChunk
  <2> QED
    BY <1>6, <2>1, <2>2 DEF Position, InChunked
<1> QED
  BY <1>1, <1>2, <1>3, <1>5, <1>6 DEF Position

(* Nor does what is still to come, when it only moves on.                  *)
LEMMA ReceiveBrings == ASSUME Types, Receive PROVE Coming' = Coming
<1>1. PICK n \in 1 .. Len(wire) :
        buf' = buf \o SubSeq(wire, 1, n) /\ wire' = SubSeq(wire, n + 1, Len(wire))
  BY DEF Receive
<1> DEFINE first == SubSeq(wire, 1, n)
<1>2. /\ first \in Seq(Atom) /\ wire' \in Seq(Atom) /\ Cat(first, wire') = wire
  <2>1. n \in 0 .. Len(wire)
    BY <1>1, LenProperties DEF Types
  <2> QED
    BY <1>1, <2>1, CutInTwo DEF Cat, Types
<1>3. buf' = Cat(buf, first) /\ held' = held /\ buf \in Seq(Atom) /\ held \in Seq(Atom)
  BY <1>1 DEF Receive, Cat, Types
<1> HIDE DEF first
<1>4. Cat(wire', held) \in Seq(Atom)
  BY <1>2, <1>3, CatType
<1>5. Cat(Cat(buf, first), Cat(wire', held)) = Cat(buf, Cat(first, Cat(wire', held)))
  BY <1>2, <1>3, <1>4, CatAssociative
<1>6. Cat(Cat(first, wire'), held) = Cat(first, Cat(wire', held))
  BY <1>2, <1>3, CatAssociative
<1> QED
  BY <1>2, <1>3, <1>5, <1>6 DEF Coming

LEMMA SendBodyBrings == ASSUME Types, SendBody PROVE Coming' = Coming
<1>1. wire' = Cat(wire, held) /\ held' = << >> /\ buf' = buf
  BY DEF SendBody, session, Cat
<1>2. Cat(wire, held) \in Seq(Atom)
  BY ComingIsAtoms
<1>3. Cat(wire', held') = Cat(wire, held)
  BY <1>1, <1>2, CatEmpty
<1> QED
  BY <1>1, <1>3 DEF Coming

LEMMA TransportKnows ==
  ASSUME Types, Located, Receive \/ SendBody
  PROVE  Located'
<1>1. Coming' = Coming
  BY ReceiveBrings, SendBodyBrings
<1>2. UNCHANGED <<pc, cur, body, piece, need, handled, gone, sent>>
  BY DEF Receive, SendBody, session
<1>3. Begun' = Begun /\ After(Begun)' = After(Begun)
  BY <1>2 DEF Begun, After
<1>4. PICK ahead \in Seq(Atom), lost \in Seq(Atom) :
        /\ gone \/ lost = << >>
        /\ Position(ahead)
        /\ Cat(Coming, lost) = Cat(ahead, After(Begun))
  BY DEF Located
<1>5. Position(ahead)'
  BY <1>2, <1>4, PositionStays
<1> QED
  BY <1>1, <1>2, <1>3, <1>4, <1>5 DEF Located

(* The steps of a body.                                                    *)
LEMMA BodyKnows ==
  ASSUME Types, Located, Reading',
         \/ AcceptPut \/ TakeBuffered \/ ReadPiece \/ EndFixed
         \/ ReadSize \/ ReadChunkEnd \/ ReadTrailer
  PROVE  Located'
<1>1. pc # "head" /\ UNCHANGED <<cur, handled, gone, sent>>
  BY DEF AcceptPut, TakeBuffered, ReadPiece, EndFixed, ReadSize, ReadChunkEnd,
         ReadTrailer, ReadLine, client
<1>2. cur \in Request /\ cur = sent[Begun] /\ Begun <= Len(sent)
  BY <1>1, LocatedFacts DEF Located
<1>3. pc' # "head"
  <2>1. cur.framing \in Framing
    BY <1>2, StreamAssumption
  <2> QED
    BY <2>1 DEF AcceptPut, StartBody, TakeBuffered, ReadPiece, EndFixed, ReadSize,
       ReadChunkEnd, ReadTrailer, Framing
<1>4. Begun' = Begun /\ After(Begun)' = After(Begun)
  BY <1>1, <1>3 DEF Begun, After
<1>5. PICK rest \in Seq(Atom) : rest = After(Begun)
  BY LocatedFacts
<1>6. PICK ahead \in Seq(Atom), lost \in Seq(Atom) :
        /\ gone \/ lost = << >>
        /\ Position(ahead)
        /\ Cat(Coming, lost) = Cat(ahead, rest)
  BY <1>5 DEF Located
<1>7. \E new \in Seq(Atom) : Position(new)' /\ Cat(Coming', lost) = Cat(new, rest)
  <2>1. CASE AcceptPut
    BY <1>2, <1>6, <2>1, AcceptPutMoves
  <2>2. CASE TakeBuffered \/ ReadPiece
    BY <1>2, <1>6, <2>2, TakingMoves
  <2>3. CASE EndFixed
    BY <1>2, <1>6, <2>3, EndFixedMoves
  <2>4. CASE ReadSize
    BY <1>2, <1>6, <2>4, ReadSizeMoves
  <2>5. CASE ReadChunkEnd
    BY <1>2, <1>6, <2>5, ReadChunkEndMoves
  <2>6. CASE ReadTrailer
    BY <1>2, <1>6, <2>6, ReadTrailerMoves
  <2> QED
    BY <2>1, <2>2, <2>3, <2>4, <2>5, <2>6
<1>8. PICK new \in Seq(Atom) : Position(new)' /\ Cat(Coming', lost) = Cat(new, rest)
  BY <1>7
<1> QED
  BY <1>1, <1>2, <1>4, <1>5, <1>6, <1>8 DEF Located

(* The next request.                                                       *)
LEMMA ReadRequestKnows ==
  ASSUME Types, Located, ReadRequest
  PROVE  Located'
<1>1. pc = "head" /\ UNCHANGED <<handled, gone, sent>> /\ body' = << >>
  BY DEF ReadRequest, client
<1>2. PICK n \in 0 .. Len(sent) : n = Begun
  BY LocatedFacts
<1>3. n = Len(handled) /\ n \in Nat /\ Len(sent) \in Nat
  BY <1>1, <1>2, LocatedFacts DEF Begun
<1>4. PICK lost \in Seq(Atom) : (gone \/ lost = << >>) /\ Cat(Coming, lost) = After(n)
  <2>1. PICK ahead \in Seq(Atom), lost \in Seq(Atom) :
          /\ gone \/ lost = << >>
          /\ Position(ahead)
          /\ Cat(Coming, lost) = Cat(ahead, After(Begun))
    BY DEF Located
  <2>2. ahead = << >>
    BY <1>1, <2>1 DEF Position, InPut, InHandler, InFixed, InChunked, InTrailer,
                      InChunk, InData
  <2>3. After(n) \in Seq(Atom)
    BY <1>2, LocatedFacts
  <2> QED
    BY <1>2, <2>1, <2>2, <2>3, CatEmpty
<1>5. n # Len(sent)
  <2>1. SUFFICES ASSUME n = Len(sent) PROVE FALSE
    OBVIOUS
  <2>2. Cat(Coming, lost) = << >>
    BY <1>2, <1>4, <2>1, StreamStep DEF After, Types
  <2>3. Len(Cat(Coming, lost)) >= Len(buf) /\ Len(buf) \in Nat
    <3>1. Coming \in Seq(Atom) /\ Cat(wire, held) \in Seq(Atom) /\ buf \in Seq(Atom)
      BY ComingIsAtoms DEF Types
    <3>2. Len(Coming) = Len(buf) + Len(Cat(wire, held))
          /\ Len(Cat(wire, held)) \in Nat /\ Len(buf) \in Nat
      BY <3>1, CatType DEF Coming
    <3>3. Len(Cat(Coming, lost)) = Len(Coming) + Len(lost) /\ Len(lost) \in Nat
      BY <3>1, CatType
    <3> QED
      BY <3>2, <3>3
  <2>4. Len(buf) = 0
    BY <2>2, <2>3
  <2>5. HeaderEnds = {}
    BY <2>4 DEF HeaderEnds
  <2> QED
    BY <2>5 DEF ReadRequest
<1>6. /\ n < Len(sent) /\ sent[n + 1] \in Request /\ After(n + 1) \in Seq(Atom)
      /\ After(n) = Cat(Bytes(sent[n + 1]), After(n + 1))
  <2>1. n < Len(sent)
    BY <1>3, <1>5
  <2> QED
    BY <1>2, <2>1, StreamStep DEF After, Types
<1>7. PICK r \in Request : r = sent[n + 1]
  BY <1>6
<1>8. PICK rest \in Seq(Atom) : rest = After(n + 1)
  BY <1>6
<1>9. Header(r) \in Seq(Atom) /\ BodyBytes(r) \in Seq(Atom)
  BY HeaderIsAtoms, BodyBytesIsAtoms
<1>10. Cat(Coming, lost) = Cat(Header(r), Cat(BodyBytes(r), rest))
  <2>1. Cat(Cat(Header(r), BodyBytes(r)), rest) = Cat(Header(r), Cat(BodyBytes(r), rest))
    BY <1>9, CatAssociative
  <2> QED
    BY <1>4, <1>6, <1>7, <1>8, <2>1 DEF Bytes
<1>11. PICK e \in Seq(Atom) : e = Cat(BodyBytes(r), rest)
  BY <1>9, CatType
<1>12. cur' = r /\ Cat(Coming', lost) = e
  <2>1. Cat(Coming, lost) = Cat(Header(r), e)
    BY <1>10, <1>11
  <2> QED
    BY <2>1, HeaderRead
<1>13. \/ r.kind = "plain" /\ pc' = "handle"
       \/ r.kind = "put" /\ pc' = "put"
       \/ r.kind \in {"body", "lost"} /\ StartBody(r)
  <2>1. cur' = Parsed(UpTo(First(HeaderEnds) - 1))
    BY DEF ReadRequest
  <2>2. Parsed(UpTo(First(HeaderEnds) - 1)) = r
    BY <1>12, <2>1
  <2> QED
    BY <2>2 DEF ReadRequest
<1>14. Position(BodyBytes(r))'
  <2>1. CASE r.kind = "plain" /\ pc' = "handle"
    BY <1>1, <1>12, <2>1 DEF Position, InHandler
  <2>2. CASE r.kind = "put" /\ pc' = "put"
    BY <1>1, <1>12, <2>2 DEF Position, InPut
  <2>3. CASE r.kind \in {"body", "lost"} /\ StartBody(r)
    <3>1. r.kind # "plain"
      BY <2>3
    <3> QED
      BY <1>1, <1>12, <2>3, <3>1, StartBodyMoves
  <2> QED
    BY <1>13, <2>1, <2>2, <2>3
<1>15. pc' # "head"
  <2>1. r.framing \in Framing
    BY StreamAssumption
  <2> QED
    BY <1>13, <2>1 DEF StartBody, Framing
<1>16. Begun' = n + 1 /\ After(Begun)' = rest
  BY <1>1, <1>3, <1>8, <1>15 DEF Begun, After
<1>17. Begun' <= Len(sent)' /\ cur' = sent'[Begun']
  BY <1>1, <1>3, <1>6, <1>7, <1>12, <1>16
<1> QED
  BY <1>1, <1>4, <1>9, <1>11, <1>12, <1>14, <1>16, <1>17 DEF Located

(* An answer: nothing of the request is left, unless its body is ignored.  *)
LEMMA Answering ==
  ASSUME Types, Handle
  PROVE  /\ Len(handled') = Len(handled) + 1 /\ Len(handled) \in Nat
         /\ \A i \in 1 .. Len(handled) : handled'[i] = handled[i]
         /\ handled'[Len(handled) + 1] = [req |-> cur, body |-> body]
         /\ Ignored \subseteq Ignored'
         /\ Ignored' \subseteq Ignored \union {Len(handled) + 1}
         /\ Len(handled) + 1 \in Ignored' <=> Unread(cur)
<1> DEFINE a == [req |-> cur, body |-> body]
<1>1. a \in Answered /\ handled' = Append(handled, a) /\ a.req = cur
  BY DEF Types, Answered, Handle
<1> HIDE DEF a
<1>2. /\ handled' \in Seq(Answered) /\ Len(handled') = Len(handled) + 1
      /\ \A i \in 1 .. Len(handled) : handled'[i] = handled[i]
      /\ handled'[Len(handled) + 1] = a
      /\ Len(handled) \in Nat
  BY <1>1, AppendProperties, LenProperties DEF Types
<1>3. DOMAIN handled = 1 .. Len(handled) /\ DOMAIN handled' = 1 .. Len(handled')
  BY <1>2, LenProperties DEF Types
<1>4. DOMAIN handled' = 1 .. Len(handled) + 1
  BY <1>2, <1>3
<1>5. Ignored' = {i \in DOMAIN handled' : Unread(handled'[i].req)}
  BY DEF Ignored, Unread
<1>6. /\ 1 .. Len(handled) \subseteq 1 .. Len(handled) + 1
      /\ Len(handled) + 1 \in 1 .. Len(handled) + 1
      /\ \A i \in 1 .. Len(handled) + 1 : i \in 1 .. Len(handled) \/ i = Len(handled) + 1
  BY <1>2
<1>7. Ignored \subseteq Ignored'
  BY <1>2, <1>3, <1>4, <1>5, <1>6 DEF Ignored
<1>8. Ignored' \subseteq Ignored \union {Len(handled) + 1}
  BY <1>2, <1>3, <1>4, <1>5, <1>6 DEF Ignored
<1>9. Len(handled) + 1 \in Ignored' <=> Unread(cur)
  BY <1>1, <1>2, <1>4, <1>5, <1>6
<1> QED
  BY <1>2, <1>7, <1>8, <1>9 DEF a

LEMMA HandleKnows ==
  ASSUME Types, Located, Handle, Reading', Ignored' = {}
  PROVE  Located'
<1>1. pc = "handle" /\ pc' = "head" /\ UNCHANGED <<buf, wire, held, gone, sent>>
  BY DEF Handle, Reading, client
<1>2. Len(handled') = Len(handled) + 1 /\ ~Unread(cur)
  BY Answering
<1>3. Begun' = Begun /\ After(Begun)' = After(Begun)
  BY <1>1, <1>2 DEF Begun, After
<1>4. PICK ahead \in Seq(Atom), lost \in Seq(Atom) :
        /\ gone \/ lost = << >>
        /\ Position(ahead)
        /\ Cat(Coming, lost) = Cat(ahead, After(Begun))
  BY DEF Located
<1>5. ahead = << >>
  <2>1. InHandler(ahead)
    BY <1>1, <1>4 DEF Position, InPut, InFixed, InChunked, InTrailer, InChunk, InData
  <2> QED
    BY <1>2, <2>1 DEF InHandler, Unread
<1>6. Position(ahead)'
  BY <1>1, <1>5 DEF Position
<1>7. Coming' = Coming
  BY <1>1 DEF Coming
<1>8. Begun <= Len(sent)
  BY DEF Located
<1> QED
  BY <1>1, <1>3, <1>4, <1>6, <1>7, <1>8 DEF Located

(* A request that is sent comes after all that is still to come.           *)
LEMMA SendBrings ==
  ASSUME Types, NEW r \in Request, Send(r)
  PROVE  Coming' = Cat(Coming, Bytes(r))
<1> DEFINE now == IF r.expect THEN << >> ELSE BodyBytes(r)
           later == IF r.expect THEN BodyBytes(r) ELSE << >>
<1>1. /\ held = << >> /\ buf' = buf
      /\ wire' = Cat(Cat(wire, Header(r)), now) /\ held' = later
  BY DEF Send, session, Cat
<1>2. /\ Header(r) \in Seq(Atom) /\ BodyBytes(r) \in Seq(Atom)
      /\ buf \in Seq(Atom) /\ wire \in Seq(Atom)
  BY HeaderIsAtoms, BodyBytesIsAtoms DEF Types
<1>3. now \in Seq(Atom) /\ later \in Seq(Atom) /\ Cat(now, later) = BodyBytes(r)
  BY <1>2, CatEmpty, EmptySeq
<1> HIDE DEF now, later
<1>4. Cat(wire, Header(r)) \in Seq(Atom) /\ Bytes(r) \in Seq(Atom)
  BY <1>2, BytesIsAtoms, CatType
<1>5. Cat(wire', held') = Cat(Cat(wire, Header(r)), BodyBytes(r))
  BY <1>1, <1>3, <1>4, CatAssociative
<1>6. Cat(Cat(wire, Header(r)), BodyBytes(r)) = Cat(wire, Bytes(r))
  BY <1>2, CatAssociative DEF Bytes
<1>7. Cat(Cat(buf, wire), Bytes(r)) = Cat(buf, Cat(wire, Bytes(r)))
  BY <1>2, <1>4, CatAssociative
<1>8. Cat(wire, held) = wire
  BY <1>1, <1>2, CatEmpty
<1> QED
  BY <1>1, <1>5, <1>6, <1>7, <1>8 DEF Coming

LEMMA SendKnows ==
  ASSUME Types, Located, NEW r \in Request, Send(r)
  PROVE  Located'
<1>1. /\ ~gone /\ sent' = Append(sent, r)
      /\ UNCHANGED <<pc, cur, body, piece, need, handled, gone>>
  BY DEF Send, session
<1>2. PICK ahead \in Seq(Atom), lost \in Seq(Atom) :
        /\ gone \/ lost = << >>
        /\ Position(ahead)
        /\ Cat(Coming, lost) = Cat(ahead, After(Begun))
  BY DEF Located
<1>3. Coming \in Seq(Atom) /\ Bytes(r) \in Seq(Atom) /\ After(Begun) \in Seq(Atom)
  BY ComingIsAtoms, BytesIsAtoms, LocatedFacts
<1>4. lost = << >> /\ Coming = Cat(ahead, After(Begun))
  BY <1>1, <1>2, <1>3, CatEmpty
<1>5. Begun' = Begun
  BY <1>1 DEF Begun
<1>6. After(Begun)' = Cat(After(Begun), Bytes(r))
  BY <1>1, <1>5, LocatedFacts, StreamAppend DEF After, Types
<1>7. Cat(Cat(ahead, After(Begun)), Bytes(r)) = Cat(ahead, Cat(After(Begun), Bytes(r)))
  BY <1>2, <1>3, CatAssociative
<1>8. Coming' = Cat(ahead, After(Begun)')
  BY <1>4, <1>6, <1>7, SendBrings
<1>9. Coming' \in Seq(Atom)
  BY <1>3, <1>4, SendBrings, CatType
<1>10. Cat(Coming', lost) = Cat(ahead, After(Begun)')
  BY <1>4, <1>8, <1>9, CatEmpty
<1>11. Position(ahead)'
  BY <1>1, <1>2, PositionStays
<1>12. /\ Len(sent') = Len(sent) + 1 /\ Len(sent) \in Nat
       /\ \A i \in 1 .. Len(sent) : sent'[i] = sent[i]
  BY <1>1, AppendProperties, LenProperties DEF Types
<1>13. Begun' <= Len(sent')
  BY <1>5, <1>12, LocatedFacts
<1>14. pc' # "head" => cur' = sent'[Begun']
  BY <1>1, <1>5, <1>12, LocatedFacts DEF Located
<1> QED
  BY <1>1, <1>2, <1>4, <1>10, <1>11, <1>13, <1>14 DEF Located

(* What a broken connection does not deliver is lost from the end.         *)
LEMMA HangupKnows ==
  ASSUME Types, Located, Hangup
  PROVE  Located'
<1>1. /\ ~gone /\ gone' = TRUE /\ held' = << >>
      /\ UNCHANGED <<pc, buf, cur, body, piece, need, handled, sent>>
  BY DEF Hangup, session
<1>2. Begun' = Begun /\ After(Begun)' = After(Begun)
  BY <1>1 DEF Begun, After
<1>3. PICK ahead \in Seq(Atom), lost \in Seq(Atom) :
        /\ gone \/ lost = << >>
        /\ Position(ahead)
        /\ Cat(Coming, lost) = Cat(ahead, After(Begun))
  BY DEF Located
<1>4. PICK k \in 0 .. Len(wire) : wire' = SubSeq(wire, 1, k)
  BY DEF Hangup
<1> DEFINE dropped == SubSeq(wire, k + 1, Len(wire))
<1>5. wire' \in Seq(Atom) /\ dropped \in Seq(Atom) /\ wire = Cat(wire', dropped)
  BY <1>4, CutInTwo DEF Cat, Types
<1> HIDE DEF dropped
<1>6. buf \in Seq(Atom) /\ held \in Seq(Atom) /\ Coming \in Seq(Atom)
  BY ComingIsAtoms DEF Types
<1>7. Cat(dropped, held) \in Seq(Atom)
  BY <1>5, <1>6, CatType
<1>8. Coming' = Cat(buf, wire')
  BY <1>1, <1>5, CatEmpty DEF Coming
<1>9. Coming = Cat(Coming', Cat(dropped, held))
  <2>1. Cat(Cat(wire', dropped), held) = Cat(wire', Cat(dropped, held))
    BY <1>5, <1>6, CatAssociative
  <2>2. Cat(Cat(buf, wire'), Cat(dropped, held)) = Cat(buf, Cat(wire', Cat(dropped, held)))
    BY <1>5, <1>6, <1>7, CatAssociative
  <2> QED
    BY <1>5, <1>8, <2>1, <2>2 DEF Coming
<1>10. Cat(Coming, lost) = Coming
  BY <1>1, <1>3, <1>6, CatEmpty
<1>11. Cat(Coming', Cat(dropped, held)) = Cat(ahead, After(Begun)')
  BY <1>2, <1>3, <1>9, <1>10
<1>12. Position(ahead)'
  BY <1>1, <1>3, PositionStays
<1>13. Begun' <= Len(sent') /\ (pc' # "head" => cur' = sent'[Begun'])
  BY <1>1, <1>2 DEF Located
<1> QED
  BY <1>1, <1>3, <1>7, <1>11, <1>12, <1>13 DEF Located

(* A new connection: nothing has been sent, and nothing is left of the     *)
(* last one.                                                               *)
LEMMA OpenKnows ==
  ASSUME Types, ClosedIsEmpty, Open
  PROVE  Located'
<1>1. /\ pc' = "head" /\ handled' = << >> /\ sent' = << >>
      /\ buf' = << >> /\ wire' = << >> /\ held' = << >>
  BY DEF Open, ClosedIsEmpty
<1>2. PICK none \in Seq(Atom) : none = << >>
  BY EmptySeq
<1>3. Cat(none, none) = none
  BY <1>2, CatEmpty
<1>4. Coming' = none
  BY <1>1, <1>2, <1>3 DEF Coming
<1>5. Begun' = 0 /\ Len(sent') = 0
  BY <1>1 DEF Begun
<1>6. After(Begun)' = none
  <2>1. sent' \in Seq(Request) /\ 0 \in 0 .. Len(sent')
    BY <1>1, <1>5, EmptySeq
  <2>2. Remaining(Stream(sent'), 0) = << >>
    BY <1>5, <2>1, StreamStep
  <2> QED
    BY <1>2, <1>5, <2>2 DEF After
<1>7. Position(none)'
  BY <1>1, <1>2 DEF Position
<1>8. Cat(Coming', none) = Cat(none, After(Begun)')
  BY <1>3, <1>4, <1>6
<1>9. Begun' <= Len(sent')
  BY <1>5
<1> QED
  BY <1>1, <1>2, <1>7, <1>8, <1>9 DEF Located

LEMMA KnowsPlaceStep == Types /\ KnowsPlace /\ [Next]_vars => KnowsPlace'
<1> SUFFICES ASSUME Types, KnowsPlace, [Next]_vars PROVE KnowsPlace'
  OBVIOUS
<1>1. ASSUME UNCHANGED handled PROVE Ignored' = Ignored
  BY <1>1 DEF Ignored, Unread
<1>2. CASE Receive \/ SendBody
  <2>1. UNCHANGED <<pc, handled>> /\ pc # "closed"
    BY <1>2 DEF Receive, Waiting, ReadsLine, SendBody, session, KnowsPlace, ClosedIsEmpty
  <2>2. Reading' /\ Ignored' = {} => Located'
    BY <1>1, <1>2, <2>1, TransportKnows DEF KnowsPlace, Reading
  <2> QED
    BY <2>1, <2>2 DEF KnowsPlace, ClosedIsEmpty
<1>3. CASE \/ ReadRequest \/ AcceptPut \/ TakeBuffered \/ ReadPiece \/ EndFixed
           \/ ReadSize \/ ReadChunkEnd \/ ReadTrailer
  <2>1. UNCHANGED handled /\ Reading
    BY <1>3 DEF ReadRequest, AcceptPut, TakeBuffered, ReadPiece, EndFixed, ReadSize,
       ReadChunkEnd, ReadTrailer, ReadLine, client, Reading
  <2>2. Reading' /\ Ignored' = {} => Located'
    BY <1>1, <1>3, <2>1, ReadRequestKnows, BodyKnows DEF KnowsPlace
  <2>3. pc' # "closed"
    <3>1. CASE ReadRequest
      <4>1. Parsed(UpTo(First(HeaderEnds) - 1)).framing \in Framing
        <5>1. cur' \in Request \union Garbles
          BY <1>3, <3>1, ReadRequestTypes DEF Types
        <5>2. cur'.framing \in Framing
          <6>1. CASE cur' \in Request
            BY <6>1, StreamAssumption
          <6>2. CASE cur' \in Garbles
            BY <6>2 DEF Garbles, Garbled, Framing
          <6> QED
            BY <5>1, <6>1, <6>2
        <5>3. cur' = Parsed(UpTo(First(HeaderEnds) - 1))
          BY <3>1 DEF ReadRequest
        <5> QED
          BY <5>2, <5>3
      <4> QED
        BY <3>1, <4>1 DEF ReadRequest, StartBody, Framing
    <3>2. CASE AcceptPut
      <4>1. cur.framing \in Framing
        BY StreamAssumption DEF Types, Garbles, Garbled, Framing
      <4> QED
        BY <3>2, <4>1 DEF AcceptPut, StartBody, Framing
    <3> QED
      BY <1>3, <3>1, <3>2 DEF TakeBuffered, ReadPiece, EndFixed, ReadSize,
         ReadChunkEnd, ReadTrailer
  <2> QED
    BY <2>2, <2>3 DEF KnowsPlace, ClosedIsEmpty
<1>4. CASE Handle
  <2>1. Reading /\ pc' # "closed"
    BY <1>4 DEF Handle, Reading
  <2>2. Reading' /\ Ignored' = {} => Located'
    BY <1>4, <2>1, HandleKnows, Answering DEF KnowsPlace
  <2> QED
    BY <2>1, <2>2 DEF KnowsPlace, ClosedIsEmpty
<1>5. CASE ReadFails \/ RefusePut \/ HandlerThrows
  BY <1>5 DEF ReadFails, RefusePut, HandlerThrows, KnowsPlace, ClosedIsEmpty, Reading
<1>6. CASE Stop
  BY <1>6 DEF Stop, KnowsPlace, ClosedIsEmpty, Reading
<1>7. ASSUME NEW r \in Request, Send(r) PROVE KnowsPlace'
  <2>1. UNCHANGED <<pc, handled>> /\ pc # "closed"
    BY <1>7 DEF Send, session
  <2>2. Reading' /\ Ignored' = {} => Located'
    BY <1>1, <1>7, <2>1, SendKnows DEF KnowsPlace, Reading
  <2> QED
    BY <2>1, <2>2 DEF KnowsPlace, ClosedIsEmpty
<1>8. CASE Hangup
  <2>1. UNCHANGED <<pc, handled>> /\ pc # "closed"
    BY <1>8 DEF Hangup, session
  <2>2. Reading' /\ Ignored' = {} => Located'
    BY <1>1, <1>8, <2>1, HangupKnows DEF KnowsPlace, Reading
  <2> QED
    BY <2>1, <2>2 DEF KnowsPlace, ClosedIsEmpty
<1>9. CASE Open
  <2>1. Located'
    BY <1>9, OpenKnows DEF KnowsPlace
  <2> QED
    BY <1>9, <2>1 DEF Open, KnowsPlace, ClosedIsEmpty
<1>10. CASE UNCHANGED vars
  <2>1. UNCHANGED <<pc, buf, cur, body, piece, need, handled, wire, held, gone, sent>>
    BY <1>10 DEF vars
  <2>2. Reading' = Reading /\ Ignored' = Ignored
    BY <1>1, <2>1 DEF Reading
  <2>3. Begun' = Begun /\ After(Begun)' = After(Begun) /\ Coming' = Coming
    BY <2>1 DEF Begun, After, Coming
  <2>4. ASSUME Located PROVE Located'
    <3>1. PICK ahead \in Seq(Atom), lost \in Seq(Atom) :
            /\ gone \/ lost = << >>
            /\ Position(ahead)
            /\ Cat(Coming, lost) = Cat(ahead, After(Begun))
      BY <2>4 DEF Located
    <3>2. Position(ahead)'
      BY <2>1, <3>1, PositionStays
    <3> QED
      BY <2>1, <2>3, <2>4, <3>1, <3>2 DEF Located
  <2> QED
    BY <2>1, <2>2, <2>4 DEF KnowsPlace, ClosedIsEmpty
<1> QED
  BY <1>2, <1>3, <1>4, <1>5, <1>6, <1>7, <1>8, <1>9, <1>10
     DEF Next, Serving, Sending, SendBodyTold, SendBodyUntold

LEMMA InitKnowsPlace == Init => KnowsPlace
  BY DEF Init, KnowsPlace, Reading, ClosedIsEmpty

-----------------------------------------------------------------------------
(* Every step of the session is a step of the abstract connection, or none *)
(* that it sees.                                                           *)
LEMMA InStepStays ==
  ASSUME Types, Handle, Ignored # {}
  PROVE  InStep' = InStep
<1> DEFINE n == Len(handled)
           k == First(Ignored)
<1>1. /\ Len(handled') = n + 1 /\ n \in Nat
      /\ \A i \in 1 .. n : handled'[i] = handled[i]
      /\ Ignored \subseteq Ignored'
      /\ Ignored' \subseteq Ignored \union {n + 1}
  BY Answering
<1>2. /\ handled \in Seq(Answered) /\ handled' \in Seq(Answered)
      /\ DOMAIN handled = 1 .. n /\ DOMAIN handled' = 1 .. Len(handled')
  BY OtherTypes, LenProperties DEF Types
<1>3. Ignored \subseteq 1 .. n
  BY <1>2 DEF Ignored
<1>4. k \in Ignored /\ \A j \in Ignored : k <= j
  <2>1. Ignored \subseteq Nat
    BY <1>1, <1>3
  <2> QED
    BY <2>1, FirstIsLeast
<1>5. Ignored' # {} /\ Ignored' \subseteq Nat
  <2>1. Ignored' # {}
    BY <1>1
  <2>2. 1 .. n \subseteq Nat /\ n + 1 \in Nat
    BY <1>1
  <2> QED
    BY <1>1, <1>3, <2>1, <2>2
<1>6. First(Ignored)' \in Ignored' /\ \A j \in Ignored' : First(Ignored)' <= j
  <2> DEFINE S == Ignored'
  <2>1. S # {} /\ S \subseteq Nat
    BY <1>5
  <2> HIDE DEF S
  <2>2. First(S) \in S /\ \A j \in S : First(S) <= j
    BY <2>1, FirstIsLeast
  <2> QED
    BY <2>2 DEF S, First
<1>7. First(Ignored)' = k
  <2>1. k \in 1 .. n /\ k \in Ignored'
    BY <1>1, <1>3, <1>4
  <2>2. First(Ignored)' <= k
    BY <1>6, <2>1
  <2>3. First(Ignored)' \in Ignored
    BY <1>1, <1>6, <2>1, <2>2
  <2>4. k <= First(Ignored)' /\ First(Ignored)' \in 1 .. n
    BY <1>3, <1>4, <2>3
  <2> QED
    BY <2>1, <2>2, <2>4
<1>8. SubSeq(handled', 1, k) = SubSeq(handled, 1, k)
  <2>1. k \in 1 .. n
    BY <1>3, <1>4
  <2> HIDE DEF k
  <2>2. k \in 0 .. Len(handled) /\ k \in 0 .. Len(handled') /\ k \in Nat
    BY <1>1, <2>1
  <2> DEFINE s == SubSeq(handled, 1, k)
             t == SubSeq(handled', 1, k)
  <2>3. /\ s \in Seq(Answered) /\ Len(s) = k /\ \A i \in 1 .. k : s[i] = handled[i]
        /\ t \in Seq(Answered) /\ Len(t) = k /\ \A i \in 1 .. k : t[i] = handled'[i]
    BY <1>2, <2>2, CutInTwo
  <2>4. \A i \in 1 .. k : i \in 1 .. n
    BY <1>1, <2>1
  <2> HIDE DEF s, t
  <2>5. \A i \in 1 .. Len(t) : t[i] = s[i]
    BY <1>1, <2>3, <2>4
  <2>6. t = s
    BY <2>3, <2>5, SeqEqual
  <2> QED
    BY <2>6 DEF s, t
<1> QED
  BY <1>5, <1>7, <1>8 DEF InStep

LEMMA InStepGrows ==
  ASSUME Types, Handle, Ignored = {}
  PROVE  InStep = handled /\ InStep' = handled'
<1> DEFINE n == Len(handled)
<1>1. /\ Len(handled') = n + 1 /\ n \in Nat /\ Ignored' \subseteq {n + 1}
  BY Answering
<1>2. handled' \in Seq(Answered)
  BY OtherTypes DEF Types
<1>3. ASSUME Ignored' # {} PROVE SubSeq(handled', 1, First(Ignored)') = handled'
  <2>1. Ignored' = {n + 1}
    BY <1>1, <1>3
  <2>2. First({n + 1}) = n + 1
    <3>1. {n + 1} \subseteq Nat /\ {n + 1} # {}
      BY <1>1
    <3>2. First({n + 1}) \in {n + 1}
      BY <3>1, FirstIsLeast
    <3> QED
      BY <3>2
  <2>3. First(Ignored)' = n + 1
    BY <2>1, <2>2 DEF First
  <2>4. SubSeq(handled', 1, Len(handled')) = handled'
    BY <1>2, SubSeqFull
  <2> QED
    BY <1>1, <2>3, <2>4
<1> QED
  BY <1>3 DEF InStep

(* An answer is what the abstract connection serves next, as long as no    *)
(* body was left unread, and nothing that it sees from then on.            *)
LEMMA HandleServes ==
  ASSUME Types, KnowsPlace, Handle
  PROVE  Fifo!Serve \/ Fifo!Stop \/ UNCHANGED Fifo!vars
<1>1. /\ pc = "handle" /\ Reading = TRUE /\ sent' = sent
      /\ Reading' \in (IF cur.close THEN {FALSE} ELSE BOOLEAN)
  BY DEF Handle, Reading, EndsConnection, client
<1>2. CASE Ignored # {}
  <2>1. InStep' = InStep
    BY <1>2, InStepStays
  <2>2. Reading' = Reading \/ Reading' = FALSE
    BY <1>1
  <2> QED
    BY <1>1, <2>1, <2>2 DEF Fifo!Stop, Fifo!vars
<1>3. CASE Ignored = {}
  <2>1. InStep = handled /\ InStep' = handled' /\ Located
    BY <1>1, <1>3, InStepGrows DEF KnowsPlace
  <2>2. handled' = Append(handled, [req |-> cur, body |-> body])
    BY DEF Handle
  <2>3. Len(handled) < Len(sent) /\ cur = sent[Len(handled) + 1]
    <3>1. Begun = Len(handled) + 1 /\ Len(handled) \in Nat /\ Len(sent) \in Nat
      BY <1>1, LenProperties DEF Begun, Types
    <3> QED
      BY <1>1, <2>1, <3>1 DEF Located
  <2>4. body = IF cur.kind = "plain" THEN << >> ELSE Body(cur)
    <3>1. PICK ahead \in Seq(Atom) : Position(ahead)
      BY <2>1 DEF Located
    <3>2. InHandler(ahead)
      BY <1>1, <3>1 DEF Position, InPut, InFixed, InChunked, InTrailer, InChunk, InData
    <3> QED
      BY <3>2 DEF InHandler
  <2>5. Fifo!Serve
    BY <1>1, <2>1, <2>2, <2>3, <2>4 DEF Fifo!Serve
  <2> QED
    BY <2>5
<1> QED
  BY <1>2, <1>3

LEMMA InitIsFifo == Init => Fifo!Init
<1> SUFFICES ASSUME Init PROVE Fifo!Init
  OBVIOUS
<1>1. handled = << >> /\ sent = << >> /\ Reading = FALSE
  BY DEF Init, Reading
<1>2. Ignored = {}
  BY <1>1 DEF Ignored
<1> QED
  BY <1>1, <1>2 DEF Fifo!Init, InStep

LEMMA StepIsFifo ==
  ASSUME Types, KnowsPlace, [Next]_vars
  PROVE  Fifo!Next \/ UNCHANGED Fifo!vars
<1>1. ASSUME UNCHANGED handled PROVE InStep' = InStep
  BY <1>1 DEF InStep, Ignored, Unread, First
<1>2. ASSUME UNCHANGED <<handled, sent>>, Reading' => Reading
      PROVE  Fifo!Next \/ UNCHANGED Fifo!vars
  <2>1. InStep' = InStep /\ sent' = sent
    BY <1>1, <1>2
  <2>2. Reading' = Reading \/ (Reading = TRUE /\ Reading' = FALSE)
    BY <1>2 DEF Reading
  <2> QED
    BY <2>1, <2>2 DEF Fifo!Next, Fifo!Stop, Fifo!vars
<1>3. CASE Receive \/ SendBody \/ Hangup
  <2>1. UNCHANGED <<handled, sent, pc>>
    BY <1>3 DEF Receive, SendBody, Hangup, session
  <2> QED
    BY <1>2, <2>1 DEF Reading
<1>4. CASE \/ ReadRequest \/ AcceptPut \/ TakeBuffered \/ ReadPiece \/ EndFixed
           \/ ReadSize \/ ReadChunkEnd \/ ReadTrailer
           \/ RefusePut \/ HandlerThrows \/ ReadFails \/ Stop
  <2>1. UNCHANGED <<handled, sent>> /\ (Reading' => Reading)
    BY <1>4 DEF ReadRequest, AcceptPut, TakeBuffered, ReadPiece, EndFixed, ReadSize,
       ReadChunkEnd, ReadTrailer, ReadLine, RefusePut, HandlerThrows, ReadFails, Stop,
       client, Reading, Waiting, ReadsLine
  <2> QED
    BY <1>2, <2>1
<1>5. CASE Handle
  BY <1>5, HandleServes DEF Fifo!Next
<1>6. ASSUME NEW r \in Request, Send(r) PROVE Fifo!Next
  <2>1. sent' = Append(sent, r) /\ UNCHANGED <<handled, pc>>
    BY <1>6 DEF Send, session
  <2>2. InStep' = InStep /\ Reading' = Reading
    BY <1>1, <2>1 DEF Reading
  <2>3. Fifo!Send(r)
    BY <2>1, <2>2 DEF Fifo!Send
  <2> QED
    BY <2>3 DEF Fifo!Next
<1>7. CASE Open
  <2>1. /\ handled' = << >> /\ sent' = << >> /\ Reading = FALSE /\ Reading' = TRUE
    BY <1>7 DEF Open, Reading
  <2>2. Ignored' = {}
    BY <2>1 DEF Ignored
  <2>3. InStep' = << >>
    BY <2>1, <2>2 DEF InStep
  <2>4. Fifo!Connect
    BY <2>1, <2>3 DEF Fifo!Connect
  <2> QED
    BY <2>4 DEF Fifo!Next
<1>8. CASE UNCHANGED vars
  BY <1>2, <1>8 DEF vars, Reading
<1> QED
  BY <1>3, <1>4, <1>5, <1>6, <1>7, <1>8
     DEF Next, Serving, Sending, SendBodyTold, SendBodyUntold

(* However the bytes of any requests arrive, whatever their bodies contain,*)
(* and whenever the connection breaks, requests are answered in the order  *)
(* in which they were sent, each once and with its own body (up to the     *)
(* first whose body is not read).                                          *)
THEOREM AnswersInOrder == Spec => ImplementsFifo
<1>1. Init => Types /\ KnowsPlace
  BY InitTypes, InitKnowsPlace
<1>2. (Types /\ KnowsPlace) /\ [Next]_vars => (Types /\ KnowsPlace)'
  BY NextTypes, KnowsPlaceStep
<1>3. Types /\ KnowsPlace /\ [Next]_vars => [Fifo!Next]_(Fifo!vars)
  BY StepIsFifo
<1> QED
  BY <1>1, <1>2, <1>3, InitIsFifo, PTL DEF Spec, ImplementsFifo, Fifo!Spec
=============================================================================
