----------------------------- MODULE ByteRange -----------------------------
(***************************************************************************)
(* The Range header of a GET: parse_range and the part of                  *)
(* process_get_request that answers with what it found.                    *)
(*                                                                         *)
(* Numbers are those of the machine: stoull reads an unsigned long long    *)
(* (below WideMod), the result is kept in a size_t (below SizeMod; on a    *)
(* 32-bit build that is less).  The text of the header is abstracted to    *)
(* what std::stoull makes of the two fields around the first dash.         *)
(***************************************************************************)
EXTENDS Integers

CONSTANTS
  SizeMod,   \* 2^w for the w bits of size_t
  WideMod,   \* 2^w for the w bits of unsigned long long
  MaxNumber  \* bound: the largest number a client writes

ASSUME RangeAssumption ==
  /\ SizeMod \in Nat \ {0}
  /\ WideMod \in Nat /\ WideMod >= SizeMod
  /\ MaxNumber \in Nat

VARIABLES
  size,    \* the size of the file
  first,   \* the field before the dash
  last,    \* the field after the dash
  status,  \* 0 until the request is answered, then 206 or 416
  start,   \* the first byte that is sent
  end,     \* the last byte that is sent
  length   \* the Content-Length of the answer

vars == <<size, first, last, status, start, end, length>>

(* A field is empty, or starts with digits (stoull ignores what follows),  *)
(* or with a minus and digits, or with neither.  Only the second one can   *)
(* start with a minus, which is a dash.  A header that does not start with *)
(* "bytes=", holds a comma or has no dash fares like junk.                 *)
Field      == [kind : {"empty", "number", "minus", "junk"}, value : 0 .. MaxNumber]
FirstField == {f \in Field : f.kind # "minus"}

-----------------------------------------------------------------------------
SizeT(n) == n % SizeMod

(* stoull throws where there is no number or one that is too big, and      *)
(* negates modulo 2^w after a minus.                                       *)
Throws(f) == f.kind \in {"empty", "junk"} \/ f.value >= WideMod

Stoull(f) == IF f.kind = "minus" THEN (WideMod - f.value) % WideMod ELSE f.value

Rejected ==
  IF first.kind = "empty"
  THEN Throws(last) \/ Stoull(last) = 0
  ELSE Throws(first) \/ (last.kind # "empty" /\ Throws(last))

(* file_size - 1 wraps around for an empty file.                           *)
LastOfFile == SizeT(size + SizeMod - 1)

(* Mutant: one byte too many for a suffix.                                 *)
FirstByteOneEarly ==
  IF first.kind = "empty"
  THEN IF Stoull(last) >= size THEN 0 ELSE size - Stoull(last) - 1
  ELSE SizeT(Stoull(first))

FirstByte ==
  IF first.kind = "empty"
  THEN IF Stoull(last) > size THEN 0 ELSE size - Stoull(last)
  ELSE SizeT(Stoull(first))

LastByte ==
  IF first.kind = "empty" \/ last.kind = "empty" THEN LastOfFile
  ELSE SizeT(Stoull(last))

(* Mutant: the byte behind the last one is let through.                    *)
SatisfiableOffByOne == ~Rejected /\ FirstByte <= LastByte /\ FirstByte <= size

Satisfiable == ~Rejected /\ FirstByte <= LastByte /\ FirstByte < size

Clipped(e) == IF e >= size THEN size - 1 ELSE e

-----------------------------------------------------------------------------
Init ==
  /\ size \in 0 .. SizeMod - 1
  /\ first \in FirstField
  /\ last \in Field
  /\ status = 0
  /\ start = 0
  /\ end = 0
  /\ length = 0

AnswerPartial ==
  /\ status = 0
  /\ Satisfiable
  /\ status' = 206
  /\ start' = FirstByte
  /\ end' = Clipped(LastByte)
  /\ length' = SizeT(end' - start' + 1)
  /\ UNCHANGED <<size, first, last>>

AnswerUnsatisfiable ==
  /\ status = 0
  /\ ~Satisfiable
  /\ status' = 416
  /\ UNCHANGED <<size, first, last, start, end, length>>

Next == AnswerPartial \/ AnswerUnsatisfiable

Spec == Init /\ [][Next]_vars

-----------------------------------------------------------------------------
(* Whatever the client writes, numbers that wrap around included, a range  *)
(* that is accepted lies in the file, is not empty, and the Content-Length *)
(* is the number of its bytes.                                             *)
RangeInFile ==
  status = 206 => /\ start <= end
                  /\ end < size
                  /\ length = end - start + 1

(* The bytes of the file that a well-formed range names, as in the         *)
(* comment of parse_range: bytes=start-end, bytes=start-, bytes=-suffix.   *)
Wanted ==
  IF first.kind = "empty" THEN {i \in 0 .. size - 1 : i + last.value >= size}
  ELSE IF last.kind = "empty" THEN {i \in 0 .. size - 1 : first.value <= i}
  ELSE {i \in 0 .. size - 1 : first.value <= i /\ i <= last.value}

WellFormedRange ==
  /\ first.kind \in {"empty", "number"} /\ last.kind \in {"empty", "number"}
  /\ first.kind = "number" \/ last.kind = "number"
  /\ first.value < SizeMod /\ last.value < SizeMod

(* A well-formed range is answered with the bytes it names that the file   *)
(* has, and refused exactly if there are none.                             *)
RangeExact ==
  WellFormedRange =>
    /\ status = 206 => start .. end = Wanted /\ Wanted # {}
    /\ status = 416 => Wanted = {}
=============================================================================
