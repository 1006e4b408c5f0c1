-------------------------- MODULE ByteRangeProofs --------------------------
(***************************************************************************)
(* For files of every size, numbers of every width and every Range header: *)
(* a range that is accepted lies in the file, and a well-formed one is     *)
(* answered with the bytes it names.                                       *)
(***************************************************************************)
EXTENDS ByteRange, TLAPS

(* What arithmetic modulo the word size does to a number.                  *)
LEMMA ModFacts ==
  ASSUME NEW m \in Nat \ {0}, NEW n \in Nat
  PROVE  n % m \in Nat /\ n % m < m /\ (n < m => n % m = n)
  OBVIOUS

(* One multiple of the modulus too much is no difference.                  *)
LEMMA ModWraps ==
  ASSUME NEW m \in Nat \ {0}, NEW n \in Nat, n < m
  PROVE  (n + m) % m = n
  OBVIOUS

(* Every state before the answer is one the request can leave.             *)
TypeOK ==
  /\ size \in 0 .. SizeMod - 1
  /\ first \in FirstField
  /\ last \in Field
  /\ status \in {0, 206, 416}
  /\ start \in Nat /\ end \in Nat /\ length \in Nat

Inv == TypeOK /\ RangeInFile /\ RangeExact

(* stoull returns a number, the one written unless it is negated.          *)
LEMMA StoullNat ==
  ASSUME NEW f \in Field, ~Throws(f)
  PROVE  Stoull(f) \in Nat /\ (f.kind # "minus" => Stoull(f) = f.value)
<1>1. f.value \in Nat /\ f.value < WideMod
  BY RangeAssumption DEF Field, Throws
<1>2. WideMod \in Nat \ {0} /\ WideMod - f.value \in Nat
  BY <1>1, RangeAssumption
<1>3. (WideMod - f.value) % WideMod \in Nat
  BY <1>2, ModFacts
<1> QED
  BY <1>1, <1>3 DEF Stoull

(* An accepted range: its first byte is in the file, its last byte is not  *)
(* before it, and both are machine numbers.                                *)
LEMMA AcceptedBytes ==
  ASSUME TypeOK, Satisfiable
  PROVE  /\ FirstByte \in Nat /\ LastByte \in Nat
         /\ FirstByte <= LastByte /\ FirstByte < size
         /\ size \in Nat /\ size < SizeMod
<1>1. size \in Nat /\ size < SizeMod /\ SizeMod \in Nat \ {0}
  BY RangeAssumption DEF TypeOK
<1>2. first \in Field /\ last \in Field
  BY DEF TypeOK, FirstField
<1>3. LastOfFile \in Nat
  BY <1>1, ModFacts DEF LastOfFile, SizeT
<1>4. FirstByte \in Nat
  <2>1. CASE first.kind = "empty"
    <3>1. Stoull(last) \in Nat
      BY <1>2, <2>1, StoullNat DEF Satisfiable, Rejected
    <3> QED
      BY <1>1, <2>1, <3>1 DEF FirstByte
  <2>2. CASE first.kind # "empty"
    <3>1. Stoull(first) \in Nat
      BY <1>2, <2>2, StoullNat DEF Satisfiable, Rejected
    <3> QED
      BY <1>1, <2>2, <3>1, ModFacts DEF FirstByte, SizeT
  <2> QED
    BY <2>1, <2>2
<1>5. LastByte \in Nat
  <2>1. CASE first.kind = "empty" \/ last.kind = "empty"
    BY <1>3, <2>1 DEF LastByte
  <2>2. CASE first.kind # "empty" /\ last.kind # "empty"
    <3>1. Stoull(last) \in Nat
      BY <1>2, <2>2, StoullNat DEF Satisfiable, Rejected
    <3>2. SizeT(Stoull(last)) \in Nat
      BY <1>1, <3>1, ModFacts DEF SizeT
    <3> QED
      BY <2>2, <3>2 DEF LastByte
  <2> QED
    BY <2>1, <2>2
<1> QED
  BY <1>1, <1>4, <1>5 DEF Satisfiable

(* A well-formed range, read as the code reads it.                         *)
LEMMA WellFormedBytes ==
  ASSUME TypeOK, WellFormedRange
  PROVE  /\ Rejected <=> first.kind = "empty" /\ last.value = 0
         /\ first.kind = "empty" =>
              FirstByte = IF last.value > size THEN 0 ELSE size - last.value
         /\ first.kind # "empty" => FirstByte = first.value
         /\ first.kind # "empty" /\ last.kind # "empty" => LastByte = last.value
         /\ (first.kind = "empty" \/ last.kind = "empty") /\ size > 0 =>
              LastByte = size - 1
         /\ first.value \in Nat /\ last.value \in Nat
<1>1. size \in Nat /\ size < SizeMod /\ SizeMod \in Nat \ {0} /\ WideMod >= SizeMod
  BY RangeAssumption DEF TypeOK
<1>2. /\ first.value \in Nat /\ last.value \in Nat
      /\ first.value < SizeMod /\ last.value < SizeMod
      /\ first.value < WideMod /\ last.value < WideMod
  BY <1>1, RangeAssumption DEF TypeOK, FirstField, Field, WellFormedRange
<1>3. Stoull(first) = first.value /\ Stoull(last) = last.value
  BY DEF Stoull, WellFormedRange
<1>4. Throws(first) = (first.kind = "empty") /\ Throws(last) = (last.kind = "empty")
  BY <1>2, RangeAssumption DEF Throws, WellFormedRange
<1>5. SizeT(first.value) = first.value /\ SizeT(last.value) = last.value
  BY <1>1, <1>2, ModFacts DEF SizeT
<1>6. size > 0 => LastOfFile = size - 1
  <2> SUFFICES ASSUME size > 0 PROVE LastOfFile = size - 1
    OBVIOUS
  <2>1. size - 1 \in Nat /\ size - 1 < SizeMod /\ size + SizeMod - 1 = size - 1 + SizeMod
    BY <1>1
  <2>2. (size - 1 + SizeMod) % SizeMod = size - 1
    BY <1>1, <2>1, ModWraps
  <2> QED
    BY <2>1, <2>2 DEF LastOfFile, SizeT
<1> QED
  BY <1>1, <1>2, <1>3, <1>4, <1>5, <1>6
     DEF Rejected, FirstByte, LastByte, WellFormedRange

(* What is answered names the bytes that were asked for.                   *)
LEMMA PartialIsExact ==
  ASSUME TypeOK, WellFormedRange, Satisfiable
  PROVE  FirstByte .. Clipped(LastByte) = Wanted /\ Wanted # {}
<1>1. /\ FirstByte \in Nat /\ LastByte \in Nat
      /\ FirstByte <= LastByte /\ FirstByte < size
      /\ size \in Nat
  BY AcceptedBytes
<1>2. FirstByte .. Clipped(LastByte) = Wanted
  <2>1. CASE first.kind = "empty"
    BY <1>1, <2>1, WellFormedBytes DEF Clipped, Wanted
  <2>2. CASE first.kind # "empty" /\ last.kind = "empty"
    BY <1>1, <2>2, WellFormedBytes DEF Clipped, Wanted
  <2>3. CASE first.kind # "empty" /\ last.kind # "empty"
    BY <1>1, <2>3, WellFormedBytes DEF Clipped, Wanted
  <2> QED
    BY <2>1, <2>2, <2>3
<1>3. FirstByte \in FirstByte .. Clipped(LastByte)
  BY <1>1 DEF Clipped
<1> QED
  BY <1>2, <1>3

(* A well-formed range is refused only if the file has none of its bytes.  *)
LEMMA RefusedIsEmpty ==
  ASSUME TypeOK, WellFormedRange, ~Satisfiable
  PROVE  Wanted = {}
<1>1. size \in Nat
  BY RangeAssumption DEF TypeOK
<1>2. CASE first.kind = "empty"
  BY <1>1, <1>2, WellFormedBytes DEF Satisfiable, Wanted
<1>3. CASE first.kind # "empty" /\ last.kind = "empty"
  BY <1>1, <1>3, WellFormedBytes DEF Satisfiable, Wanted
<1>4. CASE first.kind # "empty" /\ last.kind # "empty"
  BY <1>1, <1>4, WellFormedBytes DEF Satisfiable, Wanted
<1> QED
  BY <1>2, <1>3, <1>4

-----------------------------------------------------------------------------
(* A request that has not been answered satisfies the invariant.           *)
LEMMA InitInv == Init => Inv
<1> SUFFICES ASSUME Init PROVE Inv
  OBVIOUS
<1> QED
  BY RangeAssumption DEF Init, Inv, TypeOK, RangeInFile, RangeExact

(* Both answers keep the invariant.                                        *)
LEMMA NextInv == Inv /\ [Next]_vars => Inv'
<1> SUFFICES ASSUME Inv, [Next]_vars PROVE Inv'
  OBVIOUS
<1>1. CASE AnswerPartial
  <2> DEFINE s == FirstByte
             e == Clipped(LastByte)
  <2>1. /\ s \in Nat /\ e \in Nat /\ s <= e /\ e < size
        /\ size \in Nat /\ size < SizeMod
    BY <1>1, AcceptedBytes DEF AnswerPartial, Inv, Clipped
  <2>2. e - s + 1 \in Nat /\ e - s + 1 < SizeMod /\ SizeMod \in Nat \ {0}
    BY <2>1, RangeAssumption
  <2>3. SizeT(e - s + 1) = e - s + 1
    BY <2>2, ModFacts DEF SizeT
  <2>4. /\ status' = 206 /\ start' = s /\ end' = e /\ length' = e - s + 1
        /\ UNCHANGED <<size, first, last>>
    BY <1>1, <2>3 DEF AnswerPartial
  <2>5. TypeOK'
    BY <2>1, <2>2, <2>4 DEF Inv, TypeOK
  <2>6. RangeInFile'
    BY <2>1, <2>4 DEF RangeInFile
  <2>7. RangeExact'
    <3>1. WellFormedRange => s .. e = Wanted /\ Wanted # {}
      BY <1>1, PartialIsExact DEF AnswerPartial, Inv
    <3>2. Wanted' = Wanted /\ WellFormedRange' = WellFormedRange
      BY <2>4 DEF Wanted, WellFormedRange
    <3> QED
      BY <2>4, <3>1, <3>2 DEF RangeExact
  <2> QED
    BY <2>5, <2>6, <2>7 DEF Inv
<1>2. CASE AnswerUnsatisfiable
  <2>1. WellFormedRange => Wanted = {}
    BY <1>2, RefusedIsEmpty DEF AnswerUnsatisfiable, Inv
  <2>2. Wanted' = Wanted /\ WellFormedRange' = WellFormedRange
    BY <1>2 DEF AnswerUnsatisfiable, Wanted, WellFormedRange
  <2>3. TypeOK'
    BY <1>2 DEF AnswerUnsatisfiable, Inv, TypeOK
  <2>4. RangeInFile' /\ RangeExact'
    BY <1>2, <2>1, <2>2 DEF AnswerUnsatisfiable, RangeInFile, RangeExact
  <2> QED
    BY <2>3, <2>4 DEF Inv
<1>3. CASE UNCHANGED vars
  BY <1>3 DEF vars, Inv, TypeOK, RangeInFile, RangeExact, WellFormedRange, Wanted
<1> QED
  BY <1>1, <1>2, <1>3 DEF Next

(* Every accepted range lies in the file, with a Content-Length that did   *)
(* not wrap around (parse_range).                                          *)
THEOREM AcceptedRangeInFile == Spec => []RangeInFile
<1>1. Inv => RangeInFile
  BY DEF Inv
<1> QED
  BY InitInv, NextInv, <1>1, PTL DEF Spec

(* Every well-formed range gets exactly the bytes it names, or 416 if the  *)
(* file has none of them (parse_range).                                    *)
THEOREM WellFormedRangeExact == Spec => []RangeExact
<1>1. Inv => RangeExact
  BY DEF Inv
<1> QED
  BY InitInv, NextInv, <1>1, PTL DEF Spec
=============================================================================
