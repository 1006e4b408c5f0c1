---------------------------- MODULE ListingProofs ----------------------------
(***************************************************************************)
(* What a client is shown of a directory, and what the coding of URLs does *)
(* to it, for directories of any size and names of any bytes and length.   *)
(*                                                                         *)
(* The coding loses no name (TextsRoundTrip).  url_decode is a recursive   *)
(* function, defined by a CHOOSE: that a function with its equations       *)
(* exists is shown first, by induction on the number of positions left     *)
(* (DecodingExists).  Then, from the end of the text to its beginning,     *)
(* what is decoded from where the code of a byte stands is the text from   *)
(* that byte on (DecodesAll).  Split is treated in the same way            *)
(* (SplittingExists); it takes a path that was joined apart into the same  *)
(* names (SplitJoined), so that the parser reads the path the server       *)
(* encoded (TargetIsRead).                                                 *)
(*                                                                         *)
(* The answers rest on Inv: what has been read and what there is to read   *)
(* is the whole directory, each entry once (ReadInv), and the answer is    *)
(* made of what was read (AnswerInv).                                      *)
(***************************************************************************)
EXTENDS Listing, SequenceLemmas, FiniteSetTheorems

(* A byte and its code: itself, or a percent sign and two digits.          *)
Code(b) ==
  IF b \in Unreserved THEN <<b>> ELSE <<Percent, HexDigit(b \div 16), HexDigit(b % 16)>>

Codes(text) == [i \in DOMAIN text |-> Code(text[i])]

Coded == Unreserved \union {Percent} \union (48 .. 57) \union (65 .. 70)

LEMMA HexDigits ==
  ASSUME NEW v \in 0 .. 15
  PROVE  /\ HexDigit(v) \in DOMAIN HexValues /\ HexValues[HexDigit(v)] = v
         /\ HexDigit(v) \in Coded
  BY DEF HexDigit, HexValues, Digits, Coded

LEMMA ByteHalves ==
  ASSUME NEW b \in Byte
  PROVE  /\ b \div 16 \in 0 .. 15 /\ b % 16 \in 0 .. 15
         /\ 16 * (b \div 16) + (b % 16) = b
  BY DEF Byte

LEMMA CodedBytes ==
  /\ Coded \subseteq Byte /\ Unreserved \subseteq Coded
  /\ Percent \in Coded /\ Percent \notin Unreserved /\ Plus \notin Unreserved
  /\ Coded \intersect (White \union {Question, Plus}) = {}
  BY DEF Coded, Unreserved, Upper, Lower, Digits, Slash, Percent, Plus, White, Space,
         Question, Byte

LEMMA CodeIsCoded ==
  ASSUME NEW b \in Byte
  PROVE  /\ Code(b) \in Seq(Coded)
         /\ b \in Unreserved =>
              b # Percent /\ b # Plus /\ Len(Code(b)) = 1 /\ Code(b)[1] = b
         /\ b \notin Unreserved =>
              /\ Len(Code(b)) = 3 /\ Code(b)[1] = Percent
              /\ Code(b)[2] = HexDigit(b \div 16) /\ Code(b)[3] = HexDigit(b % 16)
<1>1. CASE b \in Unreserved
  <2>1. Code(b) = <<b>> /\ b \in Coded
    BY <1>1, CodedBytes DEF Code
  <2> QED
    BY <1>1, <2>1, CodedBytes
<1>2. CASE b \notin Unreserved
  <2> DEFINE h == HexDigit(b \div 16)
             l == HexDigit(b % 16)
  <2>1. Code(b) = <<Percent, h, l>>
    BY <1>2 DEF Code
  <2>2. h \in Coded /\ l \in Coded /\ Percent \in Coded
    BY ByteHalves, HexDigits, CodedBytes
  <2> HIDE DEF h, l
  <2>3. <<Percent, h, l>> \in Seq(Coded)
    BY <2>2
  <2> QED
    BY <1>2, <2>1, <2>3 DEF h, l
<1> QED
  BY <1>1, <1>2

LEMMA EncodedIsCoded ==
  ASSUME NEW text \in Seq(Byte)
  PROVE  /\ Codes(text) \in Seq(Seq(Coded)) /\ Len(Codes(text)) = Len(text)
         /\ \A i \in 1 .. Len(text) : Codes(text)[i] = Code(text[i])
         /\ url_encode(text) = FlattenSeq(Codes(text))
         /\ url_encode(text) \in Seq(Coded)
<1>1. Len(text) \in Nat /\ DOMAIN text = 1 .. Len(text)
  BY LenProperties
<1>2. \A i \in 1 .. Len(text) : Code(text[i]) \in Seq(Coded)
  BY ElementOfSeq, CodeIsCoded
<1>3. Codes(text) \in [1 .. Len(text) -> Seq(Coded)]
  BY <1>1, <1>2 DEF Codes
<1>4. Codes(text) \in Seq(Seq(Coded)) /\ Len(Codes(text)) = Len(text)
  BY <1>1, <1>3
<1>5. url_encode(text) = FlattenSeq(Codes(text))
  BY DEF url_encode, Codes, Code
<1>6. FlattenSeq(Codes(text)) \in Seq(Coded)
  BY <1>4, FlattenType
<1> QED
  BY <1>1, <1>4, <1>5, <1>6 DEF Codes

(* A text without a byte that ends it is not cut short.                    *)
LEMMA NotCutShort ==
  ASSUME NEW S, NEW text \in Seq(S), NEW stop, S \intersect stop = {}
  PROVE  UpToFirst(text, stop) = text
<1>1. {i \in 1 .. Len(text) : text[i] \in stop} = {}
  BY ElementOfSeq
<1>2. SelectInSeq(text, LAMBDA b : b \in stop) = 0
  BY <1>1 DEF SelectInSeq
<1> QED
  BY <1>2 DEF UpToFirst

-----------------------------------------------------------------------------
(* What url_decode makes of the text from a position on, when f says what  *)
(* it makes of it from the positions after that one.                       *)
DecodedAt(text, f, i) ==
  IF i > Len(text) THEN << >>
  ELSE IF IsEscape(text, i)
  THEN <<16 * HexValues[text[i + 1]] + HexValues[text[i + 2]]>> \o f[i + 3]
  ELSE <<IF text[i] = Plus THEN Space ELSE text[i]>> \o f[i + 1]

IsDecoding(f, text, k) == f = [i \in k .. Len(text) + 1 |-> DecodedAt(text, f, i)]

LEMMA DecodingExists ==
  ASSUME NEW text, Len(text) \in Nat
  PROVE  \E f : IsDecoding(f, text, 1)
<1> DEFINE n == Len(text)
           S == {m \in Nat : m <= n => \E f : IsDecoding(f, text, (n + 1) - m)}
<1>1. 0 \in S
  <2> DEFINE f == [i \in n + 1 .. n + 1 |-> << >>]
  <2>1. \A i \in n + 1 .. n + 1 : DecodedAt(text, f, i) = << >>
    BY DEF DecodedAt
  <2>2. (n + 1) - 0 = n + 1
    OBVIOUS
  <2>3. IsDecoding(f, text, n + 1)
    BY <2>1 DEF IsDecoding
  <2> QED
    BY <2>2, <2>3
<1>2. ASSUME NEW m \in Nat, m \in S PROVE m + 1 \in S
  <2> SUFFICES ASSUME m + 1 <= n PROVE \E f : IsDecoding(f, text, (n + 1) - (m + 1))
    OBVIOUS
  <2> DEFINE k == (n + 1) - m
             d == (n + 1) - (m + 1)
  <2>1. /\ d \in 1 .. n /\ k = d + 1 /\ k \in Nat /\ m <= n
        /\ \A i \in d .. n + 1 : i # d => i \in k .. n + 1
    OBVIOUS
  <2>2. PICK f : IsDecoding(f, text, k)
    BY <1>2, <2>1
  <2> DEFINE g == [i \in d .. n + 1 |-> IF i = d THEN DecodedAt(text, f, d) ELSE f[i]]
  <2> HIDE DEF k, d
  <2>3. ASSUME NEW i \in d .. n + 1 PROVE g[i] = DecodedAt(text, f, i)
    <3>1. CASE i = d
      BY <3>1
    <3>2. CASE i # d
      <4>1. i \in k .. n + 1
        BY <2>1, <3>2
      <4>2. f[i] = DecodedAt(text, f, i)
        BY <2>2, <4>1 DEF IsDecoding
      <4> QED
        BY <3>2, <4>2
    <3> QED
      BY <3>1, <3>2
  <2>4. \A i \in k .. n + 1 : g[i] = f[i]
    BY <2>1
  <2> HIDE DEF g
  <2>5. ASSUME NEW i \in d .. n + 1 PROVE DecodedAt(text, f, i) = DecodedAt(text, g, i)
    <3>1. i <= n => i + 1 \in k .. n + 1
      BY <2>1
    <3>2. IsEscape(text, i) => i + 3 \in k .. n + 1
      BY <2>1 DEF IsEscape
    <3> QED
      BY <2>1, <2>4, <3>1, <3>2 DEF DecodedAt
  <2>6. g = [i \in d .. n + 1 |-> DecodedAt(text, g, i)]
    <3>1. g = [i \in d .. n + 1 |-> g[i]]
      BY DEF g
    <3> QED
      BY <2>3, <2>5, <3>1
  <2> QED
    BY <2>6 DEF IsDecoding, d
<1>3. Nat \subseteq S
  <2> HIDE DEF S
  <2> QED
    BY <1>1, <1>2, NatSetInduction
<1>4. (n + 1) - n = 1
  OBVIOUS
<1> QED
  BY <1>3, <1>4

LEMMA DecodingIsDecode ==
  ASSUME NEW text, Len(text) \in Nat
  PROVE  \E f : IsDecoding(f, text, 1) /\ url_decode(text) = f[1]
<1> DEFINE f == CHOOSE g : IsDecoding(g, text, 1)
<1>1. IsDecoding(f, text, 1)
  BY DecodingExists
<1>2. url_decode(text) = f[1]
  BY DEF url_decode, IsDecoding, DecodedAt
<1> QED
  BY <1>1, <1>2

-----------------------------------------------------------------------------
(* Where the code of a byte stands, url_decode reads the byte and goes on  *)
(* behind the code.                                                        *)
LEMMA CodeIsRead ==
  ASSUME NEW e \in Seq(Byte), NEW f, IsDecoding(f, e, 1),
         NEW b \in Byte, NEW p \in Nat, p + Len(Code(b)) <= Len(e),
         \A i \in 1 .. Len(Code(b)) : e[p + i] = Code(b)[i]
  PROVE  f[p + 1] = <<b>> \o f[p + Len(Code(b)) + 1]
<1>1. Len(e) \in Nat
  BY LenProperties
<1>2. CASE b \in Unreserved
  <2>1. b # Percent /\ b # Plus /\ Len(Code(b)) = 1 /\ Code(b)[1] = b
    BY <1>2, CodeIsCoded
  <2>2. e[p + 1] = b /\ p + 1 <= Len(e)
    BY <2>1
  <2>3. p + 1 \in 1 .. Len(e) + 1 /\ ~(p + 1 > Len(e))
    BY <1>1, <2>2
  <2>4. ~IsEscape(e, p + 1)
    BY <2>1, <2>2 DEF IsEscape
  <2>5. f[p + 1] = DecodedAt(e, f, p + 1)
    BY <2>3 DEF IsDecoding
  <2>6. DecodedAt(e, f, p + 1) = <<b>> \o f[(p + 1) + 1]
    BY <2>1, <2>2, <2>3, <2>4 DEF DecodedAt
  <2> QED
    BY <2>1, <2>5, <2>6
<1>3. CASE b \notin Unreserved
  <2> DEFINE h == b \div 16
             l == b % 16
  <2>1. /\ Len(Code(b)) = 3 /\ Code(b)[1] = Percent
        /\ Code(b)[2] = HexDigit(h) /\ Code(b)[3] = HexDigit(l)
    BY <1>3, CodeIsCoded
  <2>2. h \in 0 .. 15 /\ l \in 0 .. 15 /\ 16 * h + l = b
    BY ByteHalves
  <2> HIDE DEF h, l
  <2>3. /\ e[p + 1] = Percent /\ e[p + 2] = HexDigit(h) /\ e[p + 3] = HexDigit(l)
        /\ p + 3 <= Len(e)
    BY <2>1
  <2>4. /\ p + 1 \in 1 .. Len(e) + 1 /\ ~(p + 1 > Len(e)) /\ (p + 1) + 2 <= Len(e)
        /\ (p + 1) + 1 = p + 2 /\ (p + 1) + 2 = p + 3 /\ (p + 1) + 3 = p + 3 + 1
    BY <1>1, <2>3
  <2>5. /\ HexDigit(h) \in DOMAIN HexValues /\ HexValues[HexDigit(h)] = h
        /\ HexDigit(l) \in DOMAIN HexValues /\ HexValues[HexDigit(l)] = l
    BY <2>2, HexDigits
  <2>6. IsEscape(e, p + 1)
    BY <2>3, <2>4, <2>5 DEF IsEscape
  <2>7. f[p + 1] = DecodedAt(e, f, p + 1)
    BY <2>4 DEF IsDecoding
  <2>8. DecodedAt(e, f, p + 1)
          = <<16 * HexValues[e[p + 2]] + HexValues[e[p + 3]]>> \o f[p + 3 + 1]
    BY <2>4, <2>6 DEF DecodedAt
  <2> QED
    BY <2>1, <2>2, <2>3, <2>5, <2>7, <2>8
<1> QED
  BY <1>2, <1>3

(* The code of each byte of a text stands behind those of the bytes before *)
(* it.                                                                     *)
Before(text, k) == Len(FlattenSeq(SubSeq(Codes(text), 1, k)))

LEMMA CodesStand ==
  ASSUME NEW text \in Seq(Byte)
  PROVE  /\ Before(text, 0) = 0
         /\ Before(text, Len(text)) = Len(url_encode(text))
         /\ \A k \in 0 .. Len(text) - 1 :
              LET c == Code(text[k + 1])
              IN  /\ Before(text, k) \in Nat
                  /\ Before(text, k + 1) = Before(text, k) + Len(c)
                  /\ Before(text, k + 1) <= Len(url_encode(text))
                  /\ \A i \in 1 .. Len(c) : url_encode(text)[Before(text, k) + i] = c[i]
<1> DEFINE m == Codes(text)
           n == Len(text)
           T(k) == FlattenSeq(SubSeq(m, 1, k))
<1>1. /\ m \in Seq(Seq(Coded)) /\ Len(m) = n /\ n \in Nat
      /\ \A i \in 1 .. n : m[i] = Code(text[i])
      /\ url_encode(text) = FlattenSeq(m)
  BY EncodedIsCoded, LenProperties
<1> HIDE DEF m
<1>2. T(0) = << >> /\ T(n) = FlattenSeq(m)
  <2>1. 0 \in 0 .. Len(m) /\ Len(m) \in 0 .. Len(m)
    BY <1>1
  <2>2. FlattenSeq(SubSeq(m, 1, 0)) = << >>
    BY <1>1, <2>1, TakenStep
  <2>3. FlattenSeq(SubSeq(m, 1, Len(m))) = FlattenSeq(m)
    BY <1>1, <2>1, TakenStep
  <2> QED
    BY <1>1, <2>2, <2>3
<1>3. ASSUME NEW k \in 0 .. n - 1
      PROVE  LET c == Code(text[k + 1])
             IN  /\ Len(T(k)) \in Nat
                 /\ Len(T(k + 1)) = Len(T(k)) + Len(c)
                 /\ Len(T(k + 1)) <= Len(FlattenSeq(m))
                 /\ \A i \in 1 .. Len(c) : FlattenSeq(m)[Len(T(k)) + i] = c[i]
  <2> DEFINE c == m[k + 1]
             t == T(k)
             r == FlattenSeq(SubSeq(m, (k + 1) + 1, Len(m)))
  <2>1. /\ k \in 0 .. Len(m) /\ k + 1 \in 0 .. Len(m) /\ k < Len(m) /\ k + 1 \in 1 .. n
    BY <1>1
  <2>2. /\ t \in Seq(Coded) /\ T(k + 1) \in Seq(Coded) /\ T(k + 1) = t \o c
    BY <1>1, <2>1, TakenStep
  <2>3. c \in Seq(Coded) /\ c = Code(text[k + 1])
    BY <1>1, <2>1, ElementOfSeq
  <2>4. /\ SubSeq(m, 1, k + 1) \in Seq(Seq(Coded))
        /\ SubSeq(m, (k + 1) + 1, Len(m)) \in Seq(Seq(Coded))
        /\ SubSeq(m, 1, k + 1) \o SubSeq(m, (k + 1) + 1, Len(m)) = m
    BY <1>1, <2>1, CutInTwo
  <2>5. r \in Seq(Coded) /\ FlattenSeq(m) = T(k + 1) \o r
    BY <2>4, FlattenType, FlattenConcat
  <2> HIDE DEF c, t, r, T
  <2>6. /\ Len(t) \in Nat /\ Len(c) \in Nat /\ Len(r) \in Nat
        /\ Len(t \o c) = Len(t) + Len(c)
        /\ \A i \in 1 .. Len(t) + Len(c) :
             (t \o c)[i] = IF i <= Len(t) THEN t[i] ELSE c[i - Len(t)]
    BY <2>2, <2>3, <2>5, LenProperties, ConcatProperties
  <2>7. /\ Len((t \o c) \o r) = Len(t) + Len(c) + Len(r)
        /\ \A i \in 1 .. Len(t) + Len(c) : ((t \o c) \o r)[i] = (t \o c)[i]
    BY <2>2, <2>5, <2>6, ConcatProperties
  <2>8. ASSUME NEW i \in 1 .. Len(c) PROVE ((t \o c) \o r)[Len(t) + i] = c[i]
    <3>1. /\ Len(t) + i \in 1 .. Len(t) + Len(c) /\ ~(Len(t) + i <= Len(t))
          /\ (Len(t) + i) - Len(t) = i
      BY <2>6
    <3> QED
      BY <2>6, <2>7, <3>1
  <2>9. Len(t) + Len(c) <= Len(t) + Len(c) + Len(r)
    BY <2>6
  <2>10. FlattenSeq(m) = (t \o c) \o r /\ T(k + 1) = t \o c
    BY <2>2, <2>5
  <2>11. t = T(k)
    BY DEF t
  <2> QED
    BY <2>3, <2>6, <2>7, <2>8, <2>9, <2>10, <2>11
<1> HIDE DEF T
<1>4. Len(<< >>) = 0
  BY EmptySeq
<1>5. \A k : Before(text, k) = Len(T(k))
  BY DEF Before, T, m
<1>6. Before(text, 0) = 0 /\ Before(text, n) = Len(url_encode(text))
  BY <1>1, <1>2, <1>4, <1>5
<1>7. ASSUME NEW k \in 0 .. n - 1
      PROVE  LET c == Code(text[k + 1])
             IN  /\ Before(text, k) \in Nat
                 /\ Before(text, k + 1) = Before(text, k) + Len(c)
                 /\ Before(text, k + 1) <= Len(url_encode(text))
                 /\ \A i \in 1 .. Len(c) : url_encode(text)[Before(text, k) + i] = c[i]
  <2>1. Before(text, k) = Len(T(k)) /\ Before(text, k + 1) = Len(T(k + 1))
    BY <1>5
  <2> QED
    BY <1>1, <1>3, <2>1
<1> QED
  BY <1>6, <1>7

(* One more byte at the beginning of what is left of a text.               *)
LEMMA SuffixGrows ==
  ASSUME NEW text \in Seq(Byte), NEW k \in 0 .. Len(text) - 1
  PROVE  SubSeq(text, k + 1, Len(text))
           = <<text[k + 1]>> \o SubSeq(text, (k + 1) + 1, Len(text))
<1>1. Len(text) \in Nat
  BY LenProperties
<1>2. k + 1 \in 1 .. Len(text) /\ Len(text) \in k + 1 .. Len(text)
  BY <1>1
<1> QED
  BY <1>2, SubSeqRecursiveFirst

LEMMA CutShortIsText ==
  ASSUME NEW end \in {<< >>} \union CutShort
  PROVE  end \in Seq(Byte)
<1>1. Percent \in Byte /\ \A d \in DOMAIN HexValues : d \in Byte
  BY DEF Percent, Byte, HexValues, Digits
<1> HIDE DEF Byte
<1>2. <<Percent>> \in Seq(Byte) /\ \A d \in DOMAIN HexValues : <<Percent, d>> \in Seq(Byte)
  BY <1>1
<1> QED
  BY <1>2, EmptySeq DEF CutShort

(* Behind the last code, f[l + 1] is what is made of a text that goes on   *)
(* with a percent sign that begins no escape: that sign, and the digit     *)
(* behind it if there is one.                                              *)
LEMMA CutShortStands ==
  ASSUME NEW c \in Seq(Byte), NEW end \in {<< >>} \union CutShort, NEW f,
         IsDecoding(f, c \o end, 1)
  PROVE  end \in Seq(Byte) /\ f[Len(c) + 1] = end
<1> DEFINE e == c \o end
           l == Len(c)
<1>1. l \in Nat
  BY LenProperties
<1>2. /\ Percent \in Byte /\ Percent # Plus
      /\ \A d \in DOMAIN HexValues : d \in Byte /\ d # Percent /\ d # Plus
  BY DEF Percent, Plus, Byte, HexValues, Digits
<1>3. CASE end = << >>
  <2>1. end \in Seq(Byte) /\ Len(end) = 0
    BY <1>3
  <2>2. Len(e) = l
    BY <1>1, <2>1, ConcatProperties
  <2> HIDE DEF e
  <2>3. l + 1 \in 1 .. Len(e) + 1 /\ l + 1 > Len(e)
    BY <1>1, <2>2
  <2>4. f[l + 1] = DecodedAt(e, f, l + 1)
    BY <2>3 DEF IsDecoding, e
  <2> QED
    BY <1>3, <2>1, <2>3, <2>4 DEF DecodedAt
<1>4. CASE end = <<Percent>>
  <2>1. end \in Seq(Byte) /\ Len(end) = 1 /\ end[1] = Percent
    BY <1>2, <1>4
  <2>2. Len(e) = l + 1 /\ e[l + 1] = Percent
    <3>1. l + 1 \in 1 .. l + Len(end) /\ ~(l + 1 <= l) /\ (l + 1) - l = 1
      BY <1>1, <2>1
    <3>2. /\ Len(e) = l + Len(end)
          /\ \A i \in 1 .. l + Len(end) : e[i] = IF i <= l THEN c[i] ELSE end[i - l]
      BY <2>1, ConcatProperties
    <3> HIDE DEF e, l
    <3> QED
      BY <2>1, <3>1, <3>2
  <2> HIDE DEF e
  <2>3. /\ l + 1 \in 1 .. Len(e) + 1 /\ ~(l + 1 > Len(e)) /\ ~((l + 1) + 2 <= Len(e))
        /\ (l + 1) + 1 \in 1 .. Len(e) + 1 /\ (l + 1) + 1 > Len(e)
    BY <1>1, <2>2
  <2>4. f[l + 1] = DecodedAt(e, f, l + 1) /\ f[(l + 1) + 1] = DecodedAt(e, f, (l + 1) + 1)
    BY <2>3 DEF IsDecoding, e
  <2>5. f[(l + 1) + 1] = << >>
    BY <2>3, <2>4 DEF DecodedAt
  <2>6. ~IsEscape(e, l + 1)
    BY <2>3 DEF IsEscape
  <2>7. f[l + 1] = <<Percent>> \o << >>
    BY <1>2, <2>2, <2>3, <2>4, <2>5, <2>6 DEF DecodedAt
  <2> QED
    BY <1>4, <2>1, <2>7, ConcatEmptySeq
<1>5. ASSUME NEW d \in DOMAIN HexValues, end = <<Percent, d>>
      PROVE  end \in Seq(Byte) /\ f[l + 1] = end
  <2>1. end \in Seq(Byte) /\ Len(end) = 2 /\ end[1] = Percent /\ end[2] = d
    BY <1>2, <1>5
  <2>2. Len(e) = l + 2 /\ e[l + 1] = Percent /\ e[l + 2] = d
    <3>1. /\ l + 1 \in 1 .. l + Len(end) /\ ~(l + 1 <= l) /\ (l + 1) - l = 1
          /\ l + 2 \in 1 .. l + Len(end) /\ ~(l + 2 <= l) /\ (l + 2) - l = 2
      BY <1>1, <2>1
    <3>2. /\ Len(e) = l + Len(end)
          /\ \A i \in 1 .. l + Len(end) : e[i] = IF i <= l THEN c[i] ELSE end[i - l]
      BY <2>1, ConcatProperties
    <3> HIDE DEF e, l
    <3> QED
      BY <2>1, <3>1, <3>2
  <2> HIDE DEF e
  <2>3. /\ l + 1 \in 1 .. Len(e) + 1 /\ ~(l + 1 > Len(e)) /\ ~((l + 1) + 2 <= Len(e))
        /\ l + 2 \in 1 .. Len(e) + 1 /\ ~(l + 2 > Len(e))
        /\ l + 3 \in 1 .. Len(e) + 1 /\ l + 3 > Len(e)
        /\ (l + 1) + 1 = l + 2 /\ (l + 2) + 1 = l + 3
    BY <1>1, <2>2
  <2>4. /\ f[l + 1] = DecodedAt(e, f, l + 1) /\ f[l + 2] = DecodedAt(e, f, l + 2)
        /\ f[l + 3] = DecodedAt(e, f, l + 3)
    BY <2>3 DEF IsDecoding, e
  <2>5. f[l + 3] = << >>
    BY <2>3, <2>4 DEF DecodedAt
  <2>6. ~IsEscape(e, l + 1) /\ ~IsEscape(e, l + 2)
    BY <1>2, <2>2, <2>3 DEF IsEscape
  <2>7. f[l + 2] = <<d>> \o << >>
    BY <1>2, <2>2, <2>3, <2>4, <2>5, <2>6 DEF DecodedAt
  <2>8. f[l + 1] = <<Percent>> \o f[l + 2]
    BY <1>2, <2>2, <2>3, <2>4, <2>6 DEF DecodedAt
  <2>9. <<d>> \o << >> = <<d>> /\ <<Percent>> \o <<d>> = <<Percent, d>>
    <3>1. <<d>> \in Seq(Byte) /\ <<Percent>> \in Seq(Byte) /\ d \in Byte
      BY <1>2
    <3>2. Append(<<Percent>>, d) = <<Percent, d>>
      <4> DEFINE p == <<Percent>>
      <4>1. p \in Seq(Byte) /\ Len(p) = 1 /\ p[1] = Percent
        BY <3>1
      <4> HIDE DEF p
      <4>2. /\ Append(p, d) \in Seq(Byte) /\ Len(Append(p, d)) = 2
            /\ Append(p, d)[1] = Percent /\ Append(p, d)[2] = d
        <5>1. /\ Append(p, d) \in Seq(Byte) /\ Len(Append(p, d)) = Len(p) + 1
              /\ \A i \in 1 .. Len(p) : Append(p, d)[i] = p[i]
              /\ Append(p, d)[Len(p) + 1] = d
          BY <3>1, <4>1, AppendProperties
        <5> QED
          BY <4>1, <5>1
      <4>3. /\ end \in Seq(Byte) /\ Len(end) = 2 /\ end[1] = Percent /\ end[2] = d
        BY <2>1
      <4>4. \A i \in 1 .. 2 : Append(p, d)[i] = end[i]
        BY <4>2, <4>3
      <4>5. Append(p, d) = end
        BY <4>2, <4>3, <4>4, SeqEqual
      <4> QED
        BY <1>5, <4>5 DEF p
    <3> QED
      BY <3>1, <3>2, ConcatEmptySeq, AppendIsConcat
  <2> QED
    BY <1>5, <2>1, <2>7, <2>8, <2>9
<1> QED
  BY <1>3, <1>4, <1>5 DEF CutShort

(* From the end of the text to its beginning: what is decoded from where   *)
(* the code of a byte stands is the text from that byte on.                *)
LEMMA DecodesAll ==
  ASSUME NEW text \in Seq(Byte), NEW end \in {<< >>} \union CutShort
  PROVE  url_decode(url_encode(text) \o end) = text \o end
<1> DEFINE c == url_encode(text)
           e == c \o end
           n == Len(text)
<1>1. n \in Nat
  BY LenProperties
<1>2. c \in Seq(Byte) /\ Len(c) \in Nat
  <2>1. c \in Seq(Coded)
    BY EncodedIsCoded
  <2> HIDE DEF c
  <2>2. c \in Seq(Byte)
    BY <2>1, CodedBytes
  <2> QED
    BY <2>2, LenProperties
<1>3. /\ Before(text, 0) = 0 /\ Before(text, n) = Len(c)
      /\ \A k \in 0 .. n - 1 :
           /\ Before(text, k) \in Nat
           /\ Before(text, k + 1) = Before(text, k) + Len(Code(text[k + 1]))
           /\ Before(text, k + 1) <= Len(c)
           /\ \A i \in 1 .. Len(Code(text[k + 1])) :
                c[Before(text, k) + i] = Code(text[k + 1])[i]
  BY CodesStand
<1> HIDE DEF c
<1>4. PICK f : IsDecoding(f, e, 1) /\ url_decode(e) = f[1]
  <2>1. Len(c \o end) \in Nat
    BY <1>2, CutShortIsText, ConcatProperties, LenProperties
  <2> QED
    BY <2>1, DecodingIsDecode
<1>5. end \in Seq(Byte) /\ f[Len(c) + 1] = end
  BY <1>2, <1>4, CutShortStands
<1>6. /\ e \in Seq(Byte) /\ Len(c) <= Len(e)
      /\ \A i \in 1 .. Len(c) : e[i] = c[i]
  <2>1. Len(end) \in Nat
    BY <1>5, LenProperties
  <2>2. /\ e \in Seq(Byte) /\ Len(e) = Len(c) + Len(end)
        /\ \A i \in 1 .. Len(c) + Len(end) : e[i] = IF i <= Len(c) THEN c[i] ELSE end[i - Len(c)]
    BY <1>2, <1>5, ConcatProperties
  <2> HIDE DEF e
  <2> QED
    BY <1>2, <2>1, <2>2
<1> DEFINE Left(k) == SubSeq(text, k + 1, n) \o end
           N == {m \in Nat : m <= n => f[Before(text, n - m) + 1] = Left(n - m)}
<1> HIDE DEF e
<1>7. 0 \in N
  <2>1. n - 0 = n
    BY <1>1
  <2>2. SubSeq(text, n + 1, n) = << >>
    <3>1. n + 1 \in Int /\ n \in Int /\ n < n + 1
      BY <1>1
    <3> QED
      BY <3>1, SubSeqEmpty
  <2>3. Left(n) = end
    BY <1>5, <2>2, ConcatEmptySeq
  <2> QED
    BY <1>3, <1>5, <2>1, <2>3
<1>8. ASSUME NEW m \in Nat, m \in N PROVE m + 1 \in N
  <2> SUFFICES ASSUME m + 1 <= n
               PROVE  f[Before(text, n - (m + 1)) + 1] = Left(n - (m + 1))
    OBVIOUS
  <2> DEFINE k == n - (m + 1)
             b == text[k + 1]
             p == Before(text, k)
  <2>1. k \in 0 .. n - 1 /\ k + 1 = n - m /\ m <= n /\ k + 1 \in 1 .. n
    BY <1>1
  <2>2. f[Before(text, k + 1) + 1] = Left(k + 1)
    BY <1>8, <2>1
  <2> HIDE DEF k
  <2>3. b \in Byte
    BY <2>1, ElementOfSeq
  <2>4. /\ p \in Nat /\ Before(text, k + 1) = p + Len(Code(b))
        /\ p + Len(Code(b)) <= Len(c)
        /\ \A i \in 1 .. Len(Code(b)) : c[p + i] = Code(b)[i]
    BY <1>3, <2>1
  <2>5. Left(k) = <<b>> \o Left(k + 1)
    <3> DEFINE r == SubSeq(text, (k + 1) + 1, n)
    <3>1. SubSeq(text, k + 1, n) = <<b>> \o r
      BY <2>1, SuffixGrows
    <3>2. r \in Seq(Byte)
      BY <1>1, <2>1, SubSeqProperties
    <3>3. <<b>> \in Seq(Byte)
      BY <2>3
    <3> HIDE DEF r, b
    <3>4. (<<b>> \o r) \o end = <<b>> \o (r \o end)
      BY <1>5, <3>2, <3>3, ConcatAssociative
    <3> QED
      BY <3>1, <3>4 DEF r
  <2> HIDE DEF b, p, Left, N
  <2>6. Len(Code(b)) \in Nat
    <3>1. Code(b) \in Seq(Coded)
      BY <2>3, CodeIsCoded
    <3> QED
      BY <3>1, LenProperties
  <2>7. /\ p + Len(Code(b)) <= Len(e)
        /\ \A i \in 1 .. Len(Code(b)) : e[p + i] = Code(b)[i]
    <3>1. Len(e) \in Nat /\ p + Len(Code(b)) <= Len(e)
      BY <1>2, <1>6, <2>4, <2>6, LenProperties
    <3>2. \A i \in 1 .. Len(Code(b)) : p + i \in 1 .. Len(c)
      BY <1>2, <2>4, <2>6
    <3> QED
      BY <1>6, <2>4, <3>1, <3>2
  <2>8. f[p + 1] = <<b>> \o f[p + Len(Code(b)) + 1]
    BY <1>4, <1>6, <2>3, <2>4, <2>7, CodeIsRead, ZenonT(60)
  <2>9. f[p + 1] = Left(k)
    BY <2>2, <2>4, <2>5, <2>8
  <2> QED
    BY <2>9 DEF p, k
<1>9. Nat \subseteq N
  <2> HIDE DEF N
  <2> QED
    BY <1>7, <1>8, NatSetInduction
<1>10. f[Before(text, 0) + 1] = Left(0)
  <2> HIDE DEF N
  <2>1. n \in N /\ n <= n /\ n - n = 0
    BY <1>1, <1>9
  <2> QED
    BY <2>1 DEF N
<1>11. Left(0) = text \o end
  <2>1. SubSeq(text, 0 + 1, n) = text
    BY SubSeqFull
  <2> QED
    BY <2>1
<1>12. f[1] = Left(0)
  <2> HIDE DEF Left
  <2> QED
    BY <1>3, <1>10
<1> QED
  BY <1>4, <1>11, <1>12 DEF e, c

(* Nor does the parser cut the code of a text short.                       *)
LEMMA EveryTextReturns ==
  ASSUME NEW text \in Seq(Byte)
  PROVE  RoundTrips(text)
<1>1. url_encode(text) \in Seq(Coded)
  BY EncodedIsCoded
<1>2. Coded \intersect (White \union {Question, Plus}) = {}
  BY CodedBytes
<1>3. UpToFirst(url_encode(text), White \union {Question, Plus}) = url_encode(text)
  BY <1>1, <1>2, NotCutShort
<1> QED
  BY <1>3, DecodesAll DEF RoundTrips

(* Whatever bytes a name is made of, of whatever length, the path that     *)
(* url_encode makes of it is read by the parser as that name.              *)
THEOREM TextsRoundTrip == Spec => []UrlRoundTrip
<1>1. Text \subseteq Seq(Byte)
  BY ListingAssumption
<1>2. UrlRoundTrip
  BY <1>1, EveryTextReturns DEF UrlRoundTrip
<1> QED
  BY <1>2, PTL

-----------------------------------------------------------------------------
(* The elements of a sequence that lie in a set, one element at a time.    *)
Parts(s, T) == [i \in DOMAIN s |-> IF s[i] \in T THEN <<s[i]>> ELSE << >>]

OneOf(x, T) == IF x \in T THEN <<x>> ELSE << >>

LEMMA OneOfType ==
  ASSUME NEW S, NEW x \in S, NEW T
  PROVE  OneOf(x, T) \in Seq(S)
<1>1. << >> \in Seq(S) /\ <<x>> \in Seq(S)
  BY EmptySeq
<1> QED
  BY <1>1 DEF OneOf

LEMMA PartsType ==
  ASSUME NEW S, NEW s \in Seq(S), NEW T
  PROVE  /\ Parts(s, T) \in Seq(Seq(S)) /\ Len(Parts(s, T)) = Len(s)
         /\ \A i \in 1 .. Len(s) : Parts(s, T)[i] = OneOf(s[i], T)
         /\ Only(s, T) = FlattenSeq(Parts(s, T))
<1>1. Len(s) \in Nat /\ DOMAIN s = 1 .. Len(s)
  BY LenProperties
<1>2. \A i \in 1 .. Len(s) : s[i] \in S
  BY ElementOfSeq
<1>3. \A i \in 1 .. Len(s) : OneOf(s[i], T) \in Seq(S)
  BY <1>2, OneOfType
<1>4. Parts(s, T) = [i \in 1 .. Len(s) |-> OneOf(s[i], T)]
  BY <1>1 DEF Parts, OneOf
<1>5. Parts(s, T) \in [1 .. Len(s) -> Seq(S)]
  BY <1>3, <1>4
<1>6. Parts(s, T) \in Seq(Seq(S)) /\ Len(Parts(s, T)) = Len(s)
  BY <1>1, <1>5
<1>7. Only(s, T) = FlattenSeq(Parts(s, T))
  BY DEF Only, Parts
<1> QED
  BY <1>4, <1>6, <1>7

LEMMA OnlyAppend ==
  ASSUME NEW S, NEW s \in Seq(S), NEW x \in S, NEW T
  PROVE  /\ Only(s, T) \in Seq(S)
         /\ Only(Append(s, x), T) = Only(s, T) \o OneOf(x, T)
<1> DEFINE t == Append(s, x)
           a == Parts(s, T)
           b == Parts(t, T)
<1>1. /\ t \in Seq(S) /\ Len(t) = Len(s) + 1 /\ t[Len(s) + 1] = x /\ Len(s) \in Nat
      /\ \A i \in 1 .. Len(s) : t[i] = s[i]
  BY AppendProperties, LenProperties
<1> HIDE DEF t
<1>2. /\ a \in Seq(Seq(S)) /\ Len(a) = Len(s)
      /\ \A i \in 1 .. Len(s) : a[i] = OneOf(s[i], T)
      /\ Only(s, T) = FlattenSeq(a)
  BY PartsType
<1>3. /\ b \in Seq(Seq(S)) /\ Len(b) = Len(s) + 1
      /\ \A i \in 1 .. Len(s) + 1 : b[i] = OneOf(t[i], T)
      /\ Only(t, T) = FlattenSeq(b)
  BY <1>1, PartsType
<1> HIDE DEF a, b
<1>4. OneOf(x, T) \in Seq(S)
  BY OneOfType
<1> DEFINE o == OneOf(x, T)
           c == Append(a, o)
<1>5. /\ c \in Seq(Seq(S)) /\ Len(c) = Len(a) + 1 /\ c[Len(a) + 1] = o
      /\ \A i \in 1 .. Len(a) : c[i] = a[i]
  BY <1>2, <1>4, AppendProperties
<1> HIDE DEF c
<1>6. ASSUME NEW i \in 1 .. Len(s) + 1 PROVE b[i] = c[i]
  <2>1. CASE i \in 1 .. Len(s)
    BY <1>1, <1>2, <1>3, <1>5, <2>1
  <2>2. CASE i = Len(s) + 1
    BY <1>1, <1>2, <1>3, <1>5, <2>2
  <2> QED
    BY <1>1, <2>1, <2>2
<1>7. b = c
  BY <1>2, <1>3, <1>5, <1>6, SeqEqual
<1>8. FlattenSeq(Append(a, o)) = FlattenSeq(a) \o o
  BY <1>2, <1>4, FlattenStep
<1>9. FlattenSeq(a) \in Seq(S)
  BY <1>2, FlattenType
<1> QED
  BY <1>2, <1>3, <1>7, <1>8, <1>9 DEF c, t

LEMMA OnlyOfEmpty == ASSUME NEW T PROVE Only(<< >>, T) = << >>
<1>1. PICK e \in Seq({}) : e = << >>
  BY EmptySeq
<1>2. /\ Parts(e, T) \in Seq(Seq({})) /\ Len(Parts(e, T)) = 0
      /\ Only(e, T) = FlattenSeq(Parts(e, T))
  BY <1>1, PartsType
<1>3. Parts(e, T) = << >>
  BY <1>2, EmptySeq
<1> QED
  BY <1>1, <1>2, <1>3, FlattenEmpty

(* Nothing is left out where everything lies in the set.                   *)
LEMMA OnlyAll ==
  ASSUME NEW S, NEW s \in Seq(S), NEW T, \A i \in 1 .. Len(s) : s[i] \in T
  PROVE  Only(s, T) = s
<1> DEFINE U == {t \in Seq(S) : (\A i \in 1 .. Len(t) : t[i] \in T) => Only(t, T) = t}
<1>1. << >> \in U
  BY OnlyOfEmpty, EmptySeq
<1>2. ASSUME NEW t \in Seq(S) \intersect U, NEW x \in S PROVE Append(t, x) \in U
  <2>1. /\ Append(t, x) \in Seq(S) /\ Len(Append(t, x)) = Len(t) + 1 /\ Len(t) \in Nat
        /\ Append(t, x)[Len(t) + 1] = x /\ Append(t, x) = t \o <<x>>
        /\ \A i \in 1 .. Len(t) : Append(t, x)[i] = t[i]
    BY AppendProperties, AppendIsConcat, LenProperties
  <2> DEFINE a == Append(t, x)
  <2> HIDE DEF a
  <2> SUFFICES ASSUME \A i \in 1 .. Len(t) + 1 : a[i] \in T PROVE Only(a, T) = a
    BY <2>1 DEF a
  <2>2. x \in T /\ \A i \in 1 .. Len(t) : t[i] \in T
    <3>1. /\ Len(t) + 1 \in 1 .. Len(t) + 1
          /\ \A i \in 1 .. Len(t) : i \in 1 .. Len(t) + 1
      BY <2>1
    <3> QED
      BY <2>1, <3>1 DEF a
  <2>3. Only(t, T) = t
    BY <2>2
  <2>4. Only(a, T) = Only(t, T) \o OneOf(x, T)
    BY OnlyAppend DEF a
  <2> QED
    BY <2>1, <2>2, <2>3, <2>4 DEF a, OneOf
<1>3. Seq(S) \subseteq U
  <2> HIDE DEF U
  <2> QED
    BY <1>1, <1>2, SeqSetInduction
<1> QED
  BY <1>3

-----------------------------------------------------------------------------
(* A path as text: a slash before each of its names.  The name after the   *)
(* last slash of a path that ends in one is empty.                         *)
NameByte == Byte \ {Slash}
PathName == Seq(NameByte)

Joined(names) == FlattenSeq([i \in DOMAIN names |-> <<Slash>> \o names[i]])

LEMMA PathNameIsText ==
  ASSUME NEW n \in PathName
  PROVE  n \in Seq(Byte) /\ <<Slash>> \in Seq(Byte) /\ <<Slash>> \o n \in Seq(Byte)
<1>1. NameByte \subseteq Byte /\ Slash \in Byte
  BY DEF NameByte, Byte, Slash
<1>2. n \in Seq(Byte) /\ <<Slash>> \in Seq(Byte)
  BY <1>1 DEF PathName
<1> QED
  BY <1>2, ConcatProperties

LEMMA SlashIsItself == url_encode(<<Slash>>) = <<Slash>>
<1>0. Slash \in Byte
  BY DEF Byte, Slash
<1>1. PICK t \in Seq(Byte) : t = <<Slash>>
  <2>1. <<Slash>> \in Seq(Byte)
    BY <1>0
  <2> QED
    BY <2>1
<1>2. Len(t) = 1 /\ t[1] = Slash
  BY <1>1
<1>3. /\ Codes(t) \in Seq(Seq(Coded)) /\ Len(Codes(t)) = 1 /\ Codes(t)[1] = Code(Slash)
      /\ url_encode(t) = FlattenSeq(Codes(t))
  BY <1>2, EncodedIsCoded
<1>4. Code(Slash) = <<Slash>>
  BY DEF Code, Unreserved
<1>5. Codes(t) = << <<Slash>> >>
  BY <1>3, <1>4
<1>6. FlattenSeq(<< <<Slash>> >>) = <<Slash>>
  BY FlattenOne
<1> QED
  BY <1>1, <1>3, <1>5, <1>6

(* The code of a text is that of its beginning, then that of its end.      *)
LEMMA EncodeConcat ==
  ASSUME NEW s \in Seq(Byte), NEW t \in Seq(Byte)
  PROVE  /\ url_encode(s \o t) = url_encode(s) \o url_encode(t)
         /\ s \o t \in Seq(Byte)
<1> DEFINE u == s \o t
           c == Codes(s)
           d == Codes(t)
           e == Codes(u)
<1>1. /\ u \in Seq(Byte) /\ Len(u) = Len(s) + Len(t) /\ Len(s) \in Nat /\ Len(t) \in Nat
      /\ \A i \in 1 .. Len(s) + Len(t) :
           u[i] = IF i <= Len(s) THEN s[i] ELSE t[i - Len(s)]
  BY ConcatProperties, LenProperties
<1> HIDE DEF u
<1>2. /\ c \in Seq(Seq(Coded)) /\ Len(c) = Len(s) /\ url_encode(s) = FlattenSeq(c)
      /\ \A i \in 1 .. Len(s) : c[i] = Code(s[i])
  BY EncodedIsCoded
<1>3. /\ d \in Seq(Seq(Coded)) /\ Len(d) = Len(t) /\ url_encode(t) = FlattenSeq(d)
      /\ \A i \in 1 .. Len(t) : d[i] = Code(t[i])
  BY EncodedIsCoded
<1>4. /\ e \in Seq(Seq(Coded)) /\ Len(e) = Len(s) + Len(t) /\ url_encode(u) = FlattenSeq(e)
      /\ \A i \in 1 .. Len(s) + Len(t) : e[i] = Code(u[i])
  BY <1>1, EncodedIsCoded
<1> HIDE DEF c, d, e
<1>5. /\ c \o d \in Seq(Seq(Coded)) /\ Len(c \o d) = Len(s) + Len(t)
      /\ \A i \in 1 .. Len(s) + Len(t) :
           (c \o d)[i] = IF i <= Len(s) THEN c[i] ELSE d[i - Len(s)]
  <2>1. c \in Seq(Seq(Coded)) /\ d \in Seq(Seq(Coded))
    BY <1>2, <1>3
  <2>2. /\ c \o d \in Seq(Seq(Coded)) /\ Len(c \o d) = Len(c) + Len(d)
        /\ \A i \in 1 .. Len(c) + Len(d) :
             (c \o d)[i] = IF i <= Len(c) THEN c[i] ELSE d[i - Len(c)]
    BY <2>1, ConcatProperties
  <2>3. Len(c) = Len(s) /\ Len(d) = Len(t)
    BY <1>2, <1>3
  <2> QED
    BY <2>2, <2>3
<1>6. ASSUME NEW i \in 1 .. Len(s) + Len(t) PROVE e[i] = (c \o d)[i]
  <2>1. CASE i <= Len(s)
    <3>1. i \in 1 .. Len(s)
      BY <1>1, <2>1
    <3> QED
      BY <1>1, <1>2, <1>4, <1>5, <2>1, <3>1
  <2>2. CASE ~(i <= Len(s))
    <3>1. i - Len(s) \in 1 .. Len(t)
      BY <1>1, <2>2
    <3> QED
      BY <1>1, <1>3, <1>4, <1>5, <2>2, <3>1
  <2> QED
    BY <2>1, <2>2
<1>7. e = c \o d
  BY <1>4, <1>5, <1>6, SeqEqual
<1>8. FlattenSeq(c \o d) = FlattenSeq(c) \o FlattenSeq(d)
  BY <1>2, <1>3, FlattenConcat
<1> QED
  BY <1>1, <1>2, <1>3, <1>4, <1>7, <1>8 DEF u

(* Joining one name more.                                                  *)
LEMMA JoinedAppend ==
  ASSUME NEW names \in Seq(PathName), NEW n \in PathName
  PROVE  /\ Joined(names) \in Seq(Byte)
         /\ Joined(Append(names, n)) = Joined(names) \o (<<Slash>> \o n)
<1> DEFINE P(s) == [i \in DOMAIN s |-> <<Slash>> \o s[i]]
           more == Append(names, n)
<1>1. ASSUME NEW s \in Seq(PathName)
      PROVE  /\ P(s) \in Seq(Seq(Byte)) /\ Len(P(s)) = Len(s)
             /\ \A i \in 1 .. Len(s) : P(s)[i] = <<Slash>> \o s[i]
  <2>1. Len(s) \in Nat /\ DOMAIN s = 1 .. Len(s)
    BY LenProperties
  <2>2. \A i \in 1 .. Len(s) : <<Slash>> \o s[i] \in Seq(Byte)
    BY ElementOfSeq, PathNameIsText
  <2>3. P(s) \in [1 .. Len(s) -> Seq(Byte)]
    BY <2>1, <2>2
  <2> QED
    BY <2>1, <2>3
<1>2. /\ more \in Seq(PathName) /\ Len(more) = Len(names) + 1 /\ more[Len(names) + 1] = n
      /\ Len(names) \in Nat /\ \A i \in 1 .. Len(names) : more[i] = names[i]
  BY AppendProperties, LenProperties
<1> HIDE DEF more
<1> DEFINE a == P(names)
           b == P(more)
           x == <<Slash>> \o n
<1>3. x \in Seq(Byte)
  BY PathNameIsText
<1>4. /\ a \in Seq(Seq(Byte)) /\ Len(a) = Len(names)
      /\ \A i \in 1 .. Len(names) : a[i] = <<Slash>> \o names[i]
  BY <1>1
<1>5. /\ b \in Seq(Seq(Byte)) /\ Len(b) = Len(names) + 1
      /\ \A i \in 1 .. Len(names) + 1 : b[i] = <<Slash>> \o more[i]
  BY <1>1, <1>2
<1>6. Joined(names) = FlattenSeq(a) /\ Joined(more) = FlattenSeq(b)
  BY DEF Joined
<1>7. b[Len(names) + 1] = x
  BY <1>2, <1>5
<1> HIDE DEF a, b, x, P
<1> DEFINE c == Append(a, x)
<1>8. /\ c \in Seq(Seq(Byte)) /\ Len(c) = Len(a) + 1 /\ c[Len(a) + 1] = x
      /\ \A i \in 1 .. Len(a) : c[i] = a[i]
  BY <1>3, <1>4, AppendProperties
<1> HIDE DEF c
<1>9. ASSUME NEW i \in 1 .. Len(names) + 1 PROVE b[i] = c[i]
  <2>1. CASE i \in 1 .. Len(names)
    BY <1>2, <1>4, <1>5, <1>8, <2>1
  <2>2. CASE i = Len(names) + 1
    BY <1>4, <1>7, <1>8, <2>2
  <2> QED
    BY <1>2, <2>1, <2>2
<1>10. b = c
  BY <1>4, <1>5, <1>8, <1>9, SeqEqual
<1>11. FlattenSeq(Append(a, x)) = FlattenSeq(a) \o x /\ FlattenSeq(a) \in Seq(Byte)
  BY <1>3, <1>4, FlattenStep, FlattenType
<1> QED
  BY <1>6, <1>10, <1>11 DEF c, x, more

LEMMA JoinedEmpty == Joined(<< >>) = << >>
<1>1. [i \in DOMAIN << >> |-> <<Slash>> \o << >>[i]] = << >>
  OBVIOUS
<1> QED
  BY <1>1, FlattenEmpty DEF Joined

(* The same of the encoded names.                                          *)
LEMMA EncodedNamesAppend ==
  ASSUME NEW names \in Seq(PathName), NEW n \in PathName
  PROVE  EncodedNames(Append(names, n))
           = EncodedNames(names) \o (<<Slash>> \o url_encode(n))
<1> DEFINE P(s) == [i \in DOMAIN s |-> <<Slash>> \o url_encode(s[i])]
           more == Append(names, n)
<1>0. ASSUME NEW m \in PathName PROVE <<Slash>> \o url_encode(m) \in Seq(Byte)
  <2>1. url_encode(m) \in Seq(Coded) /\ Coded \subseteq Byte
    BY PathNameIsText, EncodedIsCoded, CodedBytes
  <2>2. url_encode(m) \in Seq(Byte) /\ <<Slash>> \in Seq(Byte)
    BY <2>1, PathNameIsText
  <2> QED
    BY <2>2, ConcatProperties
<1>1. ASSUME NEW s \in Seq(PathName)
      PROVE  /\ P(s) \in Seq(Seq(Byte)) /\ Len(P(s)) = Len(s)
             /\ \A i \in 1 .. Len(s) : P(s)[i] = <<Slash>> \o url_encode(s[i])
  <2>1. Len(s) \in Nat /\ DOMAIN s = 1 .. Len(s)
    BY LenProperties
  <2>2. \A i \in 1 .. Len(s) : <<Slash>> \o url_encode(s[i]) \in Seq(Byte)
    BY <1>0, ElementOfSeq
  <2>3. P(s) \in [1 .. Len(s) -> Seq(Byte)]
    BY <2>1, <2>2
  <2> QED
    BY <2>1, <2>3
<1>2. /\ more \in Seq(PathName) /\ Len(more) = Len(names) + 1 /\ more[Len(names) + 1] = n
      /\ Len(names) \in Nat /\ \A i \in 1 .. Len(names) : more[i] = names[i]
  BY AppendProperties, LenProperties
<1> HIDE DEF more
<1> DEFINE a == P(names)
           b == P(more)
           x == <<Slash>> \o url_encode(n)
<1>3. x \in Seq(Byte)
  BY <1>0
<1>4. /\ a \in Seq(Seq(Byte)) /\ Len(a) = Len(names)
      /\ \A i \in 1 .. Len(names) : a[i] = <<Slash>> \o url_encode(names[i])
  BY <1>1
<1>5. /\ b \in Seq(Seq(Byte)) /\ Len(b) = Len(names) + 1
      /\ \A i \in 1 .. Len(names) + 1 : b[i] = <<Slash>> \o url_encode(more[i])
  BY <1>1, <1>2
<1>6. EncodedNames(names) = FlattenSeq(a) /\ EncodedNames(more) = FlattenSeq(b)
  BY DEF EncodedNames
<1>7. b[Len(names) + 1] = x
  BY <1>2, <1>5
<1> HIDE DEF a, b, x, P
<1> DEFINE c == Append(a, x)
<1>8. /\ c \in Seq(Seq(Byte)) /\ Len(c) = Len(a) + 1 /\ c[Len(a) + 1] = x
      /\ \A i \in 1 .. Len(a) : c[i] = a[i]
  BY <1>3, <1>4, AppendProperties
<1> HIDE DEF c
<1>9. ASSUME NEW i \in 1 .. Len(names) + 1 PROVE b[i] = c[i]
  <2>1. CASE i \in 1 .. Len(names)
    BY <1>2, <1>4, <1>5, <1>8, <2>1
  <2>2. CASE i = Len(names) + 1
    BY <1>4, <1>7, <1>8, <2>2
  <2> QED
    BY <1>2, <2>1, <2>2
<1>10. b = c
  BY <1>4, <1>5, <1>8, <1>9, SeqEqual
<1>11. FlattenSeq(Append(a, x)) = FlattenSeq(a) \o x
  BY <1>3, <1>4, FlattenStep
<1> QED
  BY <1>6, <1>10, <1>11 DEF c, x, more

LEMMA EncodeEmpty == url_encode(<< >>) = << >>
<1>1. PICK e \in Seq(Byte) : e = << >>
  BY EmptySeq
<1>2. /\ Codes(e) \in Seq(Seq(Coded)) /\ Len(Codes(e)) = 0
      /\ url_encode(e) = FlattenSeq(Codes(e))
  BY <1>1, EncodedIsCoded
<1>3. Codes(e) = << >>
  BY <1>2, EmptySeq
<1> QED
  BY <1>1, <1>2, <1>3, FlattenEmpty

(* Encoding name by name is encoding the path, as a slash stays itself.    *)
LEMMA EncodedIsJoined ==
  ASSUME NEW names \in Seq(PathName)
  PROVE  Joined(names) \in Seq(Byte) /\ EncodedNames(names) = url_encode(Joined(names))
<1> DEFINE U == {s \in Seq(PathName) :
                   Joined(s) \in Seq(Byte) /\ EncodedNames(s) = url_encode(Joined(s))}
<1>1. << >> \in U
  <2>1. << >> \in Seq(PathName) /\ << >> \in Seq(Byte)
    BY EmptySeq
  <2>2. EncodedNames(<< >>) = << >>
    <3>1. [i \in DOMAIN << >> |-> <<Slash>> \o url_encode(<< >>[i])] = << >>
      OBVIOUS
    <3> QED
      BY <3>1, FlattenEmpty DEF EncodedNames
  <2>3. url_encode(<< >>) = << >>
    BY EncodeEmpty
  <2> QED
    BY <2>1, <2>2, <2>3, JoinedEmpty
<1>2. ASSUME NEW s \in Seq(PathName) \intersect U, NEW n \in PathName
      PROVE  Append(s, n) \in U
  <2> DEFINE j == Joined(s)
             x == <<Slash>> \o n
  <2>1. j \in Seq(Byte) /\ x \in Seq(Byte) /\ n \in Seq(Byte) /\ <<Slash>> \in Seq(Byte)
    BY PathNameIsText
  <2>2. Joined(Append(s, n)) = j \o x
    BY JoinedAppend
  <2>3. EncodedNames(Append(s, n)) = url_encode(j) \o (<<Slash>> \o url_encode(n))
    BY EncodedNamesAppend
  <2>4. url_encode(x) = <<Slash>> \o url_encode(n)
    <3>1. url_encode(<<Slash>> \o n) = url_encode(<<Slash>>) \o url_encode(n)
      BY <2>1, EncodeConcat
    <3> QED
      BY <3>1, SlashIsItself
  <2> HIDE DEF j, x
  <2>5. url_encode(j \o x) = url_encode(j) \o url_encode(x) /\ j \o x \in Seq(Byte)
    BY <2>1, EncodeConcat
  <2>6. Append(s, n) \in Seq(PathName)
    BY AppendProperties
  <2> QED
    BY <2>2, <2>3, <2>4, <2>5, <2>6
<1>3. Seq(PathName) \subseteq U
  <2> HIDE DEF U
  <2> QED
    BY <1>1, <1>2, SeqSetInduction
<1> QED
  BY <1>3

-----------------------------------------------------------------------------
(* A sequence without its last element, and that element.                  *)
LEMMA FrontAndLast ==
  ASSUME NEW S, NEW s \in Seq(S), NEW x \in S
  PROVE  /\ Front(Append(s, x)) = s /\ Last(Append(s, x)) = x
         /\ Append(s, x) # << >> /\ Len(Append(s, x)) = Len(s) + 1
<1> DEFINE t == Append(s, x)
<1>1. /\ t \in Seq(S) /\ Len(t) = Len(s) + 1 /\ t[Len(s) + 1] = x /\ Len(s) \in Nat
      /\ \A i \in 1 .. Len(s) : t[i] = s[i]
  BY AppendProperties, LenProperties
<1> HIDE DEF t
<1>2. (Len(s) + 1) - 1 = Len(s) /\ Len(s) \in 0 .. Len(s) + 1
  BY <1>1
<1>3. /\ SubSeq(t, 1, Len(s)) \in Seq(S) /\ Len(SubSeq(t, 1, Len(s))) = Len(s)
      /\ \A i \in 1 .. Len(s) : SubSeq(t, 1, Len(s))[i] = t[i]
  BY <1>1, <1>2, CutInTwo
<1>4. SubSeq(t, 1, Len(s)) = s
  BY <1>1, <1>3, SeqEqual
<1>5. Front(t) = s /\ Last(t) = x
  BY <1>1, <1>2, <1>4 DEF Front, Last
<1>6. t # << >>
  BY <1>1, EmptySeq
<1> QED
  BY <1>1, <1>5, <1>6 DEF t

LEMMA FrontThenLast ==
  ASSUME NEW S, NEW s \in Seq(S), s # << >>
  PROVE  Front(s) \in Seq(S) /\ Last(s) \in S /\ s = Append(Front(s), Last(s))
<1> DEFINE n == Len(s) - 1
<1>1. Len(s) \in Nat \ {0}
  BY EmptySeq
<1>2. n \in 0 .. Len(s) /\ n + 1 = Len(s) /\ Len(s) \in 1 .. Len(s) /\ n \in Nat
  BY <1>1
<1>3. /\ SubSeq(s, 1, n) \in Seq(S) /\ Len(SubSeq(s, 1, n)) = n
      /\ \A i \in 1 .. n : SubSeq(s, 1, n)[i] = s[i]
  BY <1>2, CutInTwo
<1>4. Front(s) = SubSeq(s, 1, n) /\ Last(s) = s[n + 1] /\ s[n + 1] \in S
  BY <1>2, ElementOfSeq DEF Front, Last
<1> HIDE DEF n
<1> DEFINE f == SubSeq(s, 1, n)
           l == s[n + 1]
<1> HIDE DEF f, l
<1>5. f \in Seq(S) /\ Len(f) = n /\ l \in S /\ \A i \in 1 .. n : f[i] = s[i]
  BY <1>3, <1>4 DEF f, l
<1>6. /\ Append(f, l) \in Seq(S) /\ Len(Append(f, l)) = n + 1 /\ Append(f, l)[n + 1] = l
      /\ \A i \in 1 .. n : Append(f, l)[i] = f[i]
  BY <1>5, AppendProperties
<1>7. ASSUME NEW i \in 1 .. n + 1 PROVE Append(f, l)[i] = s[i]
  <2>1. i \in 1 .. n \/ i = n + 1
    BY <1>2
  <2> QED
    BY <1>5, <1>6, <2>1 DEF l
<1>8. Append(f, l) = s
  BY <1>2, <1>6, <1>7, SeqEqual
<1> QED
  BY <1>4, <1>5, <1>8 DEF f, l

LEMMA LastOfConcat ==
  ASSUME NEW S, NEW s \in Seq(S), NEW t \in Seq(S), Len(t) \in Nat \ {0}
  PROVE  LET u == s \o t
         IN  u \in Seq(S) /\ Len(u) \in Nat \ {0} /\ u[Len(u)] = t[Len(t)]
<1> DEFINE u == s \o t
<1>1. /\ u \in Seq(S) /\ Len(u) = Len(s) + Len(t) /\ Len(s) \in Nat
      /\ \A i \in 1 .. Len(s) + Len(t) :
           u[i] = IF i <= Len(s) THEN s[i] ELSE t[i - Len(s)]
  BY ConcatProperties, LenProperties
<1> HIDE DEF u
<1>2. /\ Len(s) + Len(t) \in 1 .. Len(s) + Len(t) /\ ~(Len(s) + Len(t) <= Len(s))
      /\ (Len(s) + Len(t)) - Len(s) = Len(t) /\ Len(s) + Len(t) \in Nat \ {0}
  BY <1>1
<1>3. u[Len(u)] = t[Len(t)]
  BY <1>1, <1>2
<1> QED
  BY <1>1, <1>2, <1>3 DEF u

-----------------------------------------------------------------------------
(* Split is a recursive function too: what it makes of the first k bytes   *)
(* of a text, when f says what it makes of fewer.                          *)
SplitAt(text, f, k) ==
  IF k = 0 THEN << << >> >>
  ELSE IF text[k] = Slash THEN Append(f[k - 1], << >>)
  ELSE Append(Front(f[k - 1]), Append(Last(f[k - 1]), text[k]))

IsSplitting(f, text, n) == f = [k \in 0 .. n |-> SplitAt(text, f, k)]

LEMMA SplittingStep ==
  ASSUME NEW text, NEW n \in Nat, NEW f, IsSplitting(f, text, n), NEW k \in 0 .. n
  PROVE  f[k] = SplitAt(text, f, k)
  BY DEF IsSplitting

LEMMA SplittingExists ==
  ASSUME NEW text, NEW n \in Nat
  PROVE  \E f : IsSplitting(f, text, n)
<1> DEFINE N == {m \in Nat : \E f : IsSplitting(f, text, m)}
<1>1. 0 \in N
  <2> DEFINE f == [k \in 0 .. 0 |-> << << >> >>]
  <2>1. \A k \in 0 .. 0 : SplitAt(text, f, k) = << << >> >>
    BY DEF SplitAt
  <2>2. IsSplitting(f, text, 0)
    BY <2>1 DEF IsSplitting
  <2> QED
    BY <2>2
<1>2. ASSUME NEW m \in Nat, m \in N PROVE m + 1 \in N
  <2>1. PICK f : IsSplitting(f, text, m)
    BY <1>2
  <2> DEFINE g == [k \in 0 .. m + 1 |-> SplitAt(text, f, k)]
  <2>2. ASSUME NEW k \in 0 .. m PROVE g[k] = f[k]
    <3>1. g[k] = SplitAt(text, f, k)
      OBVIOUS
    <3> QED
      BY <2>1, <3>1, SplittingStep
  <2>3. ASSUME NEW k \in 0 .. m + 1 PROVE g[k] = SplitAt(text, g, k)
    <3>1. k # 0 => k - 1 \in 0 .. m
      OBVIOUS
    <3>2. k # 0 => g[k - 1] = f[k - 1]
      <4> HIDE DEF g
      <4> QED
        BY <2>2, <3>1
    <3>3. g[k] = SplitAt(text, f, k)
      OBVIOUS
    <3> HIDE DEF g
    <3> QED
      BY <3>2, <3>3 DEF SplitAt
  <2>4. g = [k \in 0 .. m + 1 |-> g[k]]
    OBVIOUS
  <2> HIDE DEF g
  <2>5. [k \in 0 .. m + 1 |-> g[k]] = [k \in 0 .. m + 1 |-> SplitAt(text, g, k)]
    BY <2>3
  <2>6. IsSplitting(g, text, m + 1)
    BY <2>4, <2>5 DEF IsSplitting
  <2> QED
    BY <2>6
<1>3. Nat \subseteq N
  <2> HIDE DEF N
  <2> QED
    BY <1>1, <1>2, NatSetInduction
<1> QED
  BY <1>3

(* Texts with the same beginning are split in the same way so far.         *)
LEMMA SplittingsAgree ==
  ASSUME NEW s, NEW t, NEW m \in Nat, NEW n \in Nat, NEW f, NEW g,
         IsSplitting(f, s, m), IsSplitting(g, t, n),
         NEW k \in Nat, k <= m, k <= n, \A i \in 1 .. k : s[i] = t[i]
  PROVE  f[k] = g[k]
<1> DEFINE N == {j \in Nat : j <= k => f[j] = g[j]}
<1>1. 0 \in N
  <2>1. 0 \in 0 .. m /\ 0 \in 0 .. n
    OBVIOUS
  <2>2. f[0] = SplitAt(s, f, 0) /\ g[0] = SplitAt(t, g, 0)
    BY <2>1, SplittingStep
  <2> QED
    BY <2>2 DEF SplitAt
<1>2. ASSUME NEW j \in Nat, j \in N PROVE j + 1 \in N
  <2> SUFFICES ASSUME j + 1 <= k PROVE f[j + 1] = g[j + 1]
    OBVIOUS
  <2>1. /\ j + 1 \in 0 .. m /\ j + 1 \in 0 .. n /\ j + 1 \in 1 .. k
        /\ (j + 1) - 1 = j /\ j <= k /\ j + 1 # 0
    OBVIOUS
  <2>2. f[j + 1] = SplitAt(s, f, j + 1) /\ g[j + 1] = SplitAt(t, g, j + 1)
    BY <2>1, SplittingStep
  <2>3. s[j + 1] = t[j + 1] /\ f[j] = g[j]
    BY <1>2, <2>1
  <2> QED
    BY <2>1, <2>2, <2>3 DEF SplitAt
<1>3. Nat \subseteq N
  <2> HIDE DEF N
  <2> QED
    BY <1>1, <1>2, NatSetInduction
<1> QED
  BY <1>3

(* All that a text is split into, the empty name before a first slash too. *)
Splitting(text) == CHOOSE f : IsSplitting(f, text, Len(text))
SplitAll(text)  == Splitting(text)[Len(text)]

LEMMA SplitIsSplitAll ==
  ASSUME NEW text
  PROVE  Split(text) = IF Head(SplitAll(text)) = << >> THEN Tail(SplitAll(text))
                       ELSE SplitAll(text)
  BY DEF Split, SplitAll, Splitting, IsSplitting, SplitAt

LEMMA SplitAllEmpty == SplitAll(<< >>) = << << >> >>
<1>1. Len(<< >>) = 0 /\ 0 \in Nat /\ 0 \in 0 .. 0
  OBVIOUS
<1>2. IsSplitting(Splitting(<< >>), << >>, 0)
  BY <1>1, SplittingExists DEF Splitting
<1>3. Splitting(<< >>)[0] = SplitAt(<< >>, Splitting(<< >>), 0)
  BY <1>1, <1>2, SplittingStep
<1> QED
  BY <1>1, <1>3 DEF SplitAll, SplitAt

LEMMA SplitAllAppend ==
  ASSUME NEW text \in Seq(Byte), NEW b \in Byte
  PROVE  SplitAll(Append(text, b))
           = IF b = Slash THEN Append(SplitAll(text), << >>)
             ELSE Append(Front(SplitAll(text)), Append(Last(SplitAll(text)), b))
<1> DEFINE n == Len(text)
           t == Append(text, b)
           f == Splitting(text)
           g == Splitting(t)
<1>1. /\ n \in Nat /\ Len(t) = n + 1 /\ t[n + 1] = b
      /\ \A i \in 1 .. n : t[i] = text[i]
  BY AppendProperties, LenProperties
<1>2. IsSplitting(f, text, n)
  BY <1>1, SplittingExists DEF Splitting
<1>3. IsSplitting(g, t, n + 1)
  BY <1>1, SplittingExists DEF Splitting
<1>4. SplitAll(text) = f[n] /\ SplitAll(t) = g[n + 1]
  BY <1>1 DEF SplitAll
<1> HIDE DEF n, t, f, g
<1>5. /\ n <= n /\ n <= n + 1 /\ n + 1 \in Nat /\ n + 1 \in 0 .. n + 1
      /\ n + 1 # 0 /\ (n + 1) - 1 = n
  BY <1>1
<1>6. f[n] = g[n]
  BY <1>1, <1>2, <1>3, <1>5, SplittingsAgree
<1>7. g[n + 1] = SplitAt(t, g, n + 1)
  BY <1>3, <1>5, SplittingStep
<1> QED
  BY <1>1, <1>4, <1>5, <1>6, <1>7 DEF SplitAt, t

(* A slash and a name without one at the end of a text add that name.      *)
LEMMA SplitAllName ==
  ASSUME NEW text \in Seq(Byte), SplitAll(text) \in Seq(PathName), NEW n \in PathName
  PROVE  SplitAll(text \o (<<Slash>> \o n)) = Append(SplitAll(text), n)
<1> DEFINE all == SplitAll(text)
           U == {m \in PathName : SplitAll(text \o (<<Slash>> \o m)) = Append(all, m)}
<1>0. /\ Slash \in Byte /\ <<Slash>> \in Seq(Byte) /\ << >> \in PathName
      /\ << >> \in Seq(Byte) /\ NameByte \subseteq Byte /\ Slash \notin NameByte
  BY EmptySeq DEF Byte, Slash, NameByte, PathName
<1>1. << >> \in U
  <2>1. <<Slash>> \o << >> = <<Slash>>
    BY <1>0, ConcatEmptySeq
  <2>2. text \o <<Slash>> = Append(text, Slash)
    BY <1>0, AppendIsConcat
  <2>3. SplitAll(Append(text, Slash)) = Append(all, << >>)
    BY <1>0, SplitAllAppend
  <2> QED
    BY <1>0, <2>1, <2>2, <2>3
<1>2. ASSUME NEW m \in PathName \intersect U, NEW b \in NameByte PROVE Append(m, b) \in U
  <2>1. /\ m \in Seq(Byte) /\ <<Slash>> \o m \in Seq(Byte) /\ b \in Byte /\ <<b>> \in Seq(Byte)
    <3>1. <<b>> \in Seq(Byte)
      BY <1>0
    <3> QED
      BY <1>0, <3>1, PathNameIsText
  <2> DEFINE x == <<Slash>> \o m
             u == text \o x
  <2>2. <<Slash>> \o Append(m, b) = Append(x, b)
    <3>1. Append(m, b) = m \o <<b>>
      BY <2>1, AppendIsConcat
    <3>2. <<Slash>> \o (m \o <<b>>) = (<<Slash>> \o m) \o <<b>>
      BY <1>0, <2>1, ConcatAssociative
    <3>3. Append(x, b) = x \o <<b>>
      BY <2>1, AppendIsConcat
    <3> QED
      BY <3>1, <3>2, <3>3
  <2>3. u \in Seq(Byte) /\ text \o Append(x, b) = Append(u, b)
    <3>1. Append(x, b) = x \o <<b>>
      BY <2>1, AppendIsConcat
    <3>2. u \in Seq(Byte)
      BY <2>1, ConcatProperties
    <3>3. text \o (x \o <<b>>) = (text \o x) \o <<b>>
      BY <2>1, ConcatAssociative
    <3>4. Append(u, b) = u \o <<b>>
      BY <2>1, <3>2, AppendIsConcat
    <3> QED
      BY <3>1, <3>2, <3>3, <3>4
  <2>4. SplitAll(u) = Append(all, m)
    OBVIOUS
  <2> HIDE DEF x, u
  <2>5. b # Slash
    BY <1>0
  <2>6. SplitAll(Append(u, b))
          = Append(Front(Append(all, m)), Append(Last(Append(all, m)), b))
    BY <2>1, <2>3, <2>4, <2>5, SplitAllAppend
  <2>7. Front(Append(all, m)) = all /\ Last(Append(all, m)) = m
    BY FrontAndLast
  <2>8. Append(m, b) \in PathName
    <3>1. m \in Seq(NameByte)
      BY DEF PathName
    <3> QED
      BY <3>1, AppendProperties DEF PathName
  <2> QED
    BY <2>2, <2>3, <2>6, <2>7, <2>8
<1>3. Seq(NameByte) \subseteq U
  <2> HIDE DEF U
  <2>1. << >> \in U
    BY <1>1
  <2>2. \A m \in Seq(NameByte) \intersect U, b \in NameByte : Append(m, b) \in U
    BY <1>2 DEF PathName
  <2> QED
    BY <2>1, <2>2, SeqSetInduction
<1> QED
  BY <1>3 DEF PathName

(* A path that is joined is split into its names.                          *)
LEMMA SplitAllJoined ==
  ASSUME NEW names \in Seq(PathName)
  PROVE  SplitAll(Joined(names)) = << << >> >> \o names
<1> DEFINE one == << << >> >>
           U == {s \in Seq(PathName) : SplitAll(Joined(s)) = one \o s}
<1>0. << >> \in PathName /\ one \in Seq(PathName) /\ << >> \in Seq(PathName)
  <2>1. << >> \in PathName
    BY EmptySeq DEF PathName
  <2> QED
    BY <2>1, EmptySeq
<1>0a. SplitAll(<< >>) = one
  BY SplitAllEmpty
<1> HIDE DEF one
<1>1. << >> \in U
  <2>1. one \o << >> = one
    BY <1>0, ConcatEmptySeq
  <2> QED
    BY <1>0, <1>0a, <2>1, JoinedEmpty
<1>2. ASSUME NEW s \in Seq(PathName) \intersect U, NEW n \in PathName
      PROVE  Append(s, n) \in U
  <2>1. one \o s \in Seq(PathName)
    BY <1>0, ConcatProperties
  <2>2. Joined(s) \in Seq(Byte) /\ Joined(Append(s, n)) = Joined(s) \o (<<Slash>> \o n)
    BY JoinedAppend
  <2>3. SplitAll(Joined(s)) = one \o s
    OBVIOUS
  <2>4. SplitAll(Joined(s) \o (<<Slash>> \o n)) = Append(one \o s, n)
    BY <2>1, <2>2, <2>3, SplitAllName
  <2>5. Append(one \o s, n) = one \o Append(s, n)
    <3>1. <<n>> \in Seq(PathName)
      OBVIOUS
    <3>2. Append(one \o s, n) = (one \o s) \o <<n>> /\ Append(s, n) = s \o <<n>>
      BY <2>1, AppendIsConcat
    <3>3. (one \o s) \o <<n>> = one \o (s \o <<n>>)
      BY <1>0, <3>1, ConcatAssociative
    <3> QED
      BY <3>2, <3>3
  <2>6. Append(s, n) \in Seq(PathName)
    BY AppendProperties
  <2> QED
    BY <2>2, <2>4, <2>5, <2>6
<1>3. Seq(PathName) \subseteq U
  <2> HIDE DEF U
  <2> QED
    BY <1>0, <1>1, <1>2, SeqSetInduction
<1> QED
  BY <1>3 DEF one

LEMMA SplitJoined ==
  ASSUME NEW names \in Seq(PathName)
  PROVE  Split(Joined(names)) = names
<1> DEFINE one == << << >> >>
           all == one \o names
<1>1. SplitAll(Joined(names)) = all
  BY SplitAllJoined
<1>2. Head(all) = << >> /\ Tail(all) = names
  <2>1. << >> \in PathName
    BY EmptySeq DEF PathName
  <2>2. PICK e \in PathName : e = << >>
    BY <2>1
  <2>3. <<e>> \in Seq(PathName) /\ Len(<<e>>) = 1 /\ <<e>>[1] = e
    OBVIOUS
  <2> DEFINE o == <<e>>
  <2> HIDE DEF o
  <2>4. /\ o \o names \in Seq(PathName) /\ Len(o \o names) = 1 + Len(names)
        /\ Len(names) \in Nat /\ (o \o names)[1] = e
        /\ \A i \in 1 .. Len(names) : (o \o names)[i + 1] = names[i]
    <3>1. /\ o \o names \in Seq(PathName) /\ Len(o \o names) = Len(o) + Len(names)
          /\ \A i \in 1 .. Len(o) + Len(names) :
               (o \o names)[i] = IF i <= Len(o) THEN o[i] ELSE names[i - Len(o)]
      BY <2>3, ConcatProperties DEF o
    <3>2. Len(names) \in Nat /\ Len(o) = 1 /\ o[1] = e
      BY <2>3, LenProperties DEF o
    <3> QED
      BY <3>1, <3>2
  <2> DEFINE a == o \o names
  <2>5. Head(a) = a[1]
    <3>1. 1 \in 1 .. Len(a) /\ Len(a) \in 1 .. Len(a)
      BY <2>4
    <3>2. Head(SubSeq(a, 1, Len(a))) = a[1] /\ SubSeq(a, 1, Len(a)) = a
      <4> HIDE DEF a
      <4>1. a \in Seq(PathName)
        BY <2>4 DEF a
      <4> QED
        BY <3>1, <4>1, HeadTailOfSubSeq, SubSeqFull
    <3> QED
      BY <3>2
  <2>6. a # << >>
    BY <2>4, EmptySeq
  <2> HIDE DEF a
  <2>7. /\ Tail(a) \in Seq(PathName) /\ Len(Tail(a)) = Len(a) - 1
        /\ \A i \in 1 .. Len(Tail(a)) : Tail(a)[i] = a[i + 1]
    <3>1. a \in Seq(PathName)
      BY <2>4 DEF a
    <3> QED
      BY <2>6, <3>1, HeadTailProperties
  <2>8. Len(Tail(a)) = Len(names) /\ \A i \in 1 .. Len(names) : Tail(a)[i] = names[i]
    BY <2>4, <2>7 DEF a
  <2>9. Tail(a) = names
    BY <2>7, <2>8, SeqEqual
  <2>10. Head(a) = e
    BY <2>4, <2>5 DEF a
  <2> QED
    BY <2>2, <2>9, <2>10 DEF a, o
<1> HIDE DEF all
<1> QED
  BY <1>1, <1>2, SplitIsSplitAll

-----------------------------------------------------------------------------
(* The names of the path that is read where names were encoded, with a     *)
(* slash at the end if it is that of a directory.                          *)
PathOf(names, is_directory) ==
  IF names = << >> THEN << << >> >>
  ELSE IF is_directory /\ Last(names) # << >> THEN Append(names, << >>) ELSE names

(* The code of a name that is not empty does not end in a slash.           *)
LEMMA LastOfCode ==
  ASSUME NEW m \in PathName, NEW b \in NameByte
  PROVE  LET e == url_encode(Append(m, b))
         IN  e \in Seq(Byte) /\ Len(e) \in Nat \ {0} /\ e[Len(e)] # Slash
<1> DEFINE u == url_encode(m)
           c == Code(b)
<1>1. /\ m \in Seq(Byte) /\ b \in Byte /\ <<b>> \in Seq(Byte) /\ b # Slash
      /\ Coded \subseteq Byte
  <2>1. b \in Byte /\ b # Slash
    BY DEF NameByte
  <2>2. <<b>> \in Seq(Byte)
    BY <2>1
  <2> QED
    BY <2>1, <2>2, PathNameIsText, CodedBytes
<1>2. url_encode(Append(m, b)) = u \o url_encode(<<b>>)
  <2>1. Append(m, b) = m \o <<b>>
    BY <1>1, AppendIsConcat
  <2> QED
    BY <1>1, <2>1, EncodeConcat
<1>3. url_encode(<<b>>) = c
  <2>1. PICK t \in Seq(Byte) : t = <<b>>
    BY <1>1
  <2>2. Len(t) = 1 /\ t[1] = b
    BY <2>1
  <2>3. /\ Codes(t) \in Seq(Seq(Coded)) /\ Len(Codes(t)) = 1 /\ Codes(t)[1] = Code(b)
        /\ url_encode(t) = FlattenSeq(Codes(t))
    BY <2>2, EncodedIsCoded
  <2>4. Codes(t) = <<Code(b)>>
    BY <2>3
  <2>5. FlattenSeq(<<Code(b)>>) = Code(b)
    <3>1. Code(b) \in Seq(Coded)
      BY <1>1, CodeIsCoded
    <3> QED
      BY <3>1, FlattenOne
  <2> QED
    BY <2>1, <2>3, <2>4, <2>5
<1>4. c \in Seq(Byte) /\ Len(c) \in Nat \ {0} /\ c[Len(c)] # Slash
  <2>1. c \in Seq(Byte)
    <3>1. c \in Seq(Coded)
      BY <1>1, CodeIsCoded
    <3> HIDE DEF c
    <3> QED
      BY <1>1, <3>1
  <2>2. CASE b \in Unreserved
    <3>1. Len(c) = 1 /\ c[1] = b
      BY <1>1, <2>2, CodeIsCoded
    <3> QED
      BY <1>1, <2>1, <3>1
  <2>3. CASE b \notin Unreserved
    <3>1. Len(c) = 3 /\ c[3] = HexDigit(b % 16)
      BY <1>1, <2>3, CodeIsCoded
    <3>2. b % 16 \in 0 .. 15
      BY <1>1, ByteHalves
    <3>3. \A v \in 0 .. 15 : HexDigit(v) # Slash
      BY DEF HexDigit, Slash
    <3> QED
      BY <2>1, <3>1, <3>2, <3>3
  <2> QED
    BY <2>2, <2>3
<1>5. u \in Seq(Byte)
  <2>1. u \in Seq(Coded)
    BY <1>1, EncodedIsCoded
  <2> HIDE DEF u
  <2> QED
    BY <1>1, <2>1
<1> HIDE DEF u, c
<1> QED
  BY <1>2, <1>3, <1>4, <1>5, LastOfConcat

(* The encoded path ends in a slash if the last of the names is empty.     *)
LEMMA LastOfNames ==
  ASSUME NEW names \in Seq(PathName), names # << >>
  PROVE  LET e == EncodedNames(names)
         IN  /\ e \in Seq(Byte) /\ Len(e) \in Nat \ {0}
             /\ e[Len(e)] = Slash <=> Last(names) = << >>
<1> DEFINE f == Front(names)
           n == Last(names)
           x == EncodedNames(f)
           y == <<Slash>> \o url_encode(n)
<1>1. f \in Seq(PathName) /\ n \in PathName /\ names = Append(f, n)
  BY FrontThenLast
<1> HIDE DEF f, n
<1>2. EncodedNames(names) = x \o y
  BY <1>1, EncodedNamesAppend
<1>3. x \in Seq(Byte)
  <2>1. Joined(f) \in Seq(Byte) /\ EncodedNames(f) = url_encode(Joined(f))
    BY <1>1, EncodedIsJoined
  <2>2. url_encode(Joined(f)) \in Seq(Coded) /\ Coded \subseteq Byte
    BY <2>1, EncodedIsCoded, CodedBytes
  <2> HIDE DEF x
  <2>3. url_encode(Joined(f)) \in Seq(Byte)
    BY <2>2
  <2> QED
    BY <2>1, <2>3 DEF x
<1>4. <<Slash>> \in Seq(Byte) /\ Len(<<Slash>>) = 1 /\ <<Slash>>[1] = Slash
  BY <1>1, PathNameIsText
<1>5. CASE n = << >>
  <2>1. y = <<Slash>>
    <3>1. url_encode(<< >>) = << >>
      BY EncodeEmpty
    <3> QED
      BY <1>4, <1>5, <3>1, ConcatEmptySeq
  <2> HIDE DEF x, y
  <2>2. y \in Seq(Byte) /\ Len(y) \in Nat \ {0} /\ y[Len(y)] = Slash
    BY <1>4, <2>1
  <2> QED
    BY <1>2, <1>3, <1>5, <2>2, LastOfConcat DEF n
<1>6. CASE n # << >>
  <2> DEFINE m == Front(n)
             b == Last(n)
             e == url_encode(n)
  <2>1. m \in PathName /\ b \in NameByte /\ n = Append(m, b)
    BY <1>1, <1>6, FrontThenLast DEF PathName
  <2> HIDE DEF m, b
  <2>2. e \in Seq(Byte) /\ Len(e) \in Nat \ {0} /\ e[Len(e)] # Slash
    BY <2>1, LastOfCode
  <2> HIDE DEF e
  <2>3. y \in Seq(Byte) /\ Len(y) \in Nat \ {0} /\ y[Len(y)] = e[Len(e)]
    BY <1>4, <2>2, LastOfConcat DEF e
  <2> HIDE DEF x, y
  <2> QED
    BY <1>2, <1>3, <1>6, <2>2, <2>3, LastOfConcat DEF n
<1> QED
  BY <1>5, <1>6

(* What the parser reads where a path was encoded.                         *)
LEMMA EncodedPathIs ==
  ASSUME NEW names \in Seq(PathName), NEW d \in BOOLEAN
  PROVE  /\ PathOf(names, d) \in Seq(PathName)
         /\ EncodedPath(names, d) = EncodedNames(PathOf(names, d))
         /\ EncodedPath(names, d) \in Seq(Byte) /\ Len(EncodedPath(names, d)) \in Nat \ {0}
         /\ Last(EncodedPath(names, d)) = Slash <=> Last(PathOf(names, d)) = << >>
<1> DEFINE p == PathOf(names, d)
<1>0. << >> \in PathName
  BY EmptySeq DEF PathName
<1>1. p \in Seq(PathName) /\ p # << >>
  <2>1. << << >> >> \in Seq(PathName) /\ << << >> >> # << >>
    BY <1>0
  <2>2. Append(names, << >>) \in Seq(PathName) /\ Append(names, << >>) # << >>
    BY <1>0, FrontAndLast, AppendProperties
  <2> QED
    BY <2>1, <2>2 DEF PathOf
<1>2. /\ EncodedNames(p) \in Seq(Byte) /\ Len(EncodedNames(p)) \in Nat \ {0}
      /\ EncodedNames(p)[Len(EncodedNames(p))] = Slash <=> Last(p) = << >>
  <2> HIDE DEF p
  <2> QED
    BY <1>1, LastOfNames
<1>3. EncodedPath(names, d) = EncodedNames(p)
  <2>1. CASE names = << >>
    <3>1. EncodedPath(names, d) = <<Slash>>
      BY <2>1 DEF EncodedPath
    <3>2. EncodedNames(<< << >> >>) = <<Slash>>
      <4>1. [i \in DOMAIN << << >> >> |-> <<Slash>> \o url_encode(<< << >> >>[i])]
              = << <<Slash>> \o url_encode(<< >>) >>
        OBVIOUS
      <4>2. <<Slash>> \o url_encode(<< >>) = <<Slash>>
        BY <1>0, EncodeEmpty, PathNameIsText, ConcatEmptySeq
      <4>3. FlattenSeq(<< <<Slash>> >>) = <<Slash>>
        BY FlattenOne
      <4> QED
        BY <4>1, <4>2, <4>3 DEF EncodedNames
    <3> QED
      BY <2>1, <3>1, <3>2 DEF PathOf
  <2>2. CASE names # << >>
    <3> DEFINE e == EncodedNames(names)
    <3>1. e \in Seq(Byte) /\ (e[Len(e)] = Slash <=> Last(names) = << >>)
      BY <2>2, LastOfNames
    <3>2. EncodedPath(names, d) = IF d /\ e[Len(e)] # Slash THEN Append(e, Slash) ELSE e
      BY <2>2 DEF EncodedPath
    <3>3. EncodedNames(Append(names, << >>)) = Append(e, Slash)
      <4>1. EncodedNames(Append(names, << >>)) = e \o (<<Slash>> \o url_encode(<< >>))
        BY <1>0, EncodedNamesAppend
      <4>2. <<Slash>> \o url_encode(<< >>) = <<Slash>>
        BY <1>0, EncodeEmpty, PathNameIsText, ConcatEmptySeq
      <4>3. Append(e, Slash) = e \o <<Slash>>
        <5>1. Slash \in Byte
          BY DEF Slash, Byte
        <5> HIDE DEF e
        <5> QED
          BY <3>1, <5>1, AppendIsConcat
      <4> QED
        BY <4>1, <4>2, <4>3
    <3> HIDE DEF e
    <3>4. p = IF d /\ Last(names) # << >> THEN Append(names, << >>) ELSE names
      BY <2>2 DEF PathOf
    <3>5. CASE d /\ Last(names) # << >>
      BY <3>1, <3>2, <3>3, <3>4, <3>5
    <3>6. CASE ~(d /\ Last(names) # << >>)
      <4>1. p = names
        BY <3>4, <3>6
      <4>2. EncodedPath(names, d) = e
        BY <3>1, <3>2, <3>6
      <4> QED
        BY <4>1, <4>2 DEF e
    <3> QED
      BY <3>5, <3>6
  <2> QED
    BY <2>1, <2>2
<1> QED
  BY <1>1, <1>2, <1>3 DEF Last

(* The parser stops at the question mark and reads the path before it.     *)
LEMMA TargetIsRead ==
  ASSUME NEW names \in Seq(PathName), NEW d \in BOOLEAN
  PROVE  /\ RequestPath(EncodedPath(names, d)) = PathOf(names, d)
         /\ RequestPath(Append(EncodedPath(names, d), Question)) = PathOf(names, d)
<1> DEFINE p == PathOf(names, d)
           e == EncodedPath(names, d)
           j == Joined(p)
<1>1. p \in Seq(PathName) /\ e = EncodedNames(p)
  BY EncodedPathIs
<1> HIDE DEF p, e
<1>2. j \in Seq(Byte) /\ e = url_encode(j)
  BY <1>1, EncodedIsJoined
<1>3. Split(j) = p
  BY <1>1, SplitJoined
<1> HIDE DEF j
<1>4. e \in Seq(Coded) /\ url_decode(e) = j
  <2>1. url_decode(url_encode(j) \o << >>) = j \o << >>
    BY <1>2, DecodesAll
  <2>2. e \in Seq(Coded)
    BY <1>2, EncodedIsCoded
  <2>3. e \o << >> = e /\ j \o << >> = j
    BY <1>2, <2>2, ConcatEmptySeq
  <2> QED
    BY <1>2, <2>1, <2>2, <2>3
<1>5. UpToFirst(e, White) = e /\ UpToFirst(e, {Question}) = e
  <2>1. Coded \intersect White = {} /\ Coded \intersect {Question} = {}
    BY CodedBytes
  <2> QED
    BY <1>4, <2>1, NotCutShort
<1>6. RequestPath(e) = p
  BY <1>3, <1>4, <1>5 DEF RequestPath
<1>7. UpToFirst(Append(e, Question), White) = Append(e, Question)
  <2> DEFINE S == Coded \union {Question}
  <2>1. S \intersect White = {}
    <3>1. Coded \intersect White = {} /\ Question \notin White
      BY CodedBytes DEF Question, White, Space
    <3> QED
      BY <3>1
  <2>2. Append(e, Question) \in Seq(S)
    <3>1. Coded \subseteq S /\ Question \in S
      OBVIOUS
    <3> HIDE DEF S
    <3>2. e \in Seq(S)
      BY <1>4, <3>1, SeqMonotonic
    <3> QED
      BY <3>1, <3>2, AppendProperties
  <2> HIDE DEF S
  <2> QED
    BY <2>1, <2>2, NotCutShort
<1>8. UpToFirst(Append(e, Question), {Question}) = e
  <2> DEFINE q == Append(e, Question)
             n == Len(e)
             I == {i \in 1 .. Len(q) : q[i] \in {Question}}
             S == Coded \union {Question}
  <2>0. e \in Seq(S) /\ Question \in S
    <3>1. Coded \subseteq S /\ Question \in S
      OBVIOUS
    <3> HIDE DEF S
    <3> QED
      BY <1>4, <3>1, SeqMonotonic
  <2>1. /\ Len(q) = n + 1 /\ q[n + 1] = Question /\ n \in Nat
        /\ \A i \in 1 .. n : q[i] = e[i]
    <3> HIDE DEF S
    <3> QED
      BY <2>0, AppendProperties, LenProperties
  <2>2. \A i \in 1 .. n : e[i] # Question
    <3>1. Question \notin Coded
      BY CodedBytes
    <3> QED
      BY <1>4, <3>1, ElementOfSeq
  <2>3. I = {n + 1}
    <3> HIDE DEF q, n
    <3> QED
      BY <2>1, <2>2
  <2>4. Min({n + 1}) = n + 1
    BY <2>1 DEF Min
  <2>5. SelectInSeq(q, LAMBDA b : b \in {Question}) = n + 1
    BY <2>3, <2>4 DEF SelectInSeq
  <2>6. n + 1 # 0 /\ (n + 1) - 1 = n
    BY <2>1
  <2>7. SubSeq(q, 1, n) = e
    <3>1. Front(q) = SubSeq(q, 1, n)
      BY <2>1, <2>6 DEF Front
    <3>2. Front(q) = e
      <4> HIDE DEF S
      <4> QED
        BY <2>0, FrontAndLast
    <3> QED
      BY <3>1, <3>2
  <2> QED
    BY <2>5, <2>6, <2>7 DEF UpToFirst
<1>9. RequestPath(Append(e, Question)) = p
  BY <1>3, <1>4, <1>7, <1>8 DEF RequestPath
<1> QED
  BY <1>6, <1>9 DEF p, e

-----------------------------------------------------------------------------
(* The directory and what it holds.                                        *)
DirectoryInv ==
  /\ dir \in Seq(Name)
  /\ DOMAIN entries \subseteq Name
  /\ entries \in [DOMAIN entries -> Kind]

(* A request is for the directory or an entry of it, with a slash or none. *)
RequestInv ==
  /\ pc \in {"idle", "start", "read", "answer", "done", "closed"}
  /\ pc # "idle" =>
       /\ req.method \in {"GET", "PROPFIND"}
       /\ \E p \in Places : req.path \in {p, Append(p, << >>)}
       /\ req.method = "GET" => Resolved(req.path) = Self
       /\ req.method = "PROPFIND" => req.doc \in Document
  /\ pc \in {"start", "read", "answer"} => Exists(Resolved(req.path))

(* What has been read, and what there is to read, is the whole directory   *)
(* as long as it is read, and once at most.  When no more is read, one of  *)
(* the entries that were could not be examined or nothing is left.         *)
Shows == Lists /\ Resolved(req.path) = Self

UnclearIsListed == \E i \in DOMAIN listed : entries[listed[i]] = "unclear"

ReadInv ==
  /\ left \subseteq DOMAIN entries
  /\ listed \in Seq(DOMAIN entries)
  /\ \A i, j \in DOMAIN listed : listed[i] = listed[j] => i = j
  /\ \A i \in DOMAIN listed : listed[i] \notin left
  /\ ec => UnclearIsListed
  /\ pc \in {"idle", "start"} => listed = << >> /\ left = {} /\ ec = FALSE
  /\ pc \in {"read", "answer", "done"} /\ Exists(Resolved(req.path)) =>
       IF Shows
       THEN \A n \in DOMAIN entries : n \in left \/ \E i \in DOMAIN listed : listed[i] = n
       ELSE listed = << >> /\ left = {}
  /\ pc \in {"answer", "done"} /\ Exists(Resolved(req.path)) =>
       /\ left = {} \/ UnclearIsListed
       /\ \A i, j \in DOMAIN listed : i < j => Precedes(listed[i], listed[j])

(* The answer is made of what was read.                                    *)
Answer ==
  IF req.method = "GET" THEN [i \in DOMAIN listed |-> Item(listed[i])]
  ELSE <<Response(Resolved(req.path), req.path)>>
       \o [i \in DOMAIN listed |->
             Response(Entry(listed[i]), Append(Base(req.path), listed[i]))]

AnswerInv ==
  reply = IF pc = "done" /\ Exists(Resolved(req.path)) THEN Answer ELSE << >>

Inv == DirectoryInv /\ RequestInv /\ ReadInv /\ AnswerInv

(* What a path can lead to are different things.                           *)
LEMMA WhatDiffers ==
  /\ Self # Nothing
  /\ KindOf(Self) = "dir"
  /\ \A n : /\ Entry(n) # Nothing /\ Entry(n) # Self /\ Entry(n).entry = n
            /\ KindOf(Entry(n)) = entries[n]
  /\ \A m, n : Entry(m) = Entry(n) => m = n
<1>1. \A n : Entry(n).entry = n
  BY DEF Entry
<1>2. Self # Nothing /\ \A n : Entry(n) # Nothing /\ Entry(n) # Self
  <2>1. DOMAIN Self = {"self"} /\ DOMAIN Nothing = {"nothing"}
    BY DEF Self, Nothing
  <2>2. \A n : DOMAIN Entry(n) = {"entry"}
    BY DEF Entry
  <2>3. "self" # "nothing" /\ "entry" # "nothing" /\ "entry" # "self"
    OBVIOUS
  <2> QED
    BY <2>1, <2>2, <2>3
<1>3. KindOf(Self) = "dir"
  BY DEF KindOf
<1>4. \A n : KindOf(Entry(n)) = entries[n]
  BY <1>1, <1>2 DEF KindOf
<1>5. \A m, n : Entry(m) = Entry(n) => m = n
  BY <1>1
<1> QED
  BY <1>1, <1>2, <1>3, <1>4, <1>5

LEMMA NamesHaveNoSlash ==
  ASSUME NEW n \in Name
  PROVE  n \in PathName /\ n # << >>
<1>1. n \in Seq(Byte \ {0, Slash}) /\ n # << >>
  BY ListingAssumption
<1>2. Byte \ {0, Slash} \subseteq NameByte
  BY DEF NameByte
<1>3. n \in Seq(NameByte)
  BY <1>1, <1>2, SeqMonotonic
<1> QED
  BY <1>1, <1>3 DEF PathName

(* A path with or without a slash at the end.                              *)
LEMMA PathsEnd ==
  ASSUME NEW p \in Seq(Name)
  PROVE  /\ p \in Seq(PathName) /\ Append(p, << >>) \in Seq(PathName)
         /\ Base(p) = p /\ ~EndsInSlash(p)
         /\ Base(Append(p, << >>)) = p /\ EndsInSlash(Append(p, << >>))
         /\ Last(Append(p, << >>)) = << >>
         /\ p # << >> => Last(p) # << >>
<1>1. Name \subseteq PathName /\ << >> \in PathName
  BY NamesHaveNoSlash, EmptySeq DEF PathName
<1>2. p \in Seq(PathName)
  BY <1>1, SeqMonotonic
<1>3. /\ Append(p, << >>) \in Seq(PathName) /\ Front(Append(p, << >>)) = p
      /\ Last(Append(p, << >>)) = << >> /\ Append(p, << >>) # << >>
  BY <1>1, <1>2, AppendProperties, FrontAndLast
<1>4. p # << >> => Last(p) # << >>
  <2>1. p # << >> => Last(p) \in Name
    BY FrontThenLast
  <2> QED
    BY <2>1, NamesHaveNoSlash
<1> QED
  BY <1>2, <1>3, <1>4 DEF Base, EndsInSlash

LEMMA PathOfIs ==
  ASSUME NEW p \in Seq(Name), NEW path \in {p, Append(p, << >>)}, NEW d \in BOOLEAN
  PROVE  /\ PathOf(path, d) \in {p, Append(p, << >>)}
         /\ d => PathOf(path, d) = Append(p, << >>)
         /\ ~d /\ path = p /\ p # << >> => PathOf(path, d) = p
<1>1. /\ Append(p, << >>) # << >> /\ Last(Append(p, << >>)) = << >>
      /\ p # << >> => Last(p) # << >>
  BY PathsEnd, FrontAndLast
<1>2. << << >> >> = Append(<< >>, << >>)
  OBVIOUS
<1>3. PathOf(Append(p, << >>), d) = Append(p, << >>)
  BY <1>1 DEF PathOf
<1>4. p = << >> => PathOf(p, d) = Append(p, << >>)
  BY <1>2 DEF PathOf
<1>5. p # << >> => PathOf(p, d) = IF d THEN Append(p, << >>) ELSE p
  BY <1>1 DEF PathOf
<1>6. CASE path = p
  <2>1. CASE p = << >>
    BY <1>4, <1>6, <2>1
  <2>2. CASE p # << >>
    BY <1>5, <1>6, <2>2
  <2> QED
    BY <2>1, <2>2
<1>7. CASE path = Append(p, << >>)
  <2>1. path # p
    <3>1. EndsInSlash(path) /\ ~EndsInSlash(p)
      BY <1>7, PathsEnd
    <3> QED
      BY <3>1
  <2> QED
    BY <1>3, <1>7, <2>1
<1> QED
  BY <1>6, <1>7

LEMMA PlaceIs ==
  ASSUME DirectoryInv, NEW p \in Places
  PROVE  /\ p \in Seq(Name)
         /\ p = dir \/ \E n \in DOMAIN entries : p = Append(dir, n)
<1>1. \A n \in DOMAIN entries : Append(dir, n) \in Seq(Name)
  BY AppendProperties DEF DirectoryInv
<1> QED
  BY <1>1 DEF Places, DirectoryInv

(* Where a path leads.                                                     *)
LEMMA SelfIsResolved ==
  ASSUME NEW path, Base(path) = dir
  PROVE  Resolved(path) = Self
  BY DEF Resolved

LEMMA EntryIsResolved ==
  ASSUME DirectoryInv, NEW n \in DOMAIN entries, NEW path, Base(path) = Append(dir, n)
  PROVE  Resolved(path) = IF EndsInSlash(path) => entries[n] = "dir" THEN Entry(n) ELSE Nothing
<1>1. dir \in Seq(Name) /\ n \in Name /\ DOMAIN entries \subseteq Name
  BY DEF DirectoryInv
<1>2. \A m \in DOMAIN entries : Append(dir, n) = Append(dir, m) => n = m
  <2>1. \A m \in DOMAIN entries : Last(Append(dir, m)) = m
    BY <1>1, FrontAndLast
  <2> QED
    BY <2>1
<1>3. Append(dir, n) # dir
  <2>1. Len(Append(dir, n)) = Len(dir) + 1 /\ Len(dir) \in Nat
    BY <1>1, FrontAndLast, LenProperties
  <2> QED
    BY <2>1
<1> DEFINE inside == {m \in DOMAIN entries :
                        /\ Base(path) = Append(dir, m)
                        /\ EndsInSlash(path) => entries[m] = "dir"}
<1>4. inside = IF EndsInSlash(path) => entries[n] = "dir" THEN {n} ELSE {}
  BY <1>2
<1>5. Resolved(path) = IF inside # {} THEN Entry(CHOOSE m \in inside : TRUE) ELSE Nothing
  BY <1>3 DEF Resolved
<1> HIDE DEF inside
<1>6. (CHOOSE m \in {n} : TRUE) = n
  OBVIOUS
<1>7. CASE EndsInSlash(path) => entries[n] = "dir"
  <2>1. inside = {n} /\ inside # {}
    BY <1>4, <1>7
  <2> QED
    BY <1>5, <1>6, <1>7, <2>1
<1>8. CASE ~(EndsInSlash(path) => entries[n] = "dir")
  <2>1. inside = {}
    BY <1>4, <1>8
  <2> QED
    BY <1>5, <1>8, <2>1
<1> QED
  BY <1>7, <1>8

(* The path under which the server shows what a path leads to leads back   *)
(* to it.                                                                  *)
LEMMA LeadsBack ==
  ASSUME DirectoryInv, NEW p \in Places, NEW path \in {p, Append(p, << >>)},
         Resolved(path) # Nothing
  PROVE  LET what == Resolved(path)
             href == EncodedPath(path, KindOf(what) = "dir")
         IN  /\ Resolved(RequestPath(href)) = what
             /\ (Last(href) = Slash) = (KindOf(what) = "dir")
<1> DEFINE what == Resolved(path)
           d == KindOf(what) = "dir"
           q == PathOf(path, d)
           href == EncodedPath(path, d)
<1>1. p \in Seq(Name)
  BY PlaceIs
<1>2. path \in Seq(PathName) /\ d \in BOOLEAN
  BY <1>1, PathsEnd
<1>3. RequestPath(href) = q /\ (Last(href) = Slash <=> Last(q) = << >>)
  <2> HIDE DEF d
  <2> QED
    BY <1>2, TargetIsRead, EncodedPathIs
<1>4. CASE p = dir
  <2>1. Base(path) = dir
    BY <1>1, <1>4, PathsEnd
  <2>2. what = Self /\ d
    BY <2>1, SelfIsResolved, WhatDiffers
  <2>3. q = Append(p, << >>)
    <3> HIDE DEF d
    <3> QED
      BY <1>1, <1>2, <2>2, PathOfIs
  <2>4. Base(q) = dir /\ Last(q) = << >>
    BY <1>1, <1>4, <2>3, PathsEnd
  <2>5. Resolved(q) = Self
    BY <2>4, SelfIsResolved
  <2> HIDE DEF what, d, q, href
  <2> QED
    BY <1>3, <2>2, <2>4, <2>5 DEF what, d, q, href
<1>5. ASSUME NEW n \in DOMAIN entries, p = Append(dir, n)
      PROVE  Resolved(RequestPath(href)) = what /\ (Last(href) = Slash) = d
  <2>1. Base(path) = Append(dir, n)
    BY <1>1, <1>5, PathsEnd
  <2>2. /\ what = Entry(n) /\ (d <=> entries[n] = "dir")
        /\ EndsInSlash(path) => entries[n] = "dir"
    <3>1. what = IF EndsInSlash(path) => entries[n] = "dir" THEN Entry(n) ELSE Nothing
      BY <2>1, EntryIsResolved
    <3>2. what # Nothing
      OBVIOUS
    <3>3. (EndsInSlash(path) => entries[n] = "dir") /\ what = Entry(n)
      BY <3>1, <3>2
    <3>4. KindOf(Entry(n)) = entries[n]
      BY WhatDiffers
    <3> HIDE DEF what
    <3> QED
      BY <3>3, <3>4
  <2>3. p # << >>
    <3>1. dir \in Seq(Name) /\ n \in Name
      BY DEF DirectoryInv
    <3> QED
      BY <1>5, <3>1, FrontAndLast
  <2>4. ~d => path = p
    BY <1>1, <2>2, PathsEnd
  <2>5. q = IF d THEN Append(p, << >>) ELSE p
    <3> HIDE DEF d
    <3> QED
      BY <1>1, <1>2, <2>3, <2>4, PathOfIs
  <2>6. /\ Base(q) = Append(dir, n) /\ (EndsInSlash(q) <=> d)
        /\ (Last(q) = << >> <=> d)
    <3>1. CASE d
      BY <1>1, <1>5, <2>5, <3>1, PathsEnd
    <3>2. CASE ~d
      BY <1>1, <1>5, <2>3, <2>5, <3>2, PathsEnd
    <3> QED
      BY <3>1, <3>2
  <2>7. Resolved(q) = Entry(n)
    <3> HIDE DEF q, d
    <3>1. Resolved(q) = IF EndsInSlash(q) => entries[n] = "dir" THEN Entry(n) ELSE Nothing
      BY <2>6, EntryIsResolved
    <3> QED
      BY <2>2, <2>6, <3>1
  <2> HIDE DEF what, d, q, href
  <2>8. (Last(href) = Slash) = d
    BY <1>2, <1>3, <2>6
  <2>9. Resolved(RequestPath(href)) = what
    BY <1>3, <2>2, <2>7
  <2> QED
    BY <2>8, <2>9
<1>6. p = dir \/ \E n \in DOMAIN entries : p = Append(dir, n)
  BY PlaceIs
<1> HIDE DEF what, d, q, href
<1>7. CASE \E n \in DOMAIN entries : p = Append(dir, n)
  <2>1. PICK n \in DOMAIN entries : p = Append(dir, n)
    BY <1>7
  <2>2. Resolved(RequestPath(href)) = what /\ (Last(href) = Slash) = d
    BY <1>5, <2>1
  <2> QED
    BY <2>2 DEF what, d, href
<1> QED
  BY <1>4, <1>6, <1>7 DEF what, d, href

(* Without a name that is a backslash nothing is left out of the path.     *)
LEMMA HrefIsEncoded ==
  ASSUME NEW S, NEW names \in Seq(S), NEW d,
         \A i \in 1 .. Len(names) : names[i] # <<Backslash>>
  PROVE  Href(names, d) = EncodedPath(names, d)
<1> DEFINE T == Range(names) \ {<<Backslash>>}
<1>1. \A i \in 1 .. Len(names) : names[i] \in T
  <2>1. DOMAIN names = 1 .. Len(names)
    BY LenProperties
  <2> QED
    BY <2>1 DEF Range
<1> HIDE DEF T
<1>2. Only(names, T) = names
  BY <1>1, OnlyAll
<1> QED
  BY <1>2 DEF Href, T

(* Every target that a client may name is the path of a place.             *)
LEMMA TargetsAreOfPlaces ==
  ASSUME DirectoryInv, NEW target \in Targets
  PROVE  \E p \in Places : RequestPath(target) \in {p, Append(p, << >>)}
<1>1. ASSUME NEW p \in Places, NEW d \in BOOLEAN
      PROVE  /\ RequestPath(EncodedPath(p, d)) \in {p, Append(p, << >>)}
             /\ RequestPath(Append(EncodedPath(p, d), Question)) \in {p, Append(p, << >>)}
  <2>1. p \in Seq(Name) /\ p \in Seq(PathName)
    BY PlaceIs, PathsEnd
  <2>2. /\ RequestPath(EncodedPath(p, d)) = PathOf(p, d)
        /\ RequestPath(Append(EncodedPath(p, d), Question)) = PathOf(p, d)
    BY <2>1, TargetIsRead
  <2>3. PathOf(p, d) \in {p, Append(p, << >>)}
    BY <2>1, PathOfIs
  <2> QED
    BY <2>2, <2>3
<1>2. dir \in Places
  BY DEF Places
<1>3. \/ target = Append(EncodedPath(dir, TRUE), Question)
      \/ \E p \in Places, d \in BOOLEAN : target = EncodedPath(p, d)
  <2>1. target = Append(EncodedPath(dir, TRUE), Question) \/ target \in PlainTargets
    BY DEF Targets
  <2>2. ASSUME target \in PlainTargets
        PROVE  \E p \in Places, d \in BOOLEAN : target = EncodedPath(p, d)
    BY <2>2, SMT DEF PlainTargets
  <2> QED
    BY <2>1, <2>2
<1>4. CASE target = Append(EncodedPath(dir, TRUE), Question)
  BY <1>1, <1>2, <1>4
<1>5. CASE \E p \in Places, d \in BOOLEAN : target = EncodedPath(p, d)
  BY <1>1, <1>5
<1> QED
  BY <1>3, <1>4, <1>5

(* Of two texts that differ one comes before the other.                    *)
LEMMA LessIsTotal ==
  ASSUME NEW s \in Seq(Byte), NEW t \in Seq(Byte), s # t
  PROVE  Less(s, t) \/ Less(t, s)
<1> DEFINE Ends(k) == k > Len(s) \/ k > Len(t) \/ s[k] # t[k]
           D == {k \in Nat \ {0} : Ends(k)}
<1>1. Len(s) \in Nat /\ Len(t) \in Nat
  BY LenProperties
<1>2. D \subseteq Nat /\ Len(s) + 1 \in D
  BY <1>1
<1>3. PICK k \in D : \A j \in D : k <= j
  <2> HIDE DEF D
  <2> QED
    BY <1>2, LeastExists
<1>4. /\ k \in Nat \ {0} /\ Ends(k)
      /\ \A j \in 1 .. k - 1 : j <= Len(s) /\ j <= Len(t) /\ s[j] = t[j]
  <2>1. k \in Nat \ {0} /\ Ends(k)
    OBVIOUS
  <2>2. ASSUME NEW j \in 1 .. k - 1 PROVE ~Ends(j) /\ j \in Nat
    <3>1. j \in Nat \ {0} /\ ~(k <= j)
      BY <2>1
    <3>2. j \notin D
      <4> HIDE DEF D
      <4> QED
        BY <1>3, <3>1
    <3> QED
      BY <3>1, <3>2
  <2>3. \A j \in 1 .. k - 1 : j <= Len(s) /\ j <= Len(t) /\ s[j] = t[j]
    BY <1>1, <2>2
  <2> HIDE DEF D, Ends
  <2> QED
    BY <2>1, <2>3
<1> HIDE DEF D
<1>5. CASE k > Len(s) /\ k > Len(t)
  <2>1. k - 1 <= Len(s) /\ k - 1 <= Len(t)
    <3>1. k = 1 \/ k - 1 \in 1 .. k - 1
      BY <1>4
    <3> QED
      BY <1>1, <1>4, <3>1
  <2>2. Len(s) = k - 1 /\ Len(t) = k - 1
    BY <1>1, <1>4, <1>5, <2>1
  <2>3. s = t
    BY <1>4, <2>2, SeqEqual
  <2> QED
    BY <2>3
<1>6. CASE k > Len(s) /\ ~(k > Len(t))
  <2>1. k \in 1 .. Len(t)
    BY <1>1, <1>4, <1>6
  <2> QED
    BY <1>4, <1>6, <2>1 DEF Less
<1>7. CASE ~(k > Len(s)) /\ k > Len(t)
  <2>1. k \in 1 .. Len(s)
    BY <1>1, <1>4, <1>7
  <2> QED
    BY <1>4, <1>7, <2>1 DEF Less
<1>8. CASE ~(k > Len(s)) /\ ~(k > Len(t))
  <2>1. k \in 1 .. Len(s) /\ k \in 1 .. Len(t) /\ s[k] # t[k]
    BY <1>1, <1>4, <1>8
  <2>2. s[k] \in Byte /\ t[k] \in Byte
    BY <2>1, ElementOfSeq
  <2>3. s[k] < t[k] \/ t[k] < s[k]
    <3>1. \A a, b \in Byte : a # b => a < b \/ b < a
      BY DEF Byte
    <3> QED
      BY <2>1, <2>2, <3>1
  <2> QED
    BY <1>4, <2>1, <2>3 DEF Less
<1> QED
  BY <1>5, <1>6, <1>7, <1>8

(* Of two entries, one precedes the other.                                 *)
LEMMA PrecedesIsTotal ==
  ASSUME DirectoryInv, NEW m \in DOMAIN entries, NEW n \in DOMAIN entries, m # n
  PROVE  Precedes(m, n) \/ Precedes(n, m)
<1>1. m \in Name /\ n \in Name
  BY DEF DirectoryInv
<1>2. m \in Seq(Byte) /\ n \in Seq(Byte)
  BY <1>1, NamesHaveNoSlash, PathNameIsText
<1>3. Less(m, n) \/ Less(n, m)
  BY <1>2, LessIsTotal
<1>4. IsDir(m) \in BOOLEAN /\ IsDir(n) \in BOOLEAN
  BY DEF IsDir
<1> QED
  BY <1>3, <1>4 DEF Precedes

-----------------------------------------------------------------------------
(* The invariant holds in the beginning.                                   *)
LEMMA InitInv == Init => Inv
<1> SUFFICES ASSUME Init PROVE Inv
  OBVIOUS
<1> USE DEF Init
<1>1. DirectoryInv
  <2>1. PICK S \in SUBSET Name : entries \in [S -> Kind]
    OBVIOUS
  <2>2. dir \in Seq(Name)
    BY ListingAssumption
  <2> QED
    BY <2>1, <2>2 DEF DirectoryInv
<1>2. RequestInv
  BY DEF RequestInv
<1>3. listed \in Seq(DOMAIN entries) /\ DOMAIN listed = {}
  BY EmptySeq
<1>4. ReadInv
  BY <1>3 DEF ReadInv
<1>5. AnswerInv
  BY DEF AnswerInv
<1> QED
  BY <1>1, <1>2, <1>4, <1>5 DEF Inv

(* As the directory stays as it is, so does where each path leads, ...     *)
LEMMA SameDirectory ==
  ASSUME UNCHANGED <<dir, entries>>
  PROVE  /\ DirectoryInv => DirectoryInv'
         /\ \A path : Resolved(path)' = Resolved(path)
         /\ Self' = Self /\ Places' = Places
         /\ \A what : Exists(what)' = Exists(what) /\ KindOf(what)' = KindOf(what)
         /\ \A m, n : Precedes(m, n)' = Precedes(m, n)
<1>1. DirectoryInv => DirectoryInv'
  BY DEF DirectoryInv
<1>2. Self' = Self /\ Places' = Places
  BY DEF Self, Places
<1>3. \A path : Resolved(path)' = Resolved(path)
  BY <1>2 DEF Resolved
<1>4. \A what : KindOf(what)' = KindOf(what)
  BY <1>2 DEF KindOf
<1>5. \A what : Exists(what)' = Exists(what)
  BY <1>4 DEF Exists
<1>6. \A m, n : Precedes(m, n)' = Precedes(m, n)
  BY DEF Precedes, IsDir
<1> QED
  BY <1>1, <1>2, <1>3, <1>4, <1>5, <1>6

(* ... and as long as the request is the same, so is what it asks for.     *)
LEMMA SameRequest ==
  ASSUME UNCHANGED <<dir, entries, req>>
  PROVE  /\ Resolved(req.path)' = Resolved(req.path)
         /\ Exists(Resolved(req.path))' = Exists(Resolved(req.path))
         /\ Lists' = Lists /\ Shows' = Shows
<1>1. Resolved(req.path)' = Resolved(req.path) /\ Self' = Self
  BY DEF Resolved, Self
<1>2. Exists(Resolved(req.path))' = Exists(Resolved(req.path))
  BY <1>1 DEF Exists, KindOf
<1>3. Lists' = Lists
  BY <1>1 DEF Lists, KindOf
<1>4. Shows' = Shows
  BY <1>1, <1>3 DEF Shows
<1> QED
  BY <1>1, <1>2, <1>3, <1>4

(* A request comes when nothing has been read.                             *)
LEMMA RequestKeepsInv ==
  ASSUME Inv, NEW method \in {"GET", "PROPFIND"}, NEW target \in Targets, NEW depth, NEW doc,
         Request(method, target, depth, doc),
         method = "GET" => Resolved(RequestPath(target)) = Self,
         method = "PROPFIND" => doc \in Document
  PROVE  Inv'
<1> DEFINE path == RequestPath(target)
<1>1. /\ pc = "idle" /\ UNCHANGED <<dir, entries, left, ec, listed, reply>>
      /\ pc' = IF Exists(Resolved(path)) THEN "start" ELSE "done"
      /\ req'.path = path /\ req'.method = method /\ req'.doc = doc
  BY DEF Request
<1>2. /\ DirectoryInv' /\ Places' = Places /\ Self' = Self
      /\ Resolved(path)' = Resolved(path) /\ Resolved(req.path)' = Resolved(path)
      /\ Exists(Resolved(req.path))' = Exists(Resolved(path))
  <2>1. Resolved(req.path)' = Resolved(path)
    BY <1>1, SameDirectory DEF Resolved, Self
  <2>2. Exists(Resolved(req.path))' = Exists(Resolved(path))
    BY <1>1, <2>1 DEF Exists, KindOf, Self
  <2>3. DirectoryInv' /\ Places' = Places /\ Self' = Self /\ Resolved(path)' = Resolved(path)
    BY <1>1 DEF Inv, DirectoryInv, Places, Self, Resolved
  <2> QED
    BY <2>1, <2>2, <2>3
<1>3. \E p \in Places : path \in {p, Append(p, << >>)}
  BY TargetsAreOfPlaces DEF Inv
<1> HIDE DEF path
<1>4. RequestInv'
  <2>1. pc' \in {"start", "done"}
    BY <1>1
  <2>2. pc' \in {"start", "read", "answer"} => Exists(Resolved(req.path))'
    BY <1>1, <1>2
  <2>3. \E p \in Places' : req'.path \in {p, Append(p, << >>)}
    BY <1>1, <1>2, <1>3
  <2>4. req'.method = "GET" => Resolved(req.path)' = Self'
    BY <1>1, <1>2 DEF path
  <2> QED
    BY <1>1, <2>1, <2>2, <2>3, <2>4 DEF RequestInv
<1>5. ReadInv'
  <2>1. listed' = << >> /\ left' = {} /\ ec' = FALSE /\ listed' \in Seq(DOMAIN entries')
    BY <1>1 DEF Inv, ReadInv
  <2>2. DOMAIN listed' = {}
    BY <2>1
  <2>3. pc' = "start" \/ (pc' = "done" /\ ~Exists(Resolved(req.path))')
    BY <1>1, <1>2
  <2> QED
    BY <2>1, <2>2, <2>3 DEF ReadInv
<1>6. AnswerInv'
  <2>1. reply' = << >>
    BY <1>1 DEF Inv, AnswerInv
  <2>2. pc' = "start" \/ (pc' = "done" /\ ~Exists(Resolved(req.path))')
    BY <1>1, <1>2
  <2> QED
    BY <2>1, <2>2 DEF AnswerInv
<1> QED
  BY <1>2, <1>4, <1>5, <1>6 DEF Inv

(* What is the same for all steps of a request that is being answered.     *)
LEMMA SameRequestInv ==
  ASSUME Inv, UNCHANGED <<dir, entries, req>>,
         pc # "idle", pc' \in {"read", "answer", "done", "closed"},
         pc' \in {"read", "answer"} => Exists(Resolved(req.path))
  PROVE  DirectoryInv' /\ RequestInv'
<1>1. /\ DirectoryInv' /\ Places' = Places /\ Self' = Self
      /\ Resolved(req.path)' = Resolved(req.path)
      /\ Exists(Resolved(req.path))' = Exists(Resolved(req.path))
  BY SameDirectory, SameRequest DEF Inv
<1> QED
  BY <1>1 DEF Inv, RequestInv

LEMMA StartKeepsInv == Inv /\ Start => Inv'
<1> SUFFICES ASSUME Inv, Start PROVE Inv'
  OBVIOUS
<1>1. /\ pc = "start" /\ pc' = (IF Lists THEN "read" ELSE "answer")
      /\ left' = IF Shows THEN DOMAIN entries ELSE {}
      /\ UNCHANGED <<dir, entries, req, ec, listed, reply>>
  BY DEF Start, Shows
<1>2. /\ Exists(Resolved(req.path)) /\ listed = << >> /\ ec = FALSE
      /\ listed \in Seq(DOMAIN entries)
  BY <1>1 DEF Inv, RequestInv, ReadInv
<1>3. DirectoryInv' /\ RequestInv'
  BY <1>1, <1>2, SameRequestInv
<1>4. /\ Shows' = Shows /\ (Shows => Lists)
      /\ Exists(Resolved(req.path))' = Exists(Resolved(req.path))
  BY <1>1, SameRequest DEF Shows
<1>5. ReadInv'
  <2>1. DOMAIN listed' = {}
    BY <1>1, <1>2
  <2>2. Shows' \in BOOLEAN
    BY DEF Shows
  <2> QED
    BY <1>1, <1>2, <1>4, <2>1, <2>2 DEF ReadInv
<1>6. AnswerInv'
  BY <1>1 DEF Inv, AnswerInv
<1> QED
  BY <1>3, <1>5, <1>6 DEF Inv

LEMMA ReadEntryKeepsInv == Inv /\ ReadEntry => Inv'
<1> SUFFICES ASSUME Inv, ReadEntry PROVE Inv'
  OBVIOUS
<1>1. PICK n \in left :
        /\ left' = left \ {n} /\ ec' = (entries[n] = "unclear") /\ listed' = Append(listed, n)
  BY DEF ReadEntry
<1>2. /\ pc = "read" /\ pc' = "read" /\ UNCHANGED <<dir, entries, req, reply>>
  BY DEF ReadEntry
<1> DEFINE k == Len(listed)
<1>3. /\ left \subseteq DOMAIN entries /\ listed \in Seq(DOMAIN entries)
      /\ n \in DOMAIN entries /\ k \in Nat /\ DOMAIN listed = 1 .. k
      /\ \A i, j \in DOMAIN listed : listed[i] = listed[j] => i = j
      /\ \A i \in DOMAIN listed : listed[i] \notin left
  BY LenProperties DEF Inv, ReadInv
<1>4. Exists(Resolved(req.path))
  BY <1>2 DEF Inv, RequestInv
<1>5. /\ Shows
      /\ \A m \in DOMAIN entries : m \in left \/ \E i \in DOMAIN listed : listed[i] = m
  <2>1. IF Shows
        THEN \A m \in DOMAIN entries : m \in left \/ \E i \in DOMAIN listed : listed[i] = m
        ELSE listed = << >> /\ left = {}
    BY <1>2, <1>4 DEF Inv, ReadInv
  <2> QED
    BY <2>1
<1>6. /\ listed' \in Seq(DOMAIN entries) /\ DOMAIN listed' = 1 .. k + 1
      /\ listed'[k + 1] = n /\ \A i \in 1 .. k : listed'[i] = listed[i]
  <2>1. /\ listed' \in Seq(DOMAIN entries) /\ Len(listed') = k + 1 /\ listed'[k + 1] = n
        /\ \A i \in 1 .. k : listed'[i] = listed[i]
    BY <1>1, <1>3, AppendProperties
  <2> QED
    BY <2>1, LenProperties
<1>7. DirectoryInv' /\ RequestInv'
  BY <1>2, <1>4, SameRequestInv
<1>8. Shows' = Shows
  BY <1>2, SameRequest
<1> HIDE DEF k
<1>9. /\ k + 1 \in 1 .. k + 1
      /\ \A i \in 1 .. k : i \in 1 .. k + 1
      /\ \A i \in 1 .. k + 1 : i = k + 1 \/ i \in 1 .. k
  BY <1>3
<1>10. ReadInv'
  <2>1. left' \subseteq DOMAIN entries' /\ listed' \in Seq(DOMAIN entries')
    BY <1>1, <1>2, <1>3, <1>6
  <2>2. \A i, j \in DOMAIN listed' : listed'[i] = listed'[j] => i = j
    BY <1>3, <1>6, <1>9
  <2>3. \A i \in DOMAIN listed' : listed'[i] \notin left'
    BY <1>1, <1>3, <1>6, <1>9
  <2>4. ec' => UnclearIsListed'
    <3>1. ec' => entries[listed'[k + 1]] = "unclear" /\ k + 1 \in DOMAIN listed'
      BY <1>1, <1>6, <1>9
    <3> QED
      BY <1>2, <3>1 DEF UnclearIsListed
  <2>5. \A m \in DOMAIN entries' : m \in left' \/ \E i \in DOMAIN listed' : listed'[i] = m
    <3> SUFFICES ASSUME NEW m \in DOMAIN entries
                 PROVE  m \in left' \/ \E i \in DOMAIN listed' : listed'[i] = m
      BY <1>2
    <3>1. CASE m = n
      BY <1>6, <1>9, <3>1
    <3>2. CASE m \in left /\ m # n
      BY <1>1, <3>2
    <3>3. CASE \E i \in DOMAIN listed : listed[i] = m
      BY <1>3, <1>6, <1>9, <3>3
    <3> QED
      BY <1>5, <3>1, <3>2, <3>3
  <2>6. Shows' /\ pc' = "read"
    BY <1>2, <1>5, <1>8
  <2> QED
    BY <2>1, <2>2, <2>3, <2>4, <2>5, <2>6 DEF ReadInv
<1>11. AnswerInv'
  BY <1>2 DEF Inv, AnswerInv
<1> QED
  BY <1>7, <1>10, <1>11 DEF Inv

(* Sorting neither adds nor loses an entry.                                *)
LEMMA EndReadKeepsInv == Inv /\ EndRead => Inv'
<1> SUFFICES ASSUME Inv, EndRead PROVE Inv'
  OBVIOUS
<1> DEFINE D == DOMAIN listed
<1>1. PICK from \in Bijection(D, D) :
        /\ listed' = [i \in D |-> listed[from[i]]]
        /\ \A i, j \in D : i < j => ~Precedes(listed'[j], listed'[i])
  BY DEF EndRead
<1>2. /\ pc = "read" /\ pc' = "answer" /\ UNCHANGED <<dir, entries, req, left, ec, reply>>
      /\ ec \/ left = {}
  BY DEF EndRead
<1>3. /\ left \subseteq DOMAIN entries /\ listed \in Seq(DOMAIN entries)
      /\ \A i, j \in D : listed[i] = listed[j] => i = j
      /\ \A i \in D : listed[i] \notin left /\ listed[i] \in DOMAIN entries
      /\ Len(listed) \in Nat /\ D = 1 .. Len(listed)
      /\ ec => UnclearIsListed
  BY LenProperties DEF Inv, ReadInv
<1>4. /\ \A i \in D : from[i] \in D
      /\ \A i, j \in D : from[i] = from[j] => i = j
      /\ \A j \in D : \E i \in D : from[i] = j
  <2> HIDE DEF D
  <2> QED
    BY DEF Bijection, Injection, Surjection, IsInjective
<1>5. Exists(Resolved(req.path))
  BY <1>2 DEF Inv, RequestInv
<1>6. DirectoryInv' /\ RequestInv'
  BY <1>2, <1>5, SameRequestInv
<1>7. /\ Shows' = Shows /\ \A m, n : Precedes(m, n)' = Precedes(m, n)
  BY <1>2, SameDirectory, SameRequest
<1>8. /\ DOMAIN listed' = D /\ \A i \in D : listed'[i] = listed[from[i]]
      /\ listed' \in Seq(DOMAIN entries)
  <2>1. DOMAIN listed' = D /\ \A i \in D : listed'[i] = listed[from[i]]
    BY <1>1
  <2>2. listed' \in [1 .. Len(listed) -> DOMAIN entries]
    BY <1>1, <1>3, <1>4
  <2> QED
    BY <1>3, <2>1, <2>2
<1>9. IF Shows
      THEN \A n \in DOMAIN entries : n \in left \/ \E i \in D : listed[i] = n
      ELSE listed = << >> /\ left = {}
  BY <1>2, <1>5 DEF Inv, ReadInv
<1> HIDE DEF D
<1>10. ReadInv'
  <2>1. left' \subseteq DOMAIN entries' /\ listed' \in Seq(DOMAIN entries')
    BY <1>2, <1>3, <1>8
  <2>2. \A i, j \in DOMAIN listed' : listed'[i] = listed'[j] => i = j
    <3> SUFFICES ASSUME NEW i \in D, NEW j \in D, listed[from[i]] = listed[from[j]]
                 PROVE  i = j
      BY <1>8
    <3> DEFINE a == from[i]
               b == from[j]
    <3>1. a \in D /\ b \in D /\ listed[a] = listed[b]
      BY <1>4
    <3> HIDE DEF a, b
    <3>2. a = b
      BY <1>3, <3>1
    <3> QED
      BY <1>4, <3>2 DEF a, b
  <2>3. \A i \in DOMAIN listed' : listed'[i] \notin left'
    BY <1>2, <1>3, <1>4, <1>8
  <2>4. UnclearIsListed => UnclearIsListed'
    <3> SUFFICES ASSUME NEW j \in D, entries[listed[j]] = "unclear" PROVE UnclearIsListed'
      BY DEF UnclearIsListed, D
    <3>1. PICK i \in D : from[i] = j
      BY <1>4
    <3>2. i \in DOMAIN listed' /\ entries'[listed'[i]] = "unclear"
      BY <1>2, <1>8, <3>1
    <3> QED
      BY <3>2 DEF UnclearIsListed
  <2>5. IF Shows'
        THEN \A n \in DOMAIN entries' : n \in left' \/ \E i \in DOMAIN listed' : listed'[i] = n
        ELSE listed' = << >> /\ left' = {}
    <3>1. CASE Shows
      <4> SUFFICES ASSUME NEW n \in DOMAIN entries, NEW j \in D, listed[j] = n
                   PROVE  \E i \in DOMAIN listed' : listed'[i] = n
        BY <1>2, <1>7, <1>9, <3>1
      <4>1. PICK i \in D : from[i] = j
        BY <1>4
      <4> QED
        BY <1>8, <4>1
    <3>2. CASE ~Shows
      <4>1. listed = << >> /\ left = {}
        BY <1>9, <3>2
      <4>2. D = {}
        BY <4>1 DEF D
      <4>3. Len(listed') = 0
        BY <1>8, <4>2, LenProperties
      <4>4. listed' = << >>
        BY <1>8, <4>3, EmptySeq
      <4> QED
        BY <1>2, <1>7, <3>2, <4>1, <4>4
    <3> QED
      BY <3>1, <3>2
  <2>6. left' = {} \/ UnclearIsListed'
    BY <1>2, <1>3, <2>4
  <2>7. \A i, j \in DOMAIN listed' : i < j => Precedes(listed[i], listed[j])'
    <3> SUFFICES ASSUME NEW i \in D, NEW j \in D, i < j
                 PROVE  Precedes(listed[i], listed[j])'
      BY <1>8
    <3> DEFINE m == listed[from[i]]
               n == listed[from[j]]
    <3>1. listed'[i] = m /\ listed'[j] = n
      BY <1>8
    <3>2. m \in DOMAIN entries /\ n \in DOMAIN entries
      BY <1>3, <1>4
    <3>3. i # j
      BY <1>3
    <3>4. m # n
      <4>1. from[i] \in D /\ from[j] \in D /\ from[i] # from[j]
        BY <1>4, <3>3
      <4> QED
        BY <1>3, <4>1
    <3>5. ~Precedes(n, m)
      BY <1>1, <3>1
    <3> HIDE DEF m, n
    <3>6. Precedes(m, n)
      BY <3>2, <3>4, <3>5, PrecedesIsTotal DEF Inv
    <3>7. Precedes(listed[i], listed[j])' = Precedes(m, n)
      BY <1>2, <3>1 DEF Precedes, IsDir
    <3> QED
      BY <3>6, <3>7
  <2> QED
    BY <1>2, <2>1, <2>2, <2>3, <2>4, <2>5, <2>6, <2>7, <1>3 DEF ReadInv
<1>11. AnswerInv'
  BY <1>2 DEF Inv, AnswerInv
<1> QED
  BY <1>6, <1>10, <1>11 DEF Inv

LEMMA SameAnswer ==
  ASSUME UNCHANGED <<dir, entries, req, listed>>
  PROVE  Answer' = Answer
<1>0. Resolved(req.path)' = Resolved(req.path)
  BY SameRequest
<1>3. [i \in DOMAIN listed |-> Item(listed[i])]' = [i \in DOMAIN listed |-> Item(listed[i])]
  BY DEF Item, Entry
<1>4. [i \in DOMAIN listed |->
         Response(Entry(listed[i]), Append(Base(req.path), listed[i]))]'
        = [i \in DOMAIN listed |->
             Response(Entry(listed[i]), Append(Base(req.path), listed[i]))]
  BY DEF Response, KindOf, Self, Entry, Found, None
<1>5. Response(Resolved(req.path), req.path)' = Response(Resolved(req.path), req.path)
  BY <1>0 DEF Response, KindOf, Self, Found, None
<1> QED
  BY <1>3, <1>4, <1>5 DEF Answer

(* Answering changes nothing but the answer.                               *)
LEMMA AnsweringKeepsInv ==
  ASSUME Inv, pc = "answer", UNCHANGED <<dir, entries, req, left, ec, listed>>,
         \/ pc' = "done" /\ reply' = Answer
         \/ pc' = "closed" /\ UNCHANGED reply
  PROVE  Inv'
<1>1. Exists(Resolved(req.path))
  BY DEF Inv, RequestInv
<1>2. DirectoryInv' /\ RequestInv'
  BY <1>1, SameRequestInv
<1>3. /\ Shows' = Shows /\ Resolved(req.path)' = Resolved(req.path)
      /\ Exists(Resolved(req.path))' = Exists(Resolved(req.path))
  BY SameRequest
<1>4. ReadInv'
  <2>1. /\ UnclearIsListed' = UnclearIsListed
        /\ \A i, j : Precedes(listed[i], listed[j])' = Precedes(listed[i], listed[j])
    BY DEF UnclearIsListed, Precedes, IsDir
  <2> QED
    BY <1>1, <1>3, <2>1 DEF Inv, ReadInv
<1>5. Answer' = Answer
  BY SameAnswer
<1>6. AnswerInv'
  <2>1. reply = << >>
    BY DEF Inv, AnswerInv
  <2> QED
    BY <1>1, <1>3, <1>5, <2>1 DEF AnswerInv
<1> QED
  BY <1>2, <1>4, <1>6 DEF Inv

LEMMA AnswersKeepInv == Inv /\ (AnswerJson \/ AnswerMultistatus) => Inv'
<1>1. ASSUME Inv, AnswerJson PROVE Inv'
  <2>1. /\ pc = "answer" /\ UNCHANGED <<dir, entries, req, left, ec, listed>>
        /\ \/ pc' = "done" /\ reply' = Answer
           \/ pc' = "closed" /\ UNCHANGED reply
    BY <1>1 DEF AnswerJson, Answer
  <2> QED
    BY <1>1, <2>1, AnsweringKeepsInv
<1>2. ASSUME Inv, AnswerMultistatus PROVE Inv'
  <2>1. /\ pc = "answer" /\ UNCHANGED <<dir, entries, req, left, ec, listed>>
        /\ pc' = "done" /\ reply' = Answer
    BY <1>2 DEF AnswerMultistatus, Answer
  <2> QED
    BY <1>2, <2>1, AnsweringKeepsInv
<1> QED
  BY <1>1, <1>2

LEMMA NextKeepsInv == Inv /\ [Next]_vars => Inv'
<1> SUFFICES ASSUME Inv, [Next]_vars PROVE Inv'
  OBVIOUS
<1>1. CASE Get
  <2>1. PICK target \in Targets :
          /\ Resolved(RequestPath(target)) = Self
          /\ Request("GET", target, "missing", [body |-> "none"])
    BY <1>1 DEF Get
  <2> QED
    BY <2>1, RequestKeepsInv
<1>2. CASE Propfind
  <2>1. PICK target \in Targets, depth \in {"0", "1", "infinity", "missing"},
             doc \in Document : Request("PROPFIND", target, depth, doc)
    BY <1>2 DEF Propfind
  <2> QED
    BY <2>1, RequestKeepsInv
<1>3. CASE Start
  BY <1>3, StartKeepsInv
<1>4. CASE ReadEntry
  BY <1>4, ReadEntryKeepsInv
<1>5. CASE EndRead
  BY <1>5, EndReadKeepsInv
<1>6. CASE AnswerJson \/ AnswerMultistatus
  BY <1>6, AnswersKeepInv
<1>7. CASE UNCHANGED vars
  <2>1. UNCHANGED <<dir, entries, pc, req, left, ec, listed, reply>>
    BY <1>7 DEF vars
  <2>2. /\ DirectoryInv' /\ Places' = Places /\ Self' = Self /\ Answer' = Answer
        /\ Resolved(req.path)' = Resolved(req.path) /\ Shows' = Shows
        /\ Exists(Resolved(req.path))' = Exists(Resolved(req.path))
    BY <2>1, SameDirectory, SameRequest, SameAnswer DEF Inv
  <2>3. RequestInv'
    BY <2>1, <2>2 DEF Inv, RequestInv
  <2>4. ReadInv'
    <3>1. /\ UnclearIsListed' = UnclearIsListed
          /\ \A i, j : Precedes(listed[i], listed[j])' = Precedes(listed[i], listed[j])
      BY <2>1 DEF UnclearIsListed, Precedes, IsDir
    <3> QED
      BY <2>1, <2>2, <3>1 DEF Inv, ReadInv
  <2>5. AnswerInv'
    BY <2>1, <2>2 DEF Inv, AnswerInv
  <2> QED
    BY <2>2, <2>3, <2>4, <2>5 DEF Inv
<1> QED
  BY <1>1, <1>2, <1>3, <1>4, <1>5, <1>6, <1>7 DEF Next

LEMMA AlwaysInv == Spec => []Inv
<1> QED
  BY InitInv, NextKeepsInv, PTL DEF Spec

-----------------------------------------------------------------------------
LEMMA OneThenMany ==
  ASSUME NEW a, NEW m, NEW n \in Nat, m = [i \in 1 .. n |-> m[i]]
  PROVE  /\ DOMAIN (<<a>> \o m) = 1 .. n + 1
         /\ (<<a>> \o m)[1] = a
         /\ \A i \in 1 .. n : (<<a>> \o m)[i + 1] = m[i]
<1> DEFINE S == {a} \union {m[i] : i \in 1 .. n}
           o == <<a>>
<1>1. o \in Seq(S) /\ Len(o) = 1 /\ o[1] = a
  <2>1. a \in S
    OBVIOUS
  <2> HIDE DEF S
  <2> QED
    BY <2>1
<1>2. m \in Seq(S) /\ Len(m) = n
  <2>1. \A i \in 1 .. n : m[i] \in S
    OBVIOUS
  <2> HIDE DEF S
  <2>2. m \in [1 .. n -> S]
    BY <2>1
  <2> QED
    BY <2>2
<1> HIDE DEF S, o
<1>3. /\ o \o m \in Seq(S) /\ Len(o \o m) = Len(o) + Len(m)
      /\ \A i \in 1 .. Len(o) + Len(m) :
           (o \o m)[i] = IF i <= Len(o) THEN o[i] ELSE m[i - Len(o)]
  BY <1>1, <1>2, ConcatProperties
<1>4. DOMAIN (o \o m) = 1 .. n + 1
  BY <1>1, <1>2, <1>3, LenProperties
<1>5. (o \o m)[1] = a
  BY <1>1, <1>2, <1>3
<1>6. ASSUME NEW i \in 1 .. n PROVE (o \o m)[i + 1] = m[i]
  <2>1. i + 1 \in 1 .. 1 + n /\ ~(i + 1 <= 1) /\ (i + 1) - 1 = i
    OBVIOUS
  <2> QED
    BY <1>1, <1>2, <1>3, <2>1
<1> QED
  BY <1>4, <1>5, <1>6 DEF o

(* The items of an answer: in that to a PROPFIND, the resource itself      *)
(* comes first.                                                            *)
Ahead == IF req.method = "GET" THEN 0 ELSE 1

LEMMA ItemsOfAnswer ==
  ASSUME Inv, DOMAIN reply # {} \/ Answered
  PROVE  /\ pc = "done" /\ Exists(Resolved(req.path)) /\ Ahead \in {0, 1}
         /\ Len(listed) \in Nat /\ DOMAIN listed = 1 .. Len(listed)
         /\ DOMAIN reply = 1 .. Len(listed) + Ahead
         /\ req.method = "GET" =>
              \A i \in 1 .. Len(listed) : reply[i + Ahead] = Item(listed[i])
         /\ req.method = "PROPFIND" =>
              /\ Ahead = 1
              /\ reply[1] = Response(Resolved(req.path), req.path)
              /\ \A i \in 1 .. Len(listed) :
                   reply[i + Ahead]
                     = Response(Entry(listed[i]), Append(Base(req.path), listed[i]))
<1>1. pc = "done" /\ Exists(Resolved(req.path)) /\ reply = Answer
  <2>1. Answered => pc = "done" /\ Exists(Resolved(req.path))
    BY DEF Answered
  <2>2. DOMAIN << >> = {}
    OBVIOUS
  <2> QED
    BY <2>1, <2>2 DEF Inv, AnswerInv
<1>2. Len(listed) \in Nat /\ DOMAIN listed = 1 .. Len(listed)
  BY LenProperties DEF Inv, ReadInv
<1>3. req.method \in {"GET", "PROPFIND"}
  BY <1>1 DEF Inv, RequestInv
<1>4. CASE req.method = "GET"
  <2>1. reply = [i \in 1 .. Len(listed) |-> Item(listed[i])] /\ Ahead = 0
    BY <1>1, <1>2, <1>4 DEF Answer, Ahead
  <2>2. /\ DOMAIN reply = 1 .. Len(listed)
        /\ \A i \in 1 .. Len(listed) : reply[i] = Item(listed[i])
    BY <2>1
  <2>3. Len(listed) + 0 = Len(listed) /\ \A i \in 1 .. Len(listed) : i + 0 = i
    BY <1>2
  <2> QED
    BY <1>1, <1>2, <1>4, <2>1, <2>2, <2>3
<1>5. CASE req.method = "PROPFIND"
  <2> DEFINE a == Response(Resolved(req.path), req.path)
             f(i) == Response(Entry(listed[i]), Append(Base(req.path), listed[i]))
             m == [i \in 1 .. Len(listed) |-> f(i)]
  <2>1. reply = <<a>> \o m /\ Ahead = 1
    BY <1>1, <1>2, <1>5 DEF Answer, Ahead
  <2>2. m = [i \in 1 .. Len(listed) |-> m[i]] /\ \A i \in 1 .. Len(listed) : m[i] = f(i)
    <3> HIDE DEF f
    <3> QED
      OBVIOUS
  <2> HIDE DEF a, f, m
  <2>3. /\ DOMAIN reply = 1 .. Len(listed) + 1 /\ reply[1] = a
        /\ \A i \in 1 .. Len(listed) : reply[i + 1] = m[i]
    BY <1>2, <2>1, <2>2, OneThenMany
  <2>4. \A i \in 1 .. Len(listed) : reply[i + Ahead] = f(i)
    BY <2>1, <2>2, <2>3
  <2> QED
    BY <1>1, <1>2, <1>5, <2>1, <2>3, <2>4 DEF a, f
<1> QED
  BY <1>3, <1>4, <1>5

(* What each item is about.                                                *)
LEMMA WhatIsShown ==
  ASSUME Inv, DOMAIN reply # {} \/ Answered
  PROVE  /\ req.method = "PROPFIND" => reply[1].what = Resolved(req.path)
         /\ \A i \in 1 .. Len(listed) : reply[i + Ahead].what = Entry(listed[i])
<1>1. \A n : Item(n).what = Entry(n)
  BY DEF Item
<1>2. \A what, path : Response(what, path).what = what
  BY DEF Response
<1>3. req.method \in {"GET", "PROPFIND"}
  BY ItemsOfAnswer DEF Inv, RequestInv
<1> QED
  BY <1>1, <1>2, <1>3, ItemsOfAnswer

-----------------------------------------------------------------------------
(* A listing of a directory of whatever size, read in whatever order,      *)
(* shows each entry once, directories first and then by name, and all of   *)
(* them unless it shows one that could not be examined.                    *)
THEOREM ListingIsExact == Spec => []ListingExact
<1>1. Inv => ListingExact
  <2> SUFFICES ASSUME Inv, Answered, Lists, Resolved(req.path) = Self PROVE ListingExact
    BY DEF ListingExact
  <2>1. /\ Exists(Resolved(req.path)) /\ pc = "done" /\ Ahead \in {0, 1} /\ Len(listed) \in Nat
        /\ DOMAIN listed = 1 .. Len(listed) /\ DOMAIN reply = 1 .. Len(listed) + Ahead
        /\ \A i \in 1 .. Len(listed) : reply[i + Ahead].what = Entry(listed[i])
        /\ Ahead = 1 => reply[1].what = Self
    <3>1. Ahead = 1 => req.method = "PROPFIND"
      BY DEF Ahead, Answered
    <3> QED
      BY <3>1, ItemsOfAnswer, WhatIsShown
  <2>2. /\ \A n \in DOMAIN entries : n \in left \/ \E i \in DOMAIN listed : listed[i] = n
        /\ left = {} \/ UnclearIsListed
        /\ \A i, j \in DOMAIN listed : i < j => Precedes(listed[i], listed[j])
        /\ \A i \in DOMAIN listed : listed[i] \in DOMAIN entries
    <3>1. Shows
      BY DEF Shows
    <3> QED
      BY <2>1, <3>1, ElementOfSeq DEF Inv, ReadInv
  <2> DEFINE shown == {reply[i].what : i \in DOMAIN reply}
  <2>3. \A k \in DOMAIN listed : Entry(listed[k]) \in shown
    <3> SUFFICES ASSUME NEW k \in DOMAIN listed PROVE Entry(listed[k]) \in shown
      OBVIOUS
    <3>1. k + Ahead \in DOMAIN reply
      BY <2>1
    <3>2. reply[k + Ahead].what = Entry(listed[k])
      BY <2>1
    <3> QED
      BY <3>1, <3>2
  <2>4. ASSUME NEW i \in DOMAIN reply, NEW j \in DOMAIN reply, i < j, reply[i].what # Self
        PROVE  /\ reply[j].what # Self
               /\ Precedes(reply[i].what.entry, reply[j].what.entry)
    <3> DEFINE a == i - Ahead
               b == j - Ahead
    <3>1. i \in 1 .. Len(listed) + Ahead /\ j \in 1 .. Len(listed) + Ahead
      BY <2>1
    <3>2. Ahead = 1 => i # 1
      BY <2>1, <2>4
    <3>3. /\ a \in 1 .. Len(listed) /\ b \in 1 .. Len(listed) /\ a < b
          /\ i = a + Ahead /\ j = b + Ahead
      BY <2>1, <2>4, <3>1, <3>2
    <3> HIDE DEF a, b
    <3>4. reply[i].what = Entry(listed[a]) /\ reply[j].what = Entry(listed[b])
      BY <2>1, <3>3
    <3>5. Precedes(listed[a], listed[b])
      BY <2>1, <2>2, <3>3
    <3>6. \A n : Entry(n).entry = n /\ Entry(n) # Self
      BY WhatDiffers
    <3> QED
      BY <3>4, <3>5, <3>6
  <2>5. ASSUME NEW n \in DOMAIN entries, Entry(n) \notin shown
        PROVE  \E m \in Unclear : Entry(m) \in shown
    <3>1. ~ \E i \in DOMAIN listed : listed[i] = n
      BY <2>3, <2>5
    <3>2. UnclearIsListed
      BY <2>2, <3>1
    <3>3. PICK k \in DOMAIN listed : entries[listed[k]] = "unclear"
      BY <3>2 DEF UnclearIsListed
    <3>4. listed[k] \in Unclear
      BY <2>2, <3>3 DEF Unclear
    <3> QED
      BY <2>3, <3>4
  <2> HIDE DEF shown
  <2> QED
    BY <2>4, <2>5 DEF ListingExact, shown
<1> QED
  BY <1>1, AlwaysInv, PTL

-----------------------------------------------------------------------------
(* The path of a request that leads to the directory is that of the        *)
(* directory, with a slash or none.                                        *)
LEMMA PathToSelf ==
  ASSUME DirectoryInv, NEW p \in Places, NEW path \in {p, Append(p, << >>)},
         Resolved(path) = Self
  PROVE  Base(path) = dir
<1>1. Base(path) = p
  BY PlaceIs, PathsEnd
<1>2. ASSUME NEW n \in DOMAIN entries, p = Append(dir, n) PROVE FALSE
  <2>1. Resolved(path) \in {Entry(n), Nothing}
    BY <1>1, <1>2, EntryIsResolved
  <2> QED
    BY <2>1, WhatDiffers
<1> QED
  BY <1>1, <1>2, PlaceIs

LEMMA NoBackslash ==
  ASSUME DirectoryInv, NEW p \in Places, NEW path \in {p, Append(p, << >>)},
         Resolved(path) # Nothing, <<Backslash>> \notin Range(dir),
         Resolved(path) # Entry(<<Backslash>>)
  PROVE  \A i \in 1 .. Len(path) : path[i] # <<Backslash>>
<1>1. p \in Seq(Name) /\ p \in Seq(PathName) /\ Base(path) = p /\ dir \in Seq(Name)
  BY PlaceIs, PathsEnd DEF DirectoryInv
<1>2. \A i \in 1 .. Len(dir) : dir[i] # <<Backslash>>
  BY <1>1, LenProperties DEF Range
<1>3. \A i \in 1 .. Len(p) : p[i] # <<Backslash>>
  <2>1. ASSUME NEW n \in DOMAIN entries, p = Append(dir, n)
        PROVE  \A i \in 1 .. Len(p) : p[i] # <<Backslash>>
    <3>1. Resolved(path) = Entry(n)
      BY <1>1, <2>1, EntryIsResolved
    <3>2. n # <<Backslash>>
      BY <3>1
    <3>3. /\ Len(p) = Len(dir) + 1 /\ p[Len(dir) + 1] = n /\ Len(dir) \in Nat
          /\ \A i \in 1 .. Len(dir) : p[i] = dir[i]
      <4>1. n \in Name
        BY DEF DirectoryInv
      <4> QED
        BY <1>1, <2>1, <4>1, AppendProperties, LenProperties
    <3>4. \A i \in 1 .. Len(dir) + 1 : i = Len(dir) + 1 \/ i \in 1 .. Len(dir)
      BY <3>3
    <3> QED
      BY <1>2, <3>2, <3>3, <3>4
  <2> QED
    BY <1>2, <2>1, PlaceIs
<1>4. ASSUME path = Append(p, << >>)
      PROVE  \A i \in 1 .. Len(path) : path[i] # <<Backslash>>
  <2>1. << >> \in PathName /\ << >> # <<Backslash>>
    BY EmptySeq DEF PathName
  <2>2. /\ Len(path) = Len(p) + 1 /\ path[Len(p) + 1] = << >> /\ Len(p) \in Nat
        /\ \A i \in 1 .. Len(p) : path[i] = p[i]
    BY <1>1, <1>4, <2>1, AppendProperties, LenProperties
  <2>3. \A i \in 1 .. Len(p) + 1 : i = Len(p) + 1 \/ i \in 1 .. Len(p)
    BY <2>2
  <2> QED
    BY <1>3, <2>1, <2>2, <2>3
<1> QED
  BY <1>3, <1>4

(* Each response to a PROPFIND is that for the path of a place.            *)
LEMMA ResponsesAreOfPlaces ==
  ASSUME Inv, req.method = "PROPFIND", NEW i \in DOMAIN reply
  PROVE  \E p \in Places : \E path \in {p, Append(p, << >>)} :
           Resolved(path) # Nothing /\ reply[i] = Response(Resolved(path), path)
<1>1. /\ pc = "done" /\ Exists(Resolved(req.path)) /\ Len(listed) \in Nat
      /\ i \in 1 .. Len(listed) + Ahead /\ Ahead = 1
  BY ItemsOfAnswer DEF Inv, RequestInv
<1>2. PICK p \in Places : req.path \in {p, Append(p, << >>)}
  BY <1>1 DEF Inv, RequestInv
<1>3. CASE i = 1
  <2>1. Resolved(req.path) # Nothing /\ reply[i] = Response(Resolved(req.path), req.path)
    BY <1>1, <1>3, ItemsOfAnswer DEF Exists
  <2> QED
    BY <1>2, <2>1
<1>4. CASE i # 1
  <2> DEFINE k == i - 1
             n == listed[k]
             path == Append(dir, n)
  <2>1. k \in 1 .. Len(listed) /\ i = k + Ahead
    BY <1>1, <1>4
  <2> HIDE DEF k
  <2>2. listed \in Seq(DOMAIN entries)
    BY DEF Inv, ReadInv
  <2>3. n \in DOMAIN entries /\ path \in Places
    BY <2>1, <2>2, ElementOfSeq DEF Places
  <2>4. Base(req.path) = dir
    <3>1. Shows
      BY <1>1, <2>1 DEF Inv, ReadInv
    <3> QED
      BY <1>2, <3>1, PathToSelf DEF Inv, Shows
  <2>5. Resolved(path) = Entry(n)
    <3>1. Base(path) = Append(dir, n) /\ ~EndsInSlash(path)
      BY <2>3, PlaceIs, PathsEnd DEF Inv
    <3> HIDE DEF path, n
    <3> QED
      BY <2>3, <3>1, EntryIsResolved DEF Inv
  <2>6. reply[i] = Response(Entry(n), path)
    BY <2>1, <2>4, ItemsOfAnswer
  <2> HIDE DEF path, n
  <2>7. Resolved(path) # Nothing /\ reply[i] = Response(Resolved(path), path)
    BY <2>5, <2>6, WhatDiffers
  <2> QED
    BY <2>3, <2>7
<1> QED
  BY <1>3, <1>4

(* A client that sends a path it was shown as the target of a request      *)
(* reaches the entry it was shown, and the path ends in a slash exactly if *)
(* that is a directory: for a directory of whatever size, and names of     *)
(* whatever bytes and length, but for the backslash.                       *)
THEOREM EveryHrefLeadsBack == Spec => []HrefNamesEntry
<1>1. Inv => HrefNamesEntry
  <2> SUFFICES ASSUME Inv, NEW i \in DOMAIN reply,
                      req.method = "GET"
                        \/ ~(<<Backslash>> \in Range(dir)
                               \/ reply[i].what = Entry(<<Backslash>>))
               PROVE  /\ Resolved(RequestPath(reply[i].href)) = reply[i].what
                      /\ (Last(reply[i].href) = Slash) = (KindOf(reply[i].what) = "dir")
    BY DEF HrefNamesEntry, Skipped
  <2> DEFINE LeadsTo(what, path) ==
               /\ reply[i].what = what
               /\ reply[i].href = EncodedPath(path, KindOf(what) = "dir")
  <2>1. ASSUME NEW p \in Places, NEW path \in {p, Append(p, << >>)},
               Resolved(path) # Nothing, LeadsTo(Resolved(path), path)
        PROVE  /\ Resolved(RequestPath(reply[i].href)) = reply[i].what
               /\ (Last(reply[i].href) = Slash) = (KindOf(reply[i].what) = "dir")
    BY <2>1, LeadsBack, ZenonT(60) DEF Inv
  <2>2. CASE req.method = "PROPFIND"
    <3>1. PICK p \in Places : \E path \in {p, Append(p, << >>)} :
            Resolved(path) # Nothing /\ reply[i] = Response(Resolved(path), path)
      BY <2>2, ResponsesAreOfPlaces
    <3>2. PICK path \in {p, Append(p, << >>)} :
            Resolved(path) # Nothing /\ reply[i] = Response(Resolved(path), path)
      BY <3>1
    <3>3. /\ reply[i].what = Resolved(path)
          /\ reply[i].href = Href(path, KindOf(Resolved(path)) = "dir")
      BY <3>2 DEF Response
    <3>4. \A k \in 1 .. Len(path) : path[k] # <<Backslash>>
      BY <2>2, <3>2, <3>3, NoBackslash DEF Inv
    <3>5. path \in Seq(PathName)
      BY PlaceIs, PathsEnd DEF Inv
    <3>6. Href(path, KindOf(Resolved(path)) = "dir")
            = EncodedPath(path, KindOf(Resolved(path)) = "dir")
      BY <3>4, <3>5, HrefIsEncoded
    <3>7. LeadsTo(Resolved(path), path)
      BY <3>3, <3>6
    <3> HIDE DEF LeadsTo
    <3> QED
      BY <2>1, <3>2, <3>7
  <2>3. CASE req.method = "GET"
    <3> DEFINE n == listed[i]
               path == Append(dir, n)
    <3>1. /\ pc = "done" /\ Exists(Resolved(req.path))
          /\ i \in 1 .. Len(listed) /\ reply[i] = Item(n)
      <4>1. Ahead = 0 /\ Len(listed) \in Nat
        BY <2>3, ItemsOfAnswer DEF Ahead
      <4>2. i \in 1 .. Len(listed) /\ i + Ahead = i
        BY <4>1, ItemsOfAnswer
      <4> QED
        BY <2>3, <4>2, ItemsOfAnswer
    <3>2. n \in DOMAIN entries /\ path \in Places
      <4>1. listed \in Seq(DOMAIN entries)
        BY DEF Inv, ReadInv
      <4> QED
        BY <3>1, <4>1, ElementOfSeq DEF Places
    <3>3. Base(req.path) = dir
      <4>1. PICK p \in Places : req.path \in {p, Append(p, << >>)}
        BY <3>1 DEF Inv, RequestInv
      <4>2. Resolved(req.path) = Self
        BY <2>3, <3>1 DEF Inv, RequestInv
      <4> QED
        BY <4>1, <4>2, PathToSelf DEF Inv
    <3>4. Base(path) = Append(dir, n) /\ ~EndsInSlash(path)
      BY <3>2, PlaceIs, PathsEnd DEF Inv
    <3>5. /\ reply[i].what = Entry(n)
          /\ reply[i].href = EncodedPath(path, entries[n] = "dir")
      BY <3>1, <3>3 DEF Item
    <3> HIDE DEF path, n
    <3>6. Resolved(path) = Entry(n)
      BY <3>2, <3>4, EntryIsResolved DEF Inv
    <3>7. Entry(n) # Nothing /\ KindOf(Entry(n)) = entries[n]
      BY WhatDiffers
    <3>8. LeadsTo(Resolved(path), path)
      BY <3>5, <3>6, <3>7
    <3> HIDE DEF LeadsTo
    <3> QED
      BY <2>1, <3>2, <3>6, <3>7, <3>8
  <2>4. req.method \in {"GET", "PROPFIND"}
    BY ItemsOfAnswer DEF Inv, RequestInv
  <2> QED
    BY <2>2, <2>3, <2>4
<1> QED
  BY <1>1, AlwaysInv, PTL

(* The path under which a place is shown is shown as it is, and keeps the  *)
(* name of a file.                                                         *)
LEMMA ShownPathStays ==
  ASSUME DirectoryInv, NEW p \in Places, NEW path \in {p, Append(p, << >>)},
         Resolved(path) # Nothing
  PROVE  LET d == KindOf(Resolved(path)) = "dir"
             q == PathOf(path, d)
         IN  /\ q \in {p, Append(p, << >>)}
             /\ RequestPath(EncodedPath(path, d)) = q
             /\ Resolved(q) = Resolved(path)
             /\ EncodedPath(q, d) = EncodedPath(path, d)
             /\ FileName(q) = IF d THEN << >> ELSE FileName(path)
<1> DEFINE d == KindOf(Resolved(path)) = "dir"
           q == PathOf(path, d)
<1>1. p \in Seq(Name) /\ path \in Seq(PathName) /\ d \in BOOLEAN
  BY PlaceIs, PathsEnd
<1>2. RequestPath(EncodedPath(path, d)) = q /\ Resolved(RequestPath(EncodedPath(path, d))) = Resolved(path)
  <2>1. Resolved(RequestPath(EncodedPath(path, d))) = Resolved(path)
    BY LeadsBack
  <2> HIDE DEF d
  <2> QED
    BY <1>1, <2>1, TargetIsRead
<1>3. d \/ (path = p /\ p # << >>)
  <2>1. CASE p = dir
    <3>1. Resolved(path) = Self
      BY <1>1, <2>1, PathsEnd, SelfIsResolved
    <3> QED
      BY <3>1, WhatDiffers
  <2>2. ASSUME NEW n \in DOMAIN entries, p = Append(dir, n), ~d
        PROVE  path = p /\ p # << >>
    <3>1. dir \in Seq(Name) /\ n \in Name
      BY DEF DirectoryInv
    <3>2. p # << >>
      BY <2>2, <3>1, FrontAndLast
    <3>3. Base(path) = Append(dir, n)
      BY <1>1, <2>2, PathsEnd
    <3>4. (EndsInSlash(path) => entries[n] = "dir") /\ Resolved(path) = Entry(n)
      BY <3>3, EntryIsResolved
    <3>5. ~EndsInSlash(path)
      BY <2>2, <3>4, WhatDiffers
    <3> QED
      BY <1>1, <3>2, <3>5, PathsEnd
  <2> QED
    BY <2>1, <2>2, PlaceIs
<1> HIDE DEF d
<1>4. q = IF d THEN Append(p, << >>) ELSE path
  BY <1>1, <1>3, PathOfIs
<1>5. q \in {p, Append(p, << >>)}
  BY <1>4
<1>6. q # << >> /\ Last(q) = IF d THEN << >> ELSE Last(path)
  <2>1. Append(p, << >>) # << >> /\ Last(Append(p, << >>)) = << >>
    BY <1>1, PathsEnd DEF EndsInSlash
  <2> QED
    BY <1>3, <1>4, <2>1
<1>7. EncodedPath(q, d) = EncodedPath(path, d)
  <2>1. q \in Seq(PathName)
    BY <1>1, EncodedPathIs
  <2>2. PathOf(q, d) = q
    BY <1>6 DEF PathOf
  <2>3. EncodedPath(path, d) = EncodedNames(q)
    BY <1>1, EncodedPathIs
  <2> HIDE DEF q
  <2>4. EncodedPath(q, d) = EncodedNames(PathOf(q, d))
    BY <1>1, <2>1, EncodedPathIs
  <2> QED
    BY <2>2, <2>3, <2>4
<1>8. FileName(q) = IF d THEN << >> ELSE FileName(path)
  <2> HIDE DEF q
  <2> QED
    BY <1>3, <1>4, <1>6 DEF FileName
<1> QED
  BY <1>2, <1>5, <1>7, <1>8 DEF d, q

(* A client that asks for a resource alone, under the path a listing shows *)
(* for it, is answered what the listing says of it, but for the            *)
(* displayname of a directory, which is empty: for a directory of whatever *)
(* size, names of whatever bytes and whatever properties are asked for.    *)
THEOREM ShownAsAlone == Spec => []SameAlone
<1>1. Inv => SameAlone
  <2> SUFFICES ASSUME Inv, req.method = "PROPFIND", NEW i \in DOMAIN reply,
                      Exists(reply[i].what), ~Skipped(reply[i].what)
               PROVE  LET shown == reply[i]
                          path  == RequestPath(shown.href)
                          name  == IF KindOf(shown.what) = "dir" THEN << >> ELSE shown.name
                      IN  /\ Exists(Resolved(path))
                          /\ Response(Resolved(path), path) = [shown EXCEPT !.name = name]
    BY DEF SameAlone
  <2>1. PICK p \in Places : \E path \in {p, Append(p, << >>)} :
          Resolved(path) # Nothing /\ reply[i] = Response(Resolved(path), path)
    BY ResponsesAreOfPlaces
  <2>2. PICK path \in {p, Append(p, << >>)} :
          Resolved(path) # Nothing /\ reply[i] = Response(Resolved(path), path)
    BY <2>1
  <2> DEFINE what == Resolved(path)
             d == KindOf(what) = "dir"
             q == PathOf(path, d)
             asked == get_requests(req.doc)
             found == Found(asked, KindOf(what))
             none == None(asked, KindOf(what))
  <2>3. /\ reply[i] = [what |-> what, name |-> FileName(path), href |-> Href(path, d),
                       found |-> found, none |-> none]
        /\ reply[i].what = what
    BY <2>2 DEF Response
  <2>4. /\ q \in {p, Append(p, << >>)} /\ Resolved(q) = what
        /\ RequestPath(EncodedPath(path, d)) = q
        /\ EncodedPath(q, d) = EncodedPath(path, d)
        /\ FileName(q) = IF d THEN << >> ELSE FileName(path)
    BY <2>2, ShownPathStays DEF Inv
  <2>5. /\ path \in Seq(PathName) /\ q \in Seq(PathName)
        /\ \A k \in 1 .. Len(path) : path[k] # <<Backslash>>
        /\ \A k \in 1 .. Len(q) : q[k] # <<Backslash>>
    <3>1. <<Backslash>> \notin Range(dir) /\ what # Entry(<<Backslash>>)
      BY <2>3 DEF Skipped
    <3>2. path \in Seq(PathName) /\ q \in Seq(PathName)
      BY <2>4, PlaceIs, PathsEnd DEF Inv
    <3> HIDE DEF q
    <3> QED
      BY <2>2, <2>4, <3>1, <3>2, NoBackslash DEF Inv
  <2>6. Href(path, d) = EncodedPath(path, d) /\ Href(q, d) = EncodedPath(q, d)
    <3> HIDE DEF q, d
    <3> QED
      BY <2>5, HrefIsEncoded
  <2>7. RequestPath(reply[i].href) = q
    BY <2>3, <2>4, <2>6
  <2>8. Response(what, q)
          = [what |-> what, name |-> IF d THEN << >> ELSE FileName(path), href |-> Href(path, d),
             found |-> found, none |-> none]
    BY <2>4, <2>6 DEF Response
  <2>9. Exists(what)
    BY <2>3
  <2> HIDE DEF what, d, q, found, none
  <2>10. reply[i].name = FileName(path) /\ (KindOf(reply[i].what) = "dir" <=> d)
    BY <2>3 DEF d
  <2>11. Response(what, q)
           = [reply[i] EXCEPT !.name = IF KindOf(reply[i].what) = "dir" THEN << >> ELSE reply[i].name]
    BY <2>3, <2>8, <2>10
  <2> QED
    BY <2>4, <2>7, <2>9, <2>11
<1> QED
  BY <1>1, AlwaysInv, PTL

-----------------------------------------------------------------------------
(* The order of texts is strict.                                           *)
LEMMA LessIsStrict ==
  ASSUME NEW s \in Seq(Byte), NEW t \in Seq(Byte), NEW u \in Seq(Byte)
  PROVE  /\ ~Less(s, s)
         /\ Less(s, t) /\ Less(t, u) => Less(s, u)
<1>1. /\ Len(s) \in Nat /\ Len(t) \in Nat /\ Len(u) \in Nat
      /\ \A i \in 1 .. Len(s) : s[i] \in Byte
      /\ \A i \in 1 .. Len(t) : t[i] \in Byte
      /\ \A i \in 1 .. Len(u) : u[i] \in Byte
  BY LenProperties, ElementOfSeq
<1>2. \A a, b, c \in Byte : ~(a < a) /\ (a < b /\ b < c => a < c)
  BY DEF Byte
<1>3. ~Less(s, s)
  BY <1>1, <1>2 DEF Less
<1>4. ASSUME Less(s, t), Less(t, u) PROVE Less(s, u)
  <2>1. PICK k \in 1 .. Len(t) :
          /\ \A j \in 1 .. k - 1 : j <= Len(s) /\ s[j] = t[j]
          /\ k > Len(s) \/ s[k] < t[k]
    BY <1>4 DEF Less
  <2>2. PICK l \in 1 .. Len(u) :
          /\ \A j \in 1 .. l - 1 : j <= Len(t) /\ t[j] = u[j]
          /\ l > Len(t) \/ t[l] < u[l]
    BY <1>4 DEF Less
  <2>3. CASE k < l
    <3>1. k \in 1 .. Len(u) /\ k \in 1 .. l - 1 /\ \A j \in 1 .. k - 1 : j \in 1 .. l - 1
      BY <1>1, <2>3
    <3> QED
      BY <2>1, <2>2, <3>1 DEF Less
  <2>4. CASE k = l
    <3>1. t[k] < u[k]
      BY <1>1, <2>2, <2>4
    <3>2. k > Len(s) \/ s[k] < u[k]
      <4>1. k > Len(s) \/ k \in 1 .. Len(s)
        BY <1>1
      <4>2. k \in 1 .. Len(t) /\ k \in 1 .. Len(u)
        BY <2>4
      <4> QED
        BY <1>1, <1>2, <2>1, <3>1, <4>1, <4>2
    <3> QED
      BY <2>1, <2>2, <2>4, <3>2 DEF Less
  <2>5. CASE l < k
    <3>1. /\ l \in 1 .. k - 1 /\ l \in 1 .. Len(t) /\ \A j \in 1 .. l - 1 : j \in 1 .. k - 1
      BY <1>1, <2>5
    <3>2. s[l] = t[l] /\ t[l] < u[l]
      BY <1>1, <2>1, <2>2, <3>1
    <3>3. s[l] < u[l]
      BY <3>2
    <3> QED
      BY <2>1, <2>2, <3>1, <3>3 DEF Less
  <2> QED
    BY <1>1, <2>3, <2>4, <2>5
<1> QED
  BY <1>3, <1>4

LEMMA PrecedesIsStrict ==
  ASSUME DirectoryInv, NEW m \in DOMAIN entries, NEW n \in DOMAIN entries,
         NEW o \in DOMAIN entries
  PROVE  /\ ~Precedes(m, m)
         /\ Precedes(m, n) /\ Precedes(n, o) => Precedes(m, o)
<1>1. m \in Seq(Byte) /\ n \in Seq(Byte) /\ o \in Seq(Byte)
  BY NamesHaveNoSlash, PathNameIsText DEF DirectoryInv
<1>2. /\ ~Less(m, m)
      /\ Less(m, n) /\ Less(n, o) => Less(m, o)
  BY <1>1, LessIsStrict
<1>3. IsDir(m) \in BOOLEAN /\ IsDir(n) \in BOOLEAN /\ IsDir(o) \in BOOLEAN
  BY DEF IsDir
<1> QED
  BY <1>2, <1>3 DEF Precedes

StrictOrder(R, D) ==
  /\ \A a \in D : <<a, a>> \notin R
  /\ \A a, b, c \in D : <<a, b>> \in R /\ <<b, c>> \in R => <<a, c>> \in R
  /\ \A a, b \in D : a # b => <<a, b>> \in R \/ <<b, a>> \in R

(* Places for all elements of a set that a relation orders: that of an     *)
(* element is the number of those that come before it.                     *)
LEMMA OrderGivesPlaces ==
  ASSUME NEW n \in Nat, NEW R, StrictOrder(R, 1 .. n)
  PROVE  \E place \in Bijection(1 .. n, 1 .. n) :
           \A a, b \in 1 .. n : <<a, b>> \in R => place[a] < place[b]
<1> DEFINE D == 1 .. n
           before == [a \in D |-> {b \in D : <<b, a>> \in R}]
           place  == [a \in D |-> Cardinality(before[a]) + 1]
<1>0. /\ \A a \in D : <<a, a>> \notin R
      /\ \A a, b, c \in D : <<a, b>> \in R /\ <<b, c>> \in R => <<a, c>> \in R
      /\ \A a, b \in D : a # b => <<a, b>> \in R \/ <<b, a>> \in R
  BY DEF StrictOrder
<1>1. IsFiniteSet(D) /\ Cardinality(D) = n
  <2>1. IsFiniteSet(1 .. n) /\ Cardinality(1 .. n) = IF 1 > n THEN 0 ELSE (n - 1) + 1
    BY FS_Interval
  <2> QED
    BY <2>1
<1>2. ASSUME NEW a \in D
      PROVE  /\ IsFiniteSet(before[a]) /\ Cardinality(before[a]) \in Nat
             /\ Cardinality(before[a]) < n
  <2>1. before[a] \subseteq D /\ a \notin before[a]
    BY <1>0
  <2> HIDE DEF before
  <2> QED
    BY <1>1, <2>1, FS_Subset, FS_CardinalityType
<1>3. ASSUME NEW a \in D, NEW b \in D, <<a, b>> \in R
      PROVE  Cardinality(before[a]) < Cardinality(before[b])
  <2>1. before[a] \subseteq before[b] /\ a \in before[b] /\ a \notin before[a]
    BY <1>0, <1>3
  <2>2. /\ IsFiniteSet(before[b]) /\ Cardinality(before[b]) \in Nat
        /\ Cardinality(before[a]) \in Nat
    BY <1>2
  <2> HIDE DEF before
  <2> QED
    BY <2>1, <2>2, FS_Subset
<1> HIDE DEF before
<1>4. \A a, b \in D : <<a, b>> \in R => place[a] < place[b]
  BY <1>2, <1>3
<1>5. place \in [D -> D]
  BY <1>2
<1>6. \A a, b \in D : place[a] = place[b] => a = b
  <2>1. \A a \in D : place[a] \in Nat
    BY <1>5
  <2> HIDE DEF place
  <2> SUFFICES ASSUME NEW a \in D, NEW b \in D, a # b PROVE place[a] # place[b]
    OBVIOUS
  <2>2. place[a] < place[b] \/ place[b] < place[a]
    BY <1>0, <1>4
  <2>3. place[a] \in Nat /\ place[b] \in Nat
    BY <2>1
  <2> QED
    BY <2>2, <2>3
<1> HIDE DEF place
<1>7. place \in Injection(D, D)
  BY <1>5, <1>6 DEF Injection, IsInjective
<1>8. place \in Surjection(D, D)
  BY <1>1, <1>7, FS_Injection
<1> QED
  BY <1>4, <1>7, <1>8 DEF Bijection

LEMMA SortingExists ==
  ASSUME NEW n \in Nat, NEW R, StrictOrder(R, 1 .. n)
  PROVE  \E from \in Bijection(1 .. n, 1 .. n) :
           \A i, j \in 1 .. n : i < j => <<from[j], from[i]>> \notin R
<1>1. PICK place \in Bijection(1 .. n, 1 .. n) :
        \A a, b \in 1 .. n : <<a, b>> \in R => place[a] < place[b]
  BY OrderGivesPlaces
<1> DEFINE D == 1 .. n
<1>2. /\ \A a \in D : place[a] \in D
      /\ \A a, b \in D : place[a] = place[b] => a = b
      /\ \A i \in D : \E a \in D : place[a] = i
  BY DEF Bijection, Injection, Surjection, IsInjective
<1> DEFINE from == [i \in D |-> CHOOSE a \in D : place[a] = i]
<1>3. \A i \in D : from[i] \in D /\ place[from[i]] = i
  BY <1>2
<1>4. from \in [D -> D]
  BY <1>3
<1> HIDE DEF from
<1>5. ASSUME NEW a \in D PROVE from[place[a]] = a
  <2>1. place[a] \in D
    BY <1>2
  <2>2. from[place[a]] \in D /\ place[from[place[a]]] = place[a]
    BY <1>3, <2>1
  <2> QED
    BY <1>2, <2>2
<1>6. from \in Bijection(D, D)
  <2>1. \A i, j \in D : from[i] = from[j] => i = j
    BY <1>3
  <2>2. \A a \in D : \E i \in D : from[i] = a
    BY <1>2, <1>5
  <2> QED
    BY <1>4, <2>1, <2>2 DEF Bijection, Injection, Surjection, IsInjective
<1>7. \A i, j \in D : i < j => <<from[j], from[i]>> \notin R
  <2> SUFFICES ASSUME NEW i \in D, NEW j \in D, i < j, <<from[j], from[i]>> \in R
               PROVE  FALSE
    OBVIOUS
  <2>1. place[from[j]] < place[from[i]]
    BY <1>1, <1>3
  <2>2. j < i
    BY <1>3, <2>1
  <2> QED
    BY <2>2
<1> QED
  BY <1>6, <1>7

(* So what was read can always be sorted: a listing never ends in a state  *)
(* in which EndRead finds no order.                                        *)
CanSort ==
  \E from \in Bijection(DOMAIN listed, DOMAIN listed) :
    \A i, j \in DOMAIN listed : i < j => ~Precedes(listed[from[j]], listed[from[i]])

THEOREM EveryListingCanBeSorted == Spec => []CanSort
<1>1. Inv => CanSort
  <2> SUFFICES ASSUME Inv PROVE CanSort
    OBVIOUS
  <2> DEFINE D == DOMAIN listed
             R == {p \in D \X D : Precedes(listed[p[1]], listed[p[2]])}
  <2>1. /\ Len(listed) \in Nat /\ D = 1 .. Len(listed)
        /\ \A a \in D : listed[a] \in DOMAIN entries
        /\ \A a, b \in D : listed[a] = listed[b] => a = b
    BY LenProperties, ElementOfSeq DEF Inv, ReadInv
  <2>2. \A a, b \in D : <<a, b>> \in R <=> Precedes(listed[a], listed[b])
    OBVIOUS
  <2> HIDE DEF D, R
  <2>3. \A a \in D : <<a, a>> \notin R
    BY <2>1, <2>2, PrecedesIsStrict DEF Inv
  <2>4. \A a, b, c \in D : <<a, b>> \in R /\ <<b, c>> \in R => <<a, c>> \in R
    <3> SUFFICES ASSUME NEW a \in D, NEW b \in D, NEW c \in D,
                        Precedes(listed[a], listed[b]), Precedes(listed[b], listed[c])
                 PROVE  Precedes(listed[a], listed[c])
      BY <2>2
    <3>1. listed[a] \in DOMAIN entries /\ listed[b] \in DOMAIN entries
            /\ listed[c] \in DOMAIN entries
      BY <2>1
    <3> QED
      BY <3>1, PrecedesIsStrict DEF Inv
  <2>5. \A a, b \in D : a # b => <<a, b>> \in R \/ <<b, a>> \in R
    <3> SUFFICES ASSUME NEW a \in D, NEW b \in D, a # b
                 PROVE  Precedes(listed[a], listed[b]) \/ Precedes(listed[b], listed[a])
      BY <2>2
    <3>1. listed[a] \in DOMAIN entries /\ listed[b] \in DOMAIN entries /\ listed[a] # listed[b]
      BY <2>1
    <3> QED
      BY <3>1, PrecedesIsTotal DEF Inv
  <2>6. PICK from \in Bijection(D, D) : \A i, j \in D : i < j => <<from[j], from[i]>> \notin R
    <3> DEFINE n == Len(listed)
    <3>1. n \in Nat /\ D = 1 .. n
      BY <2>1
    <3>2. StrictOrder(R, D)
      BY <2>3, <2>4, <2>5 DEF StrictOrder
    <3> HIDE DEF n
    <3> QED
      BY <3>1, <3>2, SortingExists
  <2>7. \A i \in D : from[i] \in D
    BY DEF Bijection, Injection
  <2>8. \A i, j \in D : i < j => ~Precedes(listed[from[j]], listed[from[i]])
    BY <2>2, <2>6, <2>7
  <2> QED
    BY <2>8 DEF CanSort, D
<1> QED
  BY <1>1, AlwaysInv, PTL
=============================================================================
