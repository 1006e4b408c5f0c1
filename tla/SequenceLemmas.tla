--------------------------- MODULE SequenceLemmas ---------------------------
(***************************************************************************)
(* Facts about sequences that the proofs of several components need:       *)
(* induction on numbers and on sequences, stated for sets, and what        *)
(* FlattenSeq of the community modules makes of a sequence of sequences.   *)
(***************************************************************************)
EXTENDS Naturals, Sequences, SequencesExt, SequenceTheorems,
        WellFoundedInduction, TLAPS

(* A set that holds 0, and the successor of each number it holds, holds    *)
(* every number: a counterexample would have a least one.                  *)
LEMMA NatSetInduction ==
  ASSUME NEW S, 0 \in S, \A n \in Nat : n \in S => n + 1 \in S
  PROVE  Nat \subseteq S
<1> DEFINE T == Nat \ S
<1> SUFFICES ASSUME T # {} PROVE FALSE
  OBVIOUS
<1>1. T \subseteq Nat
  OBVIOUS
<1> HIDE DEF T
<1>2. PICK x \in T : \A y \in T : <<y, x>> \notin OpToRel(<, Nat)
  BY <1>1, NatLessThanWellFounded, WFMin
<1>3. x \in Nat /\ x # 0 /\ x \notin S
  BY DEF T
<1>4. x - 1 \in Nat /\ x - 1 < x /\ (x - 1) + 1 = x
  BY <1>3
<1>5. <<x - 1, x>> \in OpToRel(<, Nat)
  BY <1>3, <1>4 DEF OpToRel
<1>6. x - 1 \in S
  BY <1>2, <1>4, <1>5 DEF T
<1> QED
  BY <1>3, <1>4, <1>6

(* A sequence is its first element and the rest.                           *)
LEMMA HeadIsFirst ==
  ASSUME NEW S, NEW u \in Seq(S), u # << >>
  PROVE  /\ Head(u) \in S /\ Tail(u) \in Seq(S)
         /\ <<Head(u)>> \in Seq(S) /\ u = <<Head(u)>> \o Tail(u)
<1>1. /\ Head(u) \in S /\ Tail(u) \in Seq(S)
      /\ Len(u) \in Nat \ {0} /\ Len(Tail(u)) = Len(u) - 1
      /\ \A i \in 1 .. Len(Tail(u)) : Tail(u)[i] = u[i + 1]
      /\ Head(u) = u[1]
  BY HeadTailProperties, EmptySeq
<1> DEFINE h == Head(u)
           t == Tail(u)
           j == <<h>> \o t
<1> HIDE DEF h, t
<1>2. h \in S /\ t \in Seq(S) /\ <<h>> \in Seq(S) /\ Len(<<h>>) = 1 /\ <<h>>[1] = h
  BY <1>1 DEF h, t
<1>3. /\ j \in Seq(S) /\ Len(j) = 1 + Len(t)
      /\ \A i \in 1 .. 1 + Len(t) : j[i] = IF i <= 1 THEN <<h>>[i] ELSE t[i - 1]
  BY <1>2, ConcatProperties
<1> HIDE DEF j
<1>4. ASSUME NEW i \in 1 .. Len(u) PROVE u[i] = j[i]
  <2>1. CASE i = 1
    BY <1>1, <1>2, <1>3, <2>1 DEF h, t
  <2>2. CASE i # 1
    <3>1. i - 1 \in 1 .. Len(t) /\ (i - 1) + 1 = i
      BY <1>1, <2>2 DEF t
    <3> QED
      BY <1>1, <1>3, <2>2, <3>1 DEF t
  <2> QED
    BY <2>1, <2>2
<1>5. u = j
  BY <1>1, <1>3, <1>4, SeqEqual DEF t
<1> QED
  BY <1>1, <1>2, <1>5 DEF h, t, j

(* A set that holds the empty sequence, and with a sequence every longer   *)
(* one by an element, holds every sequence.                                *)
LEMMA SeqSetInduction ==
  ASSUME NEW S, NEW T,
         << >> \in T,
         \A s \in Seq(S) \intersect T, e \in S : Append(s, e) \in T
  PROVE  Seq(S) \subseteq T
<1> DEFINE N == {n \in Nat : \A s \in Seq(S) : Len(s) = n => s \in T}
<1>1. 0 \in N
  BY EmptySeq
<1>2. ASSUME NEW n \in Nat, n \in N PROVE n + 1 \in N
  <2> SUFFICES ASSUME NEW s \in Seq(S), Len(s) = n + 1 PROVE s \in T
    OBVIOUS
  <2>1. s # << >>
    BY EmptySeq
  <2>2. PICK t \in Seq(S), e \in S : s = Append(t, e)
    BY <2>1, SequenceEmptyOrAppend
  <2>3. Len(t) = n
    BY <2>2, AppendProperties, LenProperties
  <2> QED
    BY <1>2, <2>2, <2>3
<1>3. Nat \subseteq N
  <2> HIDE DEF N
  <2> QED
    BY <1>1, <1>2, NatSetInduction
<1> QED
  BY <1>3, LenProperties

(* A sequence cut in two.                                                  *)
LEMMA CutInTwo ==
  ASSUME NEW S, NEW s \in Seq(S), NEW k \in 0 .. Len(s)
  PROVE  /\ SubSeq(s, 1, k) \in Seq(S) /\ Len(SubSeq(s, 1, k)) = k
         /\ \A i \in 1 .. k : SubSeq(s, 1, k)[i] = s[i]
         /\ SubSeq(s, k + 1, Len(s)) \in Seq(S)
         /\ Len(SubSeq(s, k + 1, Len(s))) = Len(s) - k
         /\ \A i \in 1 .. Len(s) - k : SubSeq(s, k + 1, Len(s))[i] = s[k + i]
         /\ SubSeq(s, 1, k) \o SubSeq(s, k + 1, Len(s)) = s
<1>1. Len(s) \in Nat /\ k \in Nat /\ k \in Int /\ k <= Len(s) /\ Len(s) \in Int
  BY LenProperties
<1>2. \A i \in 1 .. Len(s) : s[i] \in S
  BY ElementOfSeq
<1>3. /\ SubSeq(s, 1, k) \in Seq(S)
      /\ Len(SubSeq(s, 1, k)) = IF 1 <= k THEN k - 1 + 1 ELSE 0
      /\ \A i \in 1 .. k - 1 + 1 : SubSeq(s, 1, k)[i] = s[1 + i - 1]
  <2>1. \A i \in 1 .. k : s[i] \in S
    BY <1>1, <1>2
  <2> QED
    BY <1>1, <2>1, SubSeqProperties
<1>4. /\ SubSeq(s, k + 1, Len(s)) \in Seq(S)
      /\ Len(SubSeq(s, k + 1, Len(s)))
           = IF k + 1 <= Len(s) THEN Len(s) - (k + 1) + 1 ELSE 0
      /\ \A i \in 1 .. Len(s) - (k + 1) + 1 :
           SubSeq(s, k + 1, Len(s))[i] = s[(k + 1) + i - 1]
  <2>1. k + 1 \in Int /\ \A i \in k + 1 .. Len(s) : s[i] \in S
    BY <1>1, <1>2
  <2> QED
    BY <1>1, <2>1, SubSeqProperties, SMTT(60)
<1>5. SubSeq(s, 1, k) \o SubSeq(s, k + 1, Len(s)) = s
  <2>1. /\ 1 \in 1 .. Len(s) + 1
        /\ k \in (1 - 1) .. Len(s) /\ Len(s) \in k .. Len(s)
    BY <1>1
  <2>2. SubSeq(s, 1, k) \o SubSeq(s, k + 1, Len(s)) = SubSeq(s, 1, Len(s))
    BY <2>1, ConcatAdjacentSubSeq, ZenonT(60)
  <2> QED
    BY <2>2, SubSeqFull
<1>6. k - 1 + 1 = k /\ \A i \in 1 .. k : 1 + i - 1 = i
  BY <1>1
<1>7. /\ Len(s) - (k + 1) + 1 = Len(s) - k
      /\ \A i \in 1 .. Len(s) - k : (k + 1) + i - 1 = k + i
  BY <1>1
<1>8. Len(SubSeq(s, 1, k)) = k /\ \A i \in 1 .. k : SubSeq(s, 1, k)[i] = s[i]
  BY <1>1, <1>3, <1>6
<1>9. /\ Len(SubSeq(s, k + 1, Len(s))) = Len(s) - k
      /\ \A i \in 1 .. Len(s) - k : SubSeq(s, k + 1, Len(s))[i] = s[k + i]
  <2>1. ~(k + 1 <= Len(s)) => Len(s) - k = 0
    BY <1>1
  <2> QED
    BY <1>1, <1>4, <1>7, <2>1, ZenonT(60)
<1> QED
  BY <1>3, <1>4, <1>5, <1>8, <1>9

(***************************************************************************)
(* Concatenation under a name of its own.  The provers know \o by rules of *)
(* their own, which get in the way where only its algebra matters; Cat is  *)
(* left unexpanded there.                                                  *)
(***************************************************************************)
Cat(s, t) == s \o t

LEMMA CatType ==
  ASSUME NEW S, NEW s \in Seq(S), NEW t \in Seq(S)
  PROVE  /\ Cat(s, t) \in Seq(S) /\ Len(s) \in Nat /\ Len(t) \in Nat
         /\ Len(Cat(s, t)) = Len(s) + Len(t)
         /\ \A i \in 1 .. Len(s) : Cat(s, t)[i] = s[i]
<1>1. Len(s) \in Nat /\ Len(t) \in Nat
  BY LenProperties
<1>2. /\ s \o t \in Seq(S) /\ Len(s \o t) = Len(s) + Len(t)
      /\ \A i \in 1 .. Len(s) + Len(t) :
           (s \o t)[i] = IF i <= Len(s) THEN s[i] ELSE t[i - Len(s)]
  BY ConcatProperties
<1> QED
  BY <1>1, <1>2 DEF Cat

LEMMA CatEmpty ==
  ASSUME NEW S, NEW s \in Seq(S)
  PROVE  Cat(s, << >>) = s /\ Cat(<< >>, s) = s /\ << >> \in Seq(S)
  BY ConcatEmptySeq, EmptySeq DEF Cat

LEMMA CatAssociative ==
  ASSUME NEW S, NEW s \in Seq(S), NEW t \in Seq(S), NEW u \in Seq(S)
  PROVE  Cat(Cat(s, t), u) = Cat(s, Cat(t, u))
  BY ConcatAssociative, SMTT(60) DEF Cat

LEMMA CatCancel ==
  ASSUME NEW S, NEW s \in Seq(S), NEW t \in Seq(S), NEW u \in Seq(S)
  PROVE  Cat(s, t) = Cat(s, u) => t = u
  BY ConcatSimplifications DEF Cat

(* If one text begins in two ways, the longer beginning starts with the    *)
(* shorter one.                                                            *)
LEMMA LongerBeginning ==
  ASSUME NEW S, NEW a \in Seq(S), NEW b \in Seq(S), NEW c \in Seq(S), NEW d \in Seq(S),
         Cat(a, b) = Cat(c, d), Len(a) <= Len(c)
  PROVE  \E e \in Seq(S) : c = Cat(a, e) /\ b = Cat(e, d)
<1> DEFINE n == Len(a)
           x == SubSeq(c, 1, n)
<1>1. n \in Nat /\ Len(c) \in Nat /\ n \in 0 .. Len(c)
  BY LenProperties
<1>2. PICK e \in Seq(S) :
        /\ x \in Seq(S) /\ Len(x) = n /\ \A i \in 1 .. n : x[i] = c[i]
        /\ Cat(x, e) = c
  BY <1>1, CutInTwo, ZenonT(60) DEF Cat
<1> HIDE DEF n, x
<1>3. ASSUME NEW i \in 1 .. n PROVE x[i] = a[i]
  <2>1. i \in 1 .. Len(a) /\ i \in 1 .. Len(c)
    BY <1>1 DEF n
  <2>2. Cat(a, b)[i] = a[i] /\ Cat(c, d)[i] = c[i]
    BY <2>1, CatType
  <2> QED
    BY <1>2, <2>2
<1>4. x = a
  BY <1>2, <1>3, SeqEqual DEF n
<1>5. c = Cat(a, e)
  BY <1>2, <1>4
<1>6. Cat(Cat(a, e), d) = Cat(a, Cat(e, d))
  BY <1>2, CatAssociative
<1>7. Cat(a, b) = Cat(a, Cat(e, d))
  BY <1>5, <1>6
<1>8. Cat(e, d) \in Seq(S)
  BY <1>2, CatType
<1>9. b = Cat(e, d)
  BY <1>7, <1>8, CatCancel
<1> QED
  BY <1>2, <1>5, <1>9

LEMMA SameBeginning ==
  ASSUME NEW S, NEW a \in Seq(S), NEW b \in Seq(S), NEW c \in Seq(S), NEW d \in Seq(S),
         Cat(a, b) = Cat(c, d)
  PROVE  Len(a) = Len(c) => a = c /\ b = d
<1>1. Len(a) <= Len(c) => \E e \in Seq(S) : c = Cat(a, e) /\ b = Cat(e, d)
  BY LongerBeginning
<1>2. Len(a) \in Nat /\ Len(c) \in Nat
  BY LenProperties
<1>3. ASSUME NEW e \in Seq(S), c = Cat(a, e), b = Cat(e, d), Len(a) = Len(c)
      PROVE  a = c /\ b = d
  <2>1. Len(c) = Len(a) + Len(e) /\ Len(e) \in Nat
    BY <1>3, CatType
  <2>2. Len(e) = 0
    BY <1>2, <1>3, <2>1
  <2>3. e = << >>
    BY <1>3, <2>2, EmptySeq
  <2> QED
    BY <1>3, <2>3, CatEmpty
<1> QED
  BY <1>1, <1>2, <1>3

(* A beginning is taken away from both sides.                              *)
LEMMA TakenAway ==
  ASSUME NEW S, NEW x \in Seq(S), NEW a \in Seq(S), NEW b \in Seq(S),
         NEW c \in Seq(S), NEW d \in Seq(S),
         Cat(Cat(x, a), b) = Cat(Cat(x, c), d)
  PROVE  Cat(a, b) = Cat(c, d)
<1>1. Cat(a, b) \in Seq(S) /\ Cat(c, d) \in Seq(S)
  BY CatType
<1>2. Cat(x, Cat(a, b)) = Cat(x, Cat(c, d))
  BY CatAssociative
<1> QED
  BY <1>1, <1>2, CatCancel

(* A set of numbers that is not empty has a least one.                     *)
LEMMA LeastExists ==
  ASSUME NEW S, S \subseteq Nat, S # {}
  PROVE  \E k \in S : \A j \in S : k <= j
<1>1. PICK k \in S : \A j \in S : <<j, k>> \notin OpToRel(<, Nat)
  BY NatLessThanWellFounded, WFMin
<1>2. ASSUME NEW j \in S PROVE k <= j
  <2>1. j \in Nat /\ k \in Nat
    OBVIOUS
  <2>2. ~(j < k)
    BY <1>1, <2>1 DEF OpToRel
  <2> QED
    BY <2>1, <2>2
<1> QED
  BY <1>2

-----------------------------------------------------------------------------
(* FlattenSeq is the last value of a function that is defined by recursion *)
(* on the number of sequences that have been joined.                       *)
IsFlat(f, s, n) ==
  f = [i \in 1 .. n |-> IF i = 1 THEN s[i] ELSE f[i - 1] \o s[i]]

LEMMA FlatStep ==
  ASSUME NEW s, NEW n \in Nat, NEW f, IsFlat(f, s, n), NEW i \in 1 .. n
  PROVE  f[i] = IF i = 1 THEN s[i] ELSE f[i - 1] \o s[i]
  BY DEF IsFlat

(* Such a function exists for every number of sequences, ...               *)
LEMMA FlatExists ==
  ASSUME NEW s, NEW n \in Nat
  PROVE  \E f : IsFlat(f, s, n)
<1> DEFINE N == {k \in Nat : \E f : IsFlat(f, s, k)}
<1>1. 0 \in N
  <2> DEFINE f == [i \in 1 .. 0 |-> s]
  <2>1. IsFlat(f, s, 0)
    BY DEF IsFlat
  <2> QED
    BY <2>1
<1>2. ASSUME NEW k \in Nat, k \in N PROVE k + 1 \in N
  <2>1. PICK f : IsFlat(f, s, k)
    BY <1>2
  <2> DEFINE g == [i \in 1 .. k + 1 |->
                     IF i = 1 THEN s[i] ELSE f[i - 1] \o s[i]]
  <2>2. ASSUME NEW i \in 1 .. k PROVE g[i] = f[i]
    BY <2>1, FlatStep
  <2>3. ASSUME NEW i \in 1 .. k + 1
        PROVE  g[i] = IF i = 1 THEN s[i] ELSE g[i - 1] \o s[i]
    <3>1. i # 1 => i - 1 \in 1 .. k
      OBVIOUS
    <3>2. i # 1 => g[i - 1] = f[i - 1]
      <4> HIDE DEF g
      <4> QED
        BY <2>2, <3>1
    <3>3. g[i] = IF i = 1 THEN s[i] ELSE f[i - 1] \o s[i]
      OBVIOUS
    <3> HIDE DEF g
    <3> QED
      BY <3>2, <3>3
  <2>4. g = [i \in 1 .. k + 1 |-> g[i]]
    OBVIOUS
  <2> HIDE DEF g
  <2>5. [i \in 1 .. k + 1 |-> g[i]]
          = [i \in 1 .. k + 1 |-> IF i = 1 THEN s[i] ELSE g[i - 1] \o s[i]]
    BY <2>3
  <2>6. IsFlat(g, s, k + 1)
    BY <2>4, <2>5 DEF IsFlat
  <2> QED
    BY <2>6
<1>3. Nat \subseteq N
  <2> HIDE DEF N
  <2> QED
    BY <1>1, <1>2, NatSetInduction
<1> QED
  BY <1>3

(* ... and what it is at a number depends only on the sequences so far.    *)
LEMMA FlatAgree ==
  ASSUME NEW s, NEW t, NEW m \in Nat, NEW n \in Nat, NEW f, NEW g,
         IsFlat(f, s, m), IsFlat(g, t, n),
         NEW k \in Nat, k <= m, k <= n, k # 0,
         \A i \in 1 .. k : s[i] = t[i]
  PROVE  f[k] = g[k]
<1> DEFINE N == {j \in Nat : j # 0 /\ j <= k => f[j] = g[j]}
<1>1. 0 \in N
  OBVIOUS
<1>2. ASSUME NEW j \in Nat, j \in N PROVE j + 1 \in N
  <2> SUFFICES ASSUME j + 1 <= k PROVE f[j + 1] = g[j + 1]
    OBVIOUS
  <2>1. /\ j + 1 \in 1 .. m /\ j + 1 \in 1 .. n /\ j + 1 \in 1 .. k
        /\ (j + 1) - 1 = j /\ j <= k /\ (j + 1 = 1 <=> j = 0)
    OBVIOUS
  <2>2. /\ f[j + 1] = IF j + 1 = 1 THEN s[j + 1] ELSE f[(j + 1) - 1] \o s[j + 1]
        /\ g[j + 1] = IF j + 1 = 1 THEN t[j + 1] ELSE g[(j + 1) - 1] \o t[j + 1]
    BY <2>1, FlatStep
  <2>3. s[j + 1] = t[j + 1]
    BY <2>1
  <2> QED
    BY <1>2, <2>1, <2>2, <2>3
<1>3. Nat \subseteq N
  <2> HIDE DEF N
  <2> QED
    BY <1>1, <1>2, NatSetInduction
<1> QED
  BY <1>3

LEMMA FlattenIsFlat ==
  ASSUME NEW s, Len(s) \in Nat \ {0}
  PROVE  \E f : IsFlat(f, s, Len(s)) /\ FlattenSeq(s) = f[Len(s)]
<1> DEFINE f == CHOOSE g : IsFlat(g, s, Len(s))
<1>1. IsFlat(f, s, Len(s))
  BY FlatExists
<1>2. FlattenSeq(s) = f[Len(s)]
  BY DEF FlattenSeq, IsFlat
<1> QED
  BY <1>1, <1>2

(* Nothing is joined to nothing.                                           *)
LEMMA FlattenEmpty == FlattenSeq(<< >>) = << >>
  BY DEF FlattenSeq

(* Nothing joined is nothing; one more sequence comes at the end.          *)
LEMMA FlattenAppend ==
  ASSUME NEW S, NEW s \in Seq(S), NEW x \in S
  PROVE  /\ FlattenSeq(<< >>) = << >>
         /\ s = << >> => FlattenSeq(Append(s, x)) = x
         /\ s # << >> => FlattenSeq(Append(s, x)) = FlattenSeq(s) \o x
<1>1. FlattenSeq(<< >>) = << >>
  BY FlattenEmpty
<1> DEFINE t == Append(s, x)
           n == Len(s)
<1>2. /\ n \in Nat /\ Len(t) = n + 1
      /\ \A i \in 1 .. n : t[i] = s[i]
      /\ t[n + 1] = x
  BY AppendProperties, LenProperties
<1>3. s = << >> <=> n = 0
  BY EmptySeq
<1> HIDE DEF t, n
<1>4. PICK g : IsFlat(g, t, n + 1) /\ FlattenSeq(t) = g[n + 1]
  <2>1. Len(t) \in Nat \ {0}
    BY <1>2
  <2> QED
    BY <1>2, <2>1, FlattenIsFlat
<1>5. n + 1 \in 1 .. n + 1 /\ (n + 1) - 1 = n /\ n + 1 \in Nat
  BY <1>2
<1>6. g[n + 1] = IF n + 1 = 1 THEN t[n + 1] ELSE g[(n + 1) - 1] \o t[n + 1]
  BY <1>4, <1>5, FlatStep
<1>7. CASE n = 0
  BY <1>1, <1>2, <1>3, <1>4, <1>6, <1>7 DEF t
<1>8. CASE n # 0
  <2>1. PICK f : IsFlat(f, s, n) /\ FlattenSeq(s) = f[n]
    <3>1. Len(s) \in Nat \ {0}
      BY <1>2, <1>8 DEF n
    <3> QED
      BY <3>1, FlattenIsFlat DEF n
  <2>2. n <= n + 1 /\ n <= n
    BY <1>2
  <2>3. f[n] = g[n]
    BY <1>2, <1>4, <1>5, <1>8, <2>1, <2>2, FlatAgree
  <2>4. g[n + 1] = g[n] \o x
    BY <1>2, <1>5, <1>6, <1>8
  <2> QED
    BY <1>1, <1>3, <1>4, <1>8, <2>1, <2>3, <2>4 DEF t
<1> QED
  BY <1>2, <1>7, <1>8

(* For sequences of sequences, the first step is like the others, and a    *)
(* sequence comes of it.                                                   *)
LEMMA FlattenType ==
  ASSUME NEW S, NEW s \in Seq(Seq(S))
  PROVE  FlattenSeq(s) \in Seq(S)
<1> DEFINE T == {t \in Seq(Seq(S)) : FlattenSeq(t) \in Seq(S)}
<1>1. << >> \in T
  <2>1. << >> \in Seq(Seq(S)) /\ << >> \in Seq(S)
    BY EmptySeq
  <2> QED
    BY <2>1, FlattenAppend
<1>2. ASSUME NEW t \in Seq(Seq(S)) \intersect T, NEW x \in Seq(S)
      PROVE  Append(t, x) \in T
  <2>1. Append(t, x) \in Seq(Seq(S))
    BY AppendProperties
  <2>2. FlattenSeq(t) \in Seq(S) /\ FlattenSeq(t) \o x \in Seq(S)
    BY ConcatProperties
  <2>3. FlattenSeq(Append(t, x)) \in {x, FlattenSeq(t) \o x}
    BY FlattenAppend
  <2> QED
    BY <2>1, <2>2, <2>3
<1>3. Seq(Seq(S)) \subseteq T
  <2> HIDE DEF T
  <2> QED
    BY <1>1, <1>2, SeqSetInduction
<1> QED
  BY <1>3

(* One sequence joined is itself.                                          *)
LEMMA FlattenOne ==
  ASSUME NEW S, NEW x \in S
  PROVE  FlattenSeq(<<x>>) = x
<1>1. PICK e \in Seq(S) : e = << >>
  BY EmptySeq
<1>2. FlattenSeq(Append(e, x)) = x
  BY <1>1, FlattenAppend
<1>3. Append(e, x) = <<x>>
  BY <1>1
<1> QED
  BY <1>2, <1>3

(* One more sequence, whether or not there was one before it.              *)
LEMMA FlattenStep ==
  ASSUME NEW S, NEW s \in Seq(Seq(S)), NEW x \in Seq(S)
  PROVE  FlattenSeq(Append(s, x)) = FlattenSeq(s) \o x
<1>1. CASE s = << >>
  <2>1. << >> \o x = x
    BY ConcatEmptySeq
  <2> QED
    BY <1>1, <2>1, FlattenAppend
<1>2. CASE s # << >>
  BY <1>2, FlattenAppend
<1> QED
  BY <1>1, <1>2

(* Joining two sequences of sequences.                                     *)
LEMMA FlattenConcat ==
  ASSUME NEW S, NEW s \in Seq(Seq(S)), NEW t \in Seq(Seq(S))
  PROVE  FlattenSeq(s \o t) = FlattenSeq(s) \o FlattenSeq(t)
<1> DEFINE T == {u \in Seq(Seq(S)) :
                   FlattenSeq(s \o u) = FlattenSeq(s) \o FlattenSeq(u)}
<1>0. FlattenSeq(s) \in Seq(S)
  BY FlattenType
<1>1. << >> \in T
  <2>1. << >> \in Seq(Seq(S)) /\ FlattenSeq(<< >>) = << >>
    BY EmptySeq, FlattenAppend
  <2>2. s \o << >> = s
    BY ConcatEmptySeq
  <2>3. FlattenSeq(s) \o << >> = FlattenSeq(s)
    BY <1>0, ConcatEmptySeq
  <2> QED
    BY <2>1, <2>2, <2>3
<1>2. ASSUME NEW u \in Seq(Seq(S)) \intersect T, NEW x \in Seq(S)
      PROVE  Append(u, x) \in T
  <2>1. /\ Append(u, x) = u \o <<x>> /\ <<x>> \in Seq(Seq(S))
        /\ Append(u, x) \in Seq(Seq(S)) /\ s \o u \in Seq(Seq(S))
    BY AppendIsConcat, AppendProperties, ConcatProperties
  <2>2. s \o Append(u, x) = (s \o u) \o <<x>>
    BY <2>1, ConcatAssociative, SMTT(60)
  <2>3. (s \o u) \o <<x>> = Append(s \o u, x)
    BY <2>1, AppendIsConcat
  <2>4. FlattenSeq(Append(s \o u, x)) = FlattenSeq(s \o u) \o x
    BY <2>1, FlattenStep
  <2>5. FlattenSeq(Append(u, x)) = FlattenSeq(u) \o x
    BY FlattenStep
  <2> DEFINE a == FlattenSeq(s)
             b == FlattenSeq(u)
  <2>6. a \in Seq(S) /\ b \in Seq(S)
    BY <1>0, FlattenType
  <2>7. FlattenSeq(s \o u) = a \o b
    BY <1>2
  <2> HIDE DEF a, b, T
  <2>8. (a \o b) \o x = a \o (b \o x)
    BY <2>6, ConcatAssociative, SMTT(60)
  <2>9. FlattenSeq(s \o Append(u, x)) = a \o FlattenSeq(Append(u, x))
    BY <2>2, <2>3, <2>4, <2>5, <2>7, <2>8 DEF b
  <2> QED
    BY <2>1, <2>9 DEF a, T
<1>3. Seq(Seq(S)) \subseteq T
  <2> HIDE DEF T
  <2> QED
    BY <1>1, <1>2, SeqSetInduction
<1> QED
  BY <1>3
-----------------------------------------------------------------------------
(* What is left of several sequences when some have been taken.            *)
Remaining(m, k) == FlattenSeq(SubSeq(m, k + 1, Len(m)))

LEMMA RemainingStep ==
  ASSUME NEW S, NEW m \in Seq(Seq(S)), NEW k \in 0 .. Len(m)
  PROVE  /\ Remaining(m, k) \in Seq(S)
         /\ k = Len(m) => Remaining(m, k) = << >>
         /\ k < Len(m) =>
              /\ m[k + 1] \in Seq(S)
              /\ Remaining(m, k + 1) \in Seq(S)
              /\ Remaining(m, k) = m[k + 1] \o Remaining(m, k + 1)
<1>1. Len(m) \in Nat /\ k \in Nat
  BY LenProperties
<1>2. SubSeq(m, k + 1, Len(m)) \in Seq(Seq(S))
  BY CutInTwo
<1>3. Remaining(m, k) \in Seq(S)
  BY <1>2, FlattenType DEF Remaining
<1>4. ASSUME k = Len(m) PROVE Remaining(m, k) = << >>
  <2>1. Len(m) + 1 \in Int /\ Len(m) \in Int /\ Len(m) < Len(m) + 1
    BY <1>1
  <2>2. SubSeq(m, k + 1, Len(m)) = << >>
    BY <1>4, <2>1, SubSeqEmpty
  <2>3. FlattenSeq(<< >>) = << >>
    BY DEF FlattenSeq
  <2> QED
    BY <2>2, <2>3 DEF Remaining
<1>5. ASSUME k < Len(m)
      PROVE  /\ m[k + 1] \in Seq(S)
             /\ Remaining(m, k + 1) \in Seq(S)
             /\ Remaining(m, k) = m[k + 1] \o Remaining(m, k + 1)
  <2>1. k + 1 \in 1 .. Len(m) /\ k + 1 \in 0 .. Len(m) /\ Len(m) \in k + 1 .. Len(m)
    BY <1>1, <1>5
  <2>2. m[k + 1] \in Seq(S)
    BY <2>1, ElementOfSeq
  <2> DEFINE rest == SubSeq(m, (k + 1) + 1, Len(m))
  <2>3. rest \in Seq(Seq(S))
    BY <2>1, CutInTwo
  <2>4. SubSeq(m, k + 1, Len(m)) = <<m[k + 1]>> \o rest
    BY <2>1, SubSeqRecursiveFirst
  <2> HIDE DEF rest
  <2>5. <<m[k + 1]>> \in Seq(Seq(S))
    BY <2>2
  <2>6. FlattenSeq(<<m[k + 1]>> \o rest) = FlattenSeq(<<m[k + 1]>>) \o FlattenSeq(rest)
    BY <2>3, <2>5, FlattenConcat
  <2>7. FlattenSeq(<<m[k + 1]>>) = m[k + 1]
    BY <2>2, FlattenOne
  <2>8. FlattenSeq(rest) \in Seq(S)
    BY <2>3, FlattenType
  <2>9. Remaining(m, k + 1) = FlattenSeq(rest)
    BY DEF Remaining, rest
  <2> QED
    BY <2>2, <2>4, <2>6, <2>7, <2>8, <2>9 DEF Remaining
<1> QED
  BY <1>3, <1>4, <1>5

(* One more sequence comes at the end of what is left.                     *)
LEMMA RemainingAppend ==
  ASSUME NEW S, NEW m \in Seq(Seq(S)), NEW x \in Seq(S), NEW k \in 0 .. Len(m)
  PROVE  Remaining(Append(m, x), k) = Remaining(m, k) \o x
<1> DEFINE t == Append(m, x)
           n == Len(m)
<1>1. /\ n \in Nat /\ k \in Nat /\ k <= n /\ t \in Seq(Seq(S)) /\ Len(t) = n + 1
      /\ t = m \o <<x>> /\ t[n + 1] = x /\ \A i \in 1 .. n : t[i] = m[i]
  BY AppendProperties, AppendIsConcat, LenProperties
<1> DEFINE a == SubSeq(m, k + 1, n)
           b == SubSeq(t, k + 1, n + 1)
<1>2. /\ a \in Seq(Seq(S)) /\ Len(a) = n - k
      /\ \A i \in 1 .. n - k : a[i] = m[k + i]
  BY CutInTwo
<1>3. /\ b \in Seq(Seq(S)) /\ Len(b) = (n + 1) - k
      /\ \A i \in 1 .. (n + 1) - k : b[i] = t[k + i]
  <2>1. k \in 0 .. Len(t)
    BY <1>1
  <2> HIDE DEF t, b
  <2>2. /\ SubSeq(t, k + 1, Len(t)) \in Seq(Seq(S))
        /\ Len(SubSeq(t, k + 1, Len(t))) = Len(t) - k
        /\ \A i \in 1 .. Len(t) - k : SubSeq(t, k + 1, Len(t))[i] = t[k + i]
    BY <1>1, <2>1, CutInTwo, SMTT(60)
  <2> QED
    BY <1>1, <2>2 DEF b
<1> HIDE DEF t, n, a, b
<1>4. /\ Append(a, x) \in Seq(Seq(S)) /\ Len(Append(a, x)) = (n - k) + 1
      /\ \A i \in 1 .. n - k : Append(a, x)[i] = a[i]
      /\ Append(a, x)[(n - k) + 1] = x
  BY <1>2, AppendProperties
<1>5. ASSUME NEW i \in 1 .. Len(b) PROVE b[i] = Append(a, x)[i]
  <2>1. CASE i <= n - k
    <3>1. i \in 1 .. n - k /\ k + i \in 1 .. n
      BY <1>1, <1>3, <2>1
    <3> QED
      BY <1>1, <1>2, <1>3, <1>4, <3>1
  <2>2. CASE ~(i <= n - k)
    <3>1. i = (n - k) + 1 /\ k + i = n + 1
      BY <1>1, <1>3, <2>2
    <3> QED
      BY <1>1, <1>3, <1>4, <3>1, ZenonT(60)
  <2> QED
    BY <2>1, <2>2
<1>6. b = Append(a, x)
  <2>1. Len(b) = Len(Append(a, x))
    BY <1>1, <1>3, <1>4
  <2> QED
    BY <1>3, <1>4, <1>5, <2>1, SeqEqual
<1>7. FlattenSeq(Append(a, x)) = FlattenSeq(a) \o x
  BY <1>2, FlattenStep
<1>8. Remaining(m, k) = FlattenSeq(a)
  BY DEF Remaining, a, n
<1>9. Remaining(t, k) = FlattenSeq(b)
  BY <1>1 DEF Remaining, b
<1> QED
  BY <1>6, <1>7, <1>8, <1>9 DEF t

(* What has been taken so far, with one more.                              *)
LEMMA TakenStep ==
  ASSUME NEW S, NEW m \in Seq(Seq(S)), NEW k \in 0 .. Len(m)
  PROVE  /\ FlattenSeq(SubSeq(m, 1, k)) \in Seq(S)
         /\ k = 0 => FlattenSeq(SubSeq(m, 1, k)) = << >>
         /\ k = Len(m) => FlattenSeq(SubSeq(m, 1, k)) = FlattenSeq(m)
         /\ k < Len(m) =>
              FlattenSeq(SubSeq(m, 1, k + 1)) = FlattenSeq(SubSeq(m, 1, k)) \o m[k + 1]
<1>1. Len(m) \in Nat /\ k \in Nat
  BY LenProperties
<1>2. SubSeq(m, 1, k) \in Seq(Seq(S))
  BY CutInTwo
<1>3. FlattenSeq(SubSeq(m, 1, k)) \in Seq(S)
  BY <1>2, FlattenType
<1>4. ASSUME k = 0 PROVE FlattenSeq(SubSeq(m, 1, k)) = << >>
  <2>1. SubSeq(m, 1, k) = << >>
    BY <1>4, SubSeqEmpty
  <2>2. FlattenSeq(<< >>) = << >>
    BY DEF FlattenSeq
  <2> QED
    BY <2>1, <2>2
<1>5. ASSUME k = Len(m) PROVE FlattenSeq(SubSeq(m, 1, k)) = FlattenSeq(m)
  BY <1>5, SubSeqFull
<1>6. ASSUME k < Len(m)
      PROVE  FlattenSeq(SubSeq(m, 1, k + 1)) = FlattenSeq(SubSeq(m, 1, k)) \o m[k + 1]
  <2>1. /\ 1 \in 1 .. Len(m) /\ k + 1 \in 1 .. Len(m) /\ (k + 1) - 1 = k
        /\ m[k + 1] \in Seq(S)
    BY <1>1, <1>6, ElementOfSeq
  <2>2. SubSeq(m, 1, k + 1) = SubSeq(m, 1, k) \o <<m[k + 1]>>
    BY <2>1, SubSeqRecursiveSecond
  <2>3. SubSeq(m, 1, k) \o <<m[k + 1]>> = Append(SubSeq(m, 1, k), m[k + 1])
    BY <1>2, <2>1, AppendIsConcat
  <2> QED
    BY <1>2, <2>1, <2>2, <2>3, FlattenStep
<1> QED
  BY <1>3, <1>4, <1>5, <1>6
=============================================================================
