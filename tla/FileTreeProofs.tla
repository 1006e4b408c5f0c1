--------------------------- MODULE FileTreeProofs ---------------------------
(***************************************************************************)
(* Lemmas about paths and trees: the prefix order on paths, and that each  *)
(* operation on a tree keeps it a tree and changes it only where it says.  *)
(***************************************************************************)
EXTENDS FileTree, SequenceTheorems, FiniteSetTheorems, TLAPS

(* A path is a sequence of names that is not too long.                     *)
LEMMA PathIsSeq ==
  \A p : p \in Path <=> p \in Seq(Name) /\ Len(p) <= MaxDepth
<1>1. ASSUME NEW p \in Path PROVE p \in Seq(Name) /\ Len(p) <= MaxDepth
  <2>1. PICK m \in 0 .. MaxDepth : p \in [1 .. m -> Name]
    BY DEF Path, BoundedSeq, SeqOf
  <2>2. m \in Nat /\ m <= MaxDepth
    BY <2>1, TreeAssumption
  <2>3. p \in Seq(Name)
    BY <2>1, <2>2, SeqDef
  <2>4. Len(p) = m
    BY <2>1, <2>2, <2>3, LenProperties
  <2> QED
    BY <2>2, <2>3, <2>4
<1>2. ASSUME NEW p \in Seq(Name), Len(p) <= MaxDepth PROVE p \in Path
  <2>1. Len(p) \in 0 .. MaxDepth /\ p \in [1 .. Len(p) -> Name]
    BY <1>2, LenProperties, TreeAssumption
  <2> QED
    BY <2>1 DEF Path, BoundedSeq, SeqOf
<1> QED
  BY <1>1, <1>2

(* The top of the host is a path.                                          *)
LEMMA TopIsPath == Top \in Path /\ Len(Top) = 0
<1>1. Top \in Seq(Name) /\ Len(Top) = 0
  BY EmptySeq DEF Top
<1>2. 0 <= MaxDepth
  BY TreeAssumption
<1> QED
  BY <1>1, <1>2, PathIsSeq

(* The prefix order, component by component.                               *)
LEMMA PrefixIsPointwise ==
  ASSUME NEW p \in Seq(Name), NEW q \in Seq(Name)
  PROVE  IsPrefix(p, q) <=> Len(p) <= Len(q) /\ \A i \in 1 .. Len(p) : p[i] = q[i]
<1> SUFFICES ASSUME Len(p) <= Len(q)
             PROVE  SubSeq(p, 1, Len(p)) = SubSeq(q, 1, Len(p))
                      <=> \A i \in 1 .. Len(p) : p[i] = q[i]
  BY DEF IsPrefix
<1>1. Len(p) \in Nat /\ Len(q) \in Nat
  BY LenProperties
<1>2. SubSeq(p, 1, Len(p)) = p
  BY SubSeqFull
<1>3. \A i \in 1 .. Len(p) : q[i] \in Name
  BY <1>1, ElementOfSeq
<1>4. /\ SubSeq(q, 1, Len(p)) \in Seq(Name)
      /\ Len(SubSeq(q, 1, Len(p))) = Len(p)
      /\ \A i \in 1 .. Len(p) : SubSeq(q, 1, Len(p))[i] = q[i]
  BY <1>1, <1>3, SubSeqProperties, Z3
<1> QED
  BY <1>2, <1>4, SeqEqual

(* Prefixes form an order, in which the paths above one path are in a      *)
(* line.                                                                   *)
LEMMA PrefixOrder ==
  ASSUME NEW p \in Seq(Name), NEW q \in Seq(Name), NEW r \in Seq(Name)
  PROVE  /\ IsPrefix(p, p)
         /\ IsPrefix(p, q) /\ IsPrefix(q, r) => IsPrefix(p, r)
         /\ IsPrefix(p, q) /\ IsPrefix(q, p) => p = q
         /\ IsPrefix(p, r) /\ IsPrefix(q, r) => IsPrefix(p, q) \/ IsPrefix(q, p)
<1>1. Len(p) \in Nat /\ Len(q) \in Nat /\ Len(r) \in Nat
  BY LenProperties
<1>2. IsPrefix(p, p)
  BY <1>1, PrefixIsPointwise
<1>3. ASSUME IsPrefix(p, q), IsPrefix(q, r) PROVE IsPrefix(p, r)
  BY <1>1, <1>3, PrefixIsPointwise
<1>4. ASSUME IsPrefix(p, q), IsPrefix(q, p) PROVE p = q
  <2>1. Len(p) = Len(q) /\ \A i \in 1 .. Len(p) : p[i] = q[i]
    BY <1>1, <1>4, PrefixIsPointwise
  <2> QED
    BY <2>1, SeqEqual
<1>5. ASSUME IsPrefix(p, r), IsPrefix(q, r) PROVE IsPrefix(p, q) \/ IsPrefix(q, p)
  BY <1>1, <1>5, PrefixIsPointwise
<1> QED
  BY <1>2, <1>3, <1>4, <1>5

(* Nothing is above the top.                                               *)
LEMMA PrefixOfTop ==
  ASSUME NEW p \in Seq(Name), IsPrefix(p, Top)
  PROVE  p = Top
<1>1. Len(p) \in Nat /\ Len(p) <= 0
  BY LenProperties, TopIsPath, PathIsSeq, PrefixIsPointwise
<1> QED
  BY <1>1, EmptySeq DEF Top

-----------------------------------------------------------------------------
(* Front is the parent: the paths above a path are itself and those above  *)
(* its parent.                                                             *)
LEMMA FrontIsSeq ==
  ASSUME NEW q \in Seq(Name), q # Top
  PROVE  /\ Front(q) \in Seq(Name)
         /\ Len(q) \in Nat \ {0}
         /\ Len(Front(q)) = Len(q) - 1
         /\ \A i \in 1 .. Len(q) - 1 : Front(q)[i] = q[i]
<1>1. PICK n \in Nat : Len(q) = n + 1
  <2>1. Len(q) \in Nat \ {0}
    BY EmptySeq DEF Top
  <2>2. Len(q) - 1 \in Nat /\ Len(q) = (Len(q) - 1) + 1
    BY <2>1
  <2> QED
    BY <2>2
<1>2. \A i \in 1 .. n : q[i] \in Name
  BY <1>1, ElementOfSeq
<1>3. /\ SubSeq(q, 1, n) \in Seq(Name)
      /\ Len(SubSeq(q, 1, n)) = IF 1 <= n THEN n - 1 + 1 ELSE 0
      /\ \A i \in 1 .. n - 1 + 1 : SubSeq(q, 1, n)[i] = q[1 + i - 1]
  BY <1>2, SubSeqProperties, Z3T(60)
<1>4. Len(SubSeq(q, 1, n)) = n
  BY <1>3
<1>5. ASSUME NEW i \in 1 .. n PROVE SubSeq(q, 1, n)[i] = q[i]
  <2>1. i \in 1 .. n - 1 + 1 /\ 1 + i - 1 = i
    OBVIOUS
  <2> QED
    BY <1>3, <2>1
<1>6. Front(q) = SubSeq(q, 1, n) /\ Len(q) - 1 = n
  BY <1>1 DEF Front
<1> QED
  BY <1>1, <1>3, <1>4, <1>5, <1>6, SMTT(60)

(* The parent of a path is a path above it.                                *)
LEMMA FrontIsPath ==
  ASSUME NEW q \in Path, q # Top
  PROVE  /\ Front(q) \in Path
         /\ Front(q) # q
         /\ IsPrefix(Front(q), q)
<1>1. /\ Front(q) \in Seq(Name) /\ q \in Seq(Name)
      /\ Len(q) \in Nat \ {0} /\ Len(q) <= MaxDepth
      /\ Len(Front(q)) = Len(q) - 1
      /\ \A i \in 1 .. Len(q) - 1 : Front(q)[i] = q[i]
  BY FrontIsSeq, PathIsSeq
<1>2. Front(q) \in Path
  BY <1>1, PathIsSeq, TreeAssumption
<1>3. IsPrefix(Front(q), q)
  BY <1>1, PrefixIsPointwise
<1> QED
  BY <1>1, <1>2, <1>3

(* Above a path are the path itself and what is above its parent.          *)
LEMMA PrefixOfFront ==
  ASSUME NEW p \in Seq(Name), NEW q \in Seq(Name), q # Top
  PROVE  IsPrefix(p, q) <=> p = q \/ IsPrefix(p, Front(q))
<1>1. /\ Front(q) \in Seq(Name)
      /\ Len(q) \in Nat \ {0} /\ Len(p) \in Nat
      /\ Len(Front(q)) = Len(q) - 1
      /\ \A i \in 1 .. Len(q) - 1 : Front(q)[i] = q[i]
  BY FrontIsSeq, LenProperties
<1>2. ASSUME IsPrefix(p, Front(q)) PROVE IsPrefix(p, q)
  <2>1. Len(p) <= Len(Front(q)) /\ \A i \in 1 .. Len(p) : p[i] = Front(q)[i]
    BY <1>1, <1>2, PrefixIsPointwise
  <2>2. Len(p) <= Len(q) /\ \A i \in 1 .. Len(p) : p[i] = q[i]
    BY <1>1, <2>1
  <2> QED
    BY <2>2, PrefixIsPointwise
<1>3. ASSUME IsPrefix(p, q), Len(p) = Len(q) PROVE p = q
  BY <1>3, PrefixIsPointwise, SeqEqual
<1>4. ASSUME IsPrefix(p, q), Len(p) # Len(q) PROVE IsPrefix(p, Front(q))
  <2>1. Len(p) <= Len(q) /\ \A i \in 1 .. Len(p) : p[i] = q[i]
    BY <1>4, PrefixIsPointwise
  <2>2. Len(p) <= Len(Front(q)) /\ \A i \in 1 .. Len(p) : p[i] = Front(q)[i]
    BY <1>1, <1>4, <2>1
  <2> QED
    BY <1>1, <2>2, PrefixIsPointwise
<1>5. IsPrefix(q, q)
  BY PrefixOrder
<1> QED
  BY <1>2, <1>3, <1>4, <1>5

(* A name appended to a path is one level below it.                        *)
LEMMA AppendPath ==
  ASSUME NEW p \in Seq(Name), NEW n \in Name
  PROVE  /\ Append(p, n) \in Seq(Name)
         /\ Append(p, n) # Top
         /\ Front(Append(p, n)) = p
         /\ IsPrefix(p, Append(p, n))
<1> DEFINE a == Append(p, n)
<1>1. /\ a \in Seq(Name)
      /\ a # Top
      /\ Len(a) = Len(p) + 1
      /\ \A i \in 1 .. Len(p) : a[i] = p[i]
  BY AppendProperties DEF Top
<1> HIDE DEF a
<1>2. Len(p) \in Nat
  BY LenProperties
<1>3. /\ Front(a) \in Seq(Name)
      /\ Len(Front(a)) = Len(a) - 1
      /\ \A i \in 1 .. Len(a) - 1 : Front(a)[i] = a[i]
  BY <1>1, FrontIsSeq
<1>4. Len(a) - 1 = Len(p)
  BY <1>1, <1>2
<1>5. Front(a) = p
  BY <1>1, <1>3, <1>4, SeqEqual
<1>6. IsPrefix(p, a)
  BY <1>1, <1>5, PrefixOfFront, PrefixOrder
<1> QED
  BY <1>1, <1>5, <1>6 DEF a

-----------------------------------------------------------------------------
(* A tree in the sense of the file system: a value of Tree that is well    *)
(* formed.                                                                 *)
IsTree(t) == t \in Tree /\ WellFormed(t)

(* Two trees that differ at most in what lies at p or below it.            *)
DifferBelow(t, u, p) == \A q \in Path : ~IsPrefix(p, q) => u[q] = t[q]

(* remove_all leaves a tree, changed only at the path removed and below.   *)
LEMMA RemoveAllKeepsTree ==
  ASSUME NEW t, IsTree(t), NEW p \in Path, p # Top
  PROVE  IsTree(RemoveAll(t, p)) /\ DifferBelow(t, RemoveAll(t, p), p)
<1> DEFINE u == RemoveAll(t, p)
<1>1. u \in Tree
  BY DEF IsTree, Tree, RemoveAll
<1>2. DifferBelow(t, u, p)
  BY DEF DifferBelow, RemoveAll
<1>3. IsDir(u, Top)
  <2>1. ~IsPrefix(p, Top)
    BY PrefixOfTop, PathIsSeq
  <2> QED
    BY <2>1, <1>2, TopIsPath DEF IsTree, WellFormed, IsDir, DifferBelow
<1>4. ASSUME NEW q \in Path \ {Top}, Exists(u, q) PROVE IsDir(u, Front(q))
  <2>1. ~IsPrefix(p, q) /\ Exists(t, q)
    BY <1>4 DEF RemoveAll, Exists
  <2>2. Front(q) \in Path /\ ~IsPrefix(p, Front(q))
    BY <2>1, FrontIsPath, PrefixOfFront, PathIsSeq
  <2> QED
    BY <2>1, <2>2, <1>2 DEF IsTree, WellFormed, IsDir, DifferBelow
<1> QED
  BY <1>1, <1>2, <1>3, <1>4 DEF IsTree, WellFormed

(* create_directory leaves a tree, changed only at the directory made.     *)
LEMMA CreateDirectoryKeepsTree ==
  ASSUME NEW t, IsTree(t), NEW p \in Path, CanCreateDirectory(t, p)
  PROVE  /\ IsTree(CreateDirectory(t, p))
         /\ \A q \in Path : q # p => CreateDirectory(t, p)[q] = t[q]
<1> DEFINE u == CreateDirectory(t, p)
<1>1. /\ u \in Tree
      /\ u[p] = Dir
      /\ \A q \in Path : q # p => u[q] = t[q]
  BY DEF IsTree, Tree, CreateDirectory
<1>2. IsDir(u, Top)
  BY <1>1, TopIsPath DEF IsTree, WellFormed, IsDir
<1>3. ASSUME NEW q \in Path \ {Top}, Exists(u, q) PROVE IsDir(u, Front(q))
  <2>1. Front(q) \in Path /\ Front(q) # q
    BY FrontIsPath
  <2>2. IsDir(t, Front(q))
    <3>1. CASE q = p /\ ~Exists(t, p)
      BY <3>1, TreeAssumption DEF CanCreateDirectory, HasParentDir, IsDir, Exists
    <3>2. CASE q = p /\ Exists(t, p)
      BY <3>2 DEF IsTree, WellFormed
    <3>3. CASE q # p
      BY <3>3, <1>1, <1>3 DEF IsTree, WellFormed, Exists
    <3> QED
      BY <3>1, <3>2, <3>3
  <2> QED
    BY <2>1, <2>2, <1>1 DEF IsDir
<1> QED
  BY <1>1, <1>2, <1>3 DEF IsTree, WellFormed

(* create_directories leaves a tree, changed only on the way to its path.  *)
LEMMA CreateDirectoriesKeepsTree ==
  ASSUME NEW t, IsTree(t), NEW p \in Path
  PROVE  /\ IsTree(CreateDirectories(t, p))
         /\ \A q \in Path : ~IsPrefix(q, p) => CreateDirectories(t, p)[q] = t[q]
<1> DEFINE u == CreateDirectories(t, p)
<1>1. /\ u \in Tree
      /\ \A q \in Path : u[q] = IF IsPrefix(q, p) THEN Dir ELSE t[q]
  BY DEF IsTree, Tree, CreateDirectories
<1>2. IsDir(u, Top)
  BY <1>1, TopIsPath DEF IsTree, WellFormed, IsDir
<1>3. ASSUME NEW q \in Path \ {Top}, Exists(u, q) PROVE IsDir(u, Front(q))
  <2>1. Front(q) \in Path /\ IsPrefix(Front(q), q)
    BY FrontIsPath
  <2>2. IsPrefix(q, p) => IsPrefix(Front(q), p)
    BY <2>1, PrefixOrder, PathIsSeq
  <2>3. ~IsPrefix(q, p) => IsDir(t, Front(q))
    BY <1>1, <1>3 DEF IsTree, WellFormed, Exists
  <2> QED
    BY <2>1, <2>2, <2>3, <1>1 DEF IsDir
<1> QED
  BY <1>1, <1>2, <1>3 DEF IsTree, WellFormed
(* One call of fs::copy leaves a tree, changed only at its destination or  *)
(* below it.                                                               *)
LEMMA CopyNodeKeepsTree ==
  ASSUME NEW t, IsTree(t), NEW from \in Path, NEW to \in Seq(Name),
         ~CopyFails(t, from, to)
  PROVE  /\ IsTree(CopyNode(t, from, to))
         /\ DifferBelow(t, CopyNode(t, from, to), to)
<1> DEFINE target == CopyTarget(t, from, to)
           u      == CopyNode(t, from, to)
<1>1. /\ target \in Path
      /\ Exists(t, from)
      /\ Exists(t, target) => IsDir(t, from) = IsDir(t, target)
      /\ HasParentDir(t, target)
  BY DEF CopyFails
<1> HIDE DEF target
<1>2. /\ u \in Tree
      /\ u[target] = t[from]
      /\ \A q \in Path : q # target => u[q] = t[q]
  <2>1. u = [t EXCEPT ![target] = t[from]]
    BY DEF CopyNode, target
  <2> QED
    BY <2>1, <1>1 DEF IsTree, Tree
<1> HIDE DEF u
<1>3. IsPrefix(to, target)
  <2>1. CASE target = to
    BY <2>1, PrefixOrder
  <2>2. CASE target # to
    <3>1. target = Append(to, Last(from)) /\ IsFile(t, from)
      BY <2>2 DEF CopyTarget, target
    <3>2. from # Top
      BY <3>1, TreeAssumption DEF IsTree, WellFormed, IsDir, IsFile
    <3>3. Len(from) \in Nat \ {0} /\ from \in Seq(Name)
      BY <3>2, FrontIsSeq, PathIsSeq
    <3>4. Len(from) \in 1 .. Len(from)
      BY <3>3
    <3>5. Last(from) \in Name
      BY <3>3, <3>4, ElementOfSeq DEF Last
    <3> QED
      BY <3>1, <3>5, AppendPath
  <2> QED
    BY <2>1, <2>2
<1>4. DifferBelow(t, u, to)
  BY <1>2, <1>3 DEF DifferBelow
<1>5. IsDir(u, Top)
  <2>1. IsDir(t, Top) /\ Exists(t, Top)
    BY TreeAssumption DEF IsTree, WellFormed, IsDir, Exists
  <2>2. CASE target = Top
    BY <2>1, <2>2, <1>1, <1>2 DEF IsDir
  <2>3. CASE target # Top
    BY <2>1, <2>3, <1>2, TopIsPath DEF IsDir
  <2> QED
    BY <2>2, <2>3
<1>6. ASSUME NEW q \in Path \ {Top}, Exists(u, q) PROVE IsDir(u, Front(q))
  <2>1. Front(q) \in Path /\ Front(q) # q
    BY FrontIsPath
  <2>2. IsDir(t, Front(q))
    <3>1. CASE q = target
      BY <3>1, <1>1 DEF HasParentDir
    <3>2. CASE q # target
      BY <3>2, <1>2, <1>6 DEF IsTree, WellFormed, Exists
    <3> QED
      BY <3>1, <3>2
  <2>3. CASE Front(q) = target
    BY <2>2, <2>3, <1>1, <1>2, TreeAssumption DEF IsDir, Exists
  <2>4. CASE Front(q) # target
    BY <2>1, <2>2, <2>4, <1>2 DEF IsDir
  <2> QED
    BY <2>3, <2>4
<1> QED
  BY <1>2, <1>4, <1>5, <1>6 DEF IsTree, WellFormed, u

-----------------------------------------------------------------------------
(* Renaming.  Origin(q, from, to) is "from" followed by what q has below   *)
(* "to".                                                                   *)
LEMMA OriginIsPointwise ==
  ASSUME NEW from \in Seq(Name), NEW to \in Seq(Name), NEW q \in Seq(Name),
         Len(to) <= Len(q)
  PROVE  /\ Origin(q, from, to) \in Seq(Name)
         /\ Len(Origin(q, from, to)) = Len(from) + (Len(q) - Len(to))
         /\ \A i \in 1 .. Len(from) + (Len(q) - Len(to)) :
              Origin(q, from, to)[i] =
                IF i <= Len(from) THEN from[i] ELSE q[Len(to) + (i - Len(from))]
<1>1. PICK f \in Nat, k \in Nat, m \in Nat : Len(from) = f /\ Len(to) = k /\ Len(q) = k + m
  <2>1. Len(from) \in Nat /\ Len(to) \in Nat /\ Len(q) \in Nat
    BY LenProperties
  <2>2. Len(q) - Len(to) \in Nat /\ Len(q) = Len(to) + (Len(q) - Len(to))
    BY <2>1
  <2> QED
    BY <2>1, <2>2
<1>2. \A i \in k + 1 .. k + m : q[i] \in Name
  <2>1. \A i \in k + 1 .. k + m : i \in 1 .. Len(q)
    BY <1>1
  <2> QED
    BY <2>1, ElementOfSeq
<1> DEFINE rest == SubSeq(q, k + 1, k + m)
<1>3. /\ rest \in Seq(Name)
      /\ Len(rest) = IF k + 1 <= k + m THEN (k + m) - (k + 1) + 1 ELSE 0
      /\ \A i \in 1 .. (k + m) - (k + 1) + 1 : rest[i] = q[(k + 1) + i - 1]
  BY <1>2, SubSeqProperties, Z3T(60)
<1>4. Len(rest) = m
  BY <1>3
<1>5. ASSUME NEW i \in 1 .. m PROVE rest[i] = q[k + i]
  <2>1. i \in 1 .. (k + m) - (k + 1) + 1 /\ (k + 1) + i - 1 = k + i
    OBVIOUS
  <2> QED
    BY <1>3, <2>1
<1> DEFINE whole == from \o rest
<1>6. Origin(q, from, to) = whole
  BY <1>1 DEF Origin
<1> HIDE DEF rest
<1>7. /\ whole \in Seq(Name)
      /\ Len(whole) = f + m
      /\ \A i \in 1 .. f + m : whole[i] = IF i <= f THEN from[i] ELSE rest[i - f]
  <2>1. /\ whole \in Seq(Name)
        /\ Len(whole) = Len(from) + Len(rest)
        /\ \A i \in 1 .. Len(from) + Len(rest) :
              whole[i] = IF i <= Len(from) THEN from[i] ELSE rest[i - Len(from)]
    BY <1>3, ConcatProperties, Zenon
  <2> HIDE DEF whole
  <2> QED
    BY <2>1, <1>1, <1>4
<1> HIDE DEF whole
<1>8. ASSUME NEW i \in 1 .. f + m
      PROVE  whole[i] = IF i <= f THEN from[i] ELSE q[k + (i - f)]
  <2>1. CASE i <= f
    BY <2>1, <1>7
  <2>2. CASE ~(i <= f)
    <3>1. i - f \in 1 .. m
      BY <2>2
    <3> QED
      BY <2>2, <3>1, <1>5, <1>7
  <2> QED
    BY <2>1, <2>2
<1>9. Len(q) - Len(to) = m
  BY <1>1
<1> QED
  BY <1>1, <1>6, <1>7, <1>8, <1>9, SMTT(60)
(* What moves to "to" comes from "from"; what moves below "to" comes from  *)
(* below "from", and its parent from the parent.                           *)
LEMMA OriginOfBelow ==
  ASSUME NEW from \in Seq(Name), NEW to \in Seq(Name), NEW q \in Seq(Name),
         IsPrefix(to, q)
  PROVE  /\ Origin(to, from, to) = from
         /\ Origin(q, to, to) = q
         /\ q # to => /\ q # Top
                      /\ IsPrefix(to, Front(q))
                      /\ Origin(q, from, to) # Top
                      /\ Origin(Front(q), from, to) = Front(Origin(q, from, to))
<1>1. /\ Len(from) \in Nat /\ Len(to) \in Nat /\ Len(q) \in Nat
      /\ Len(to) <= Len(q)
      /\ \A i \in 1 .. Len(to) : to[i] = q[i]
  BY LenProperties, PrefixIsPointwise
<1>2. Origin(to, from, to) = from
  <2> DEFINE o == Origin(to, from, to)
  <2>1. /\ o \in Seq(Name)
        /\ Len(o) = Len(from) + (Len(to) - Len(to))
        /\ \A i \in 1 .. Len(from) + (Len(to) - Len(to)) :
             o[i] = IF i <= Len(from) THEN from[i] ELSE to[Len(to) + (i - Len(from))]
    <3>1. Len(to) <= Len(to)
      BY <1>1
    <3> QED
      BY <3>1, OriginIsPointwise, Zenon
  <2> HIDE DEF o
  <2>2. Len(o) = Len(from) /\ \A i \in 1 .. Len(o) : o[i] = from[i]
    BY <1>1, <2>1
  <2>3. o = from
    BY <2>1, <2>2, SeqEqual
  <2> QED
    BY <2>3 DEF o
<1>3. Origin(q, to, to) = q
  <2> DEFINE o == Origin(q, to, to)
  <2>1. /\ o \in Seq(Name)
        /\ Len(o) = Len(to) + (Len(q) - Len(to))
        /\ \A i \in 1 .. Len(to) + (Len(q) - Len(to)) :
             o[i] = IF i <= Len(to) THEN to[i] ELSE q[Len(to) + (i - Len(to))]
    BY <1>1, OriginIsPointwise, Zenon
  <2> HIDE DEF o
  <2>2. Len(o) = Len(q)
    BY <1>1, <2>1
  <2>3. ASSUME NEW i \in 1 .. Len(o) PROVE o[i] = q[i]
    <3>1. CASE i <= Len(to)
      BY <3>1, <1>1, <2>1, <2>2
    <3>2. CASE ~(i <= Len(to))
      <4>1. Len(to) + (i - Len(to)) = i
        BY <1>1
      <4> QED
        BY <3>2, <4>1, <1>1, <2>1, <2>2
    <3> QED
      BY <3>1, <3>2
  <2>4. o = q
    BY <2>1, <2>2, <2>3, SeqEqual
  <2> QED
    BY <2>4 DEF o
<1>4. ASSUME q # to
      PROVE  /\ q # Top
             /\ IsPrefix(to, Front(q))
             /\ Origin(q, from, to) # Top
             /\ Origin(Front(q), from, to) = Front(Origin(q, from, to))
  <2>1. q # Top
    BY <1>4, PrefixOfTop
  <2>2. IsPrefix(to, Front(q))
    BY <1>4, <2>1, PrefixOfFront
  <2>3. /\ Front(q) \in Seq(Name)
        /\ Len(Front(q)) = Len(q) - 1
        /\ \A i \in 1 .. Len(q) - 1 : Front(q)[i] = q[i]
    BY <2>1, FrontIsSeq
  <2>4. Len(to) <= Len(q) - 1
    BY <2>2, <2>3, PrefixIsPointwise
  <2> DEFINE o == Origin(q, from, to)
             u == Origin(Front(q), from, to)
  <2>5. /\ o \in Seq(Name)
        /\ Len(o) = Len(from) + (Len(q) - Len(to))
        /\ \A i \in 1 .. Len(from) + (Len(q) - Len(to)) :
             o[i] = IF i <= Len(from) THEN from[i] ELSE q[Len(to) + (i - Len(from))]
    BY <1>1, OriginIsPointwise, Zenon
  <2>6. /\ u \in Seq(Name)
        /\ Len(u) = Len(from) + (Len(Front(q)) - Len(to))
        /\ \A i \in 1 .. Len(from) + (Len(Front(q)) - Len(to)) :
             u[i] = IF i <= Len(from) THEN from[i] ELSE Front(q)[Len(to) + (i - Len(from))]
    <3>1. Len(to) <= Len(Front(q))
      BY <2>3, <2>4
    <3> QED
      BY <3>1, <2>3, OriginIsPointwise, Zenon
  <2> HIDE DEF o, u
  <2>7. o # Top
    BY <1>1, <2>4, <2>5, TopIsPath
  <2>8. /\ Front(o) \in Seq(Name)
        /\ Len(Front(o)) = Len(o) - 1
        /\ \A i \in 1 .. Len(o) - 1 : Front(o)[i] = o[i]
    BY <2>5, <2>7, FrontIsSeq
  <2>9. Len(u) = Len(Front(o))
    BY <1>1, <2>3, <2>5, <2>6, <2>8
  <2>10. ASSUME NEW i \in 1 .. Len(u) PROVE u[i] = Front(o)[i]
    <3>1. /\ i \in 1 .. Len(from) + (Len(Front(q)) - Len(to))
          /\ i \in 1 .. Len(from) + (Len(q) - Len(to))
          /\ i \in 1 .. Len(o) - 1
      BY <1>1, <2>3, <2>5, <2>6
    <3>2. CASE i <= Len(from)
      BY <3>1, <3>2, <2>5, <2>6, <2>8
    <3>3. CASE ~(i <= Len(from))
      <4>1. Len(to) + (i - Len(from)) \in 1 .. Len(q) - 1
        BY <3>1, <3>3, <1>1, <2>3
      <4> QED
        BY <4>1, <3>1, <3>3, <2>3, <2>5, <2>6, <2>8
    <3> QED
      BY <3>2, <3>3
  <2>11. u = Front(o)
    BY <2>6, <2>8, <2>9, <2>10, SeqEqual
  <2> QED
    BY <2>1, <2>2, <2>7, <2>11 DEF o, u
<1> QED
  BY <1>2, <1>3, <1>4

(* rename leaves a tree, changed only below its two paths.                 *)
LEMMA RenameKeepsTree ==
  ASSUME NEW t, IsTree(t), NEW from \in Path \ {Top}, NEW to \in Path \ {Top},
         CanRename(t, from, to)
  PROVE  /\ IsTree(Rename(t, from, to))
         /\ \A q \in Path : ~IsPrefix(from, q) /\ ~IsPrefix(to, q)
                              => Rename(t, from, to)[q] = t[q]
<1> DEFINE u    == Rename(t, from, to)
           o(q) == Origin(q, from, to)
<1>1. /\ from \in Seq(Name) /\ to \in Seq(Name)
      /\ \A q \in Path : q \in Seq(Name)
  BY PathIsSeq
<1>2. u = [q \in Path |->
             IF IsPrefix(to, q)
             THEN IF o(q) \in Path THEN t[o(q)] ELSE NoEntry
             ELSE IF IsPrefix(from, q) THEN NoEntry ELSE t[q]]
  BY DEF Rename
<1> HIDE DEF u
<1>3. u \in Tree
  BY <1>2 DEF IsTree, Tree
<1>4. \A q \in Path : ~IsPrefix(from, q) /\ ~IsPrefix(to, q) => u[q] = t[q]
  BY <1>2
<1>5. CASE from = to
  <2>1. \A q \in Path : IsPrefix(to, q) => o(q) = q
    BY <1>1, <1>5, OriginOfBelow
  <2> HIDE DEF o
  <2>2. \A q \in Path : u[q] = t[q]
    BY <2>1, <1>2, <1>5
  <2>3. \A q \in Path \ {Top} : Front(q) \in Path
    BY FrontIsPath
  <2> QED
    BY <2>2, <2>3, <1>3, <1>4, TopIsPath DEF IsTree, WellFormed, IsDir, Exists, u
<1>6. CASE from # to
  <2>1. /\ Exists(t, from)
        /\ IsDir(t, Front(to))
        /\ ~IsPrefix(from, to)
    BY <1>6 DEF CanRename, HasParentDir
  <2>2. IsDir(u, Top)
    <3>1. ~IsPrefix(from, Top) /\ ~IsPrefix(to, Top)
      BY <1>1, PrefixOfTop
    <3> QED
      BY <3>1, <1>4, TopIsPath DEF IsTree, WellFormed, IsDir
  <2>3. ASSUME NEW q \in Path \ {Top}, Exists(u, q) PROVE IsDir(u, Front(q))
    <3>1. Front(q) \in Path /\ Front(q) \in Seq(Name) /\ q \in Seq(Name)
      BY <1>1, FrontIsPath
    <3>2. CASE q = to
      <4>1. ~IsPrefix(from, Front(q))
        BY <3>1, <3>2, <1>1, <2>1, PrefixOfFront
      <4>2. ~IsPrefix(to, Front(q))
        BY <3>1, <3>2, <1>1, FrontIsPath, PrefixOrder
      <4> QED
        BY <3>1, <3>2, <4>1, <4>2, <1>4, <2>1 DEF IsDir
    <3>3. CASE q # to /\ IsPrefix(to, q)
      <4>1. o(q) \in Path /\ Exists(t, o(q))
        BY <3>3, <2>3, <1>2 DEF Exists
      <4>2. /\ IsPrefix(to, Front(q))
            /\ o(q) # Top
            /\ o(Front(q)) = Front(o(q))
        BY <3>1, <3>3, <1>1, OriginOfBelow
      <4>3. Front(o(q)) \in Path
        BY <4>1, <4>2, FrontIsPath
      <4>4. IsDir(t, Front(o(q)))
        BY <4>1, <4>2 DEF IsTree, WellFormed
      <4>5. u[Front(q)] = t[o(Front(q))]
        BY <3>1, <4>2, <4>3, <1>2
      <4> QED
        BY <4>2, <4>4, <4>5 DEF IsDir
    <3>4. CASE ~IsPrefix(to, q)
      <4>1. ~IsPrefix(from, q) /\ Exists(t, q)
        BY <3>4, <2>3, <1>2 DEF Exists
      <4>2. ~IsPrefix(to, Front(q)) /\ ~IsPrefix(from, Front(q))
        BY <3>1, <3>4, <4>1, <1>1, PrefixOfFront
      <4> QED
        BY <3>1, <4>1, <4>2, <1>4 DEF IsTree, WellFormed, IsDir
    <3> QED
      BY <3>2, <3>3, <3>4
  <2> QED
    BY <2>2, <2>3, <1>3, <1>4 DEF IsTree, WellFormed, u
<1> QED
  BY <1>5, <1>6

-----------------------------------------------------------------------------
(* A directory has finitely many entries, so that reading it gives a       *)
(* sequence of names.                                                      *)
LEMMA ListingIsSeq ==
  ASSUME NEW t, NEW d, NEW entry \in SetToSeqs(Children(t, d))
  PROVE  /\ entry \in Seq(Name)
         /\ \A i \in 1 .. Len(entry) : entry[i] \in Children(t, d)
<1>1. Cardinality(Children(t, d)) \in Nat
  <2>1. Children(t, d) \in SUBSET Name
    BY DEF Children
  <2>2. IsFiniteSet(Children(t, d))
    BY <2>1, TreeAssumption, FS_Subset
  <2> QED
    BY <2>2, FS_CardinalityType
<1> DEFINE n == Cardinality(Children(t, d))
<1>2. entry \in [1 .. n -> Children(t, d)]
  BY DEF SetToSeqs
<1> HIDE DEF n
<1>3. n \in Nat
  BY <1>1 DEF n
<1>4. entry \in [1 .. n -> Name]
  BY <1>2 DEF Children
<1>5. entry \in Seq(Name)
  BY <1>3, <1>4, SeqDef
<1>6. Len(entry) = n
  BY <1>3, <1>4, <1>5, LenProperties
<1> QED
  BY <1>2, <1>5, <1>6
=============================================================================
