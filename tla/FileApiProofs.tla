--------------------------- MODULE FileApiProofs ---------------------------
(***************************************************************************)
(* What the handlers of FileApi do for every set of names, every depth and *)
(* every root: the tree stays a tree (TypeCorrect), no request changes     *)
(* anything outside the served root (MutationsConfined), and none changes  *)
(* more than it names (NothingCollateral).  A move does all it should or   *)
(* loses at most its destination (MoveAllOrNothing), a copy takes nothing  *)
(* away but a destination of the other type (CopyOnlyAdds), and one that   *)
(* reports success did not go into itself and, unless it went above its    *)
(* source, has copied everything (CopySucceedsWhole).                      *)
(*                                                                         *)
(* The first three follow from one inductive invariant, Inv.  Confinement  *)
(* is not inductive alone: create_directories also touches the directories *)
(* above the root, which must be known to be there, and a copy in progress *)
(* must be known to have all its calls below the destination it was given. *)
(* The last two need more of a copy in progress (CopyInv, below).          *)
(***************************************************************************)
EXTENDS FileApi, FileTreeProofs, SequenceLemmas

(* What lies above the served root is made of directories.                 *)
AboveRoot ==
  \A q \in Path : IsPrefix(q, RootDir) /\ q # RootDir => IsDir(tree, q)

(* Every call of fs::copy still to be made goes below the destination.     *)
CopyBelow ==
  pc = "copy" =>
    /\ req \in Request
    /\ req.op = "copy"
    /\ IsPrefix(RootDir, req.dst)
    /\ req.dst \in Path
    /\ \A i \in 1 .. Len(todo) : IsPrefix(req.dst, todo[i].to)

(* Between requests, and until a request has an answer, there is no code.  *)
NoCodeYet ==
  /\ pc # "done" => code = 0
  /\ pc = "idle" => old = tree

Inv == TypeOK /\ AboveRoot /\ CopyBelow /\ NoCodeYet /\ NoCollateral

(* What Confined says of one step.                                         *)
StaysInside == \A p \in Path : ~IsPrefix(RootDir, p) => tree'[p] = tree[p]

-----------------------------------------------------------------------------
(* The paths of an accepted request are at or below the root.              *)
LEMMA AcceptedPaths ==
  ASSUME NEW r \in Request, Accepted(r)
  PROVE  /\ r.src \in Path \ {Top} /\ IsPrefix(RootDir, r.src)
         /\ r.op \in Binary =>
              r.dst \in Path \ {Top} /\ IsPrefix(RootDir, r.dst)
<1>1. /\ r.src \in Target \union {NoPath}
      /\ r.dst \in Target \union {NoPath}
  BY DEF Request, JsonRequest, DavRequest
<1>2. ~Incomplete(r) /\ \A p \in Paths(r) : IsValidPath(p)
  BY DEF Accepted, Refusal
<1>3. r.src \in Path /\ IsPrefix(RootDir, r.src)
  BY <1>1, <1>2, ApiAssumption DEF Incomplete, Paths, IsValidPath
<1>4. r.op \in Binary => r.dst \in Path /\ IsPrefix(RootDir, r.dst)
  BY <1>1, <1>2, ApiAssumption DEF Incomplete, Paths, IsValidPath
<1>5. ~IsPrefix(RootDir, Top)
  BY ApiAssumption, PrefixOfTop, PathIsSeq
<1> QED
  BY <1>3, <1>4, <1>5

(* Everything below a path below the root is below the root.               *)
LEMMA BelowRoot ==
  ASSUME NEW d \in Path, IsPrefix(RootDir, d), NEW p \in Path, IsPrefix(d, p)
  PROVE  IsPrefix(RootDir, p)
BY ApiAssumption, PathIsSeq, PrefixOrder

(* A change confined to the root leaves what is above it.                  *)
LEMMA AboveRootStays ==
  ASSUME AboveRoot, StaysInside
  PROVE  AboveRoot'
<1>1. ASSUME NEW q \in Path, IsPrefix(q, RootDir), q # RootDir
      PROVE  ~IsPrefix(RootDir, q)
  BY <1>1, ApiAssumption, PathIsSeq, PrefixOrder
<1> QED
  BY <1>1 DEF AboveRoot, StaysInside, IsDir

(* Removing a destination of the other type leaves a tree.                 *)
LEMMA ClearedKeepsTree ==
  ASSUME TypeOK, NEW r \in Request, Accepted(r), r.op \in Binary
  PROVE  IsTree(Cleared(r)) /\ DifferBelow(tree, Cleared(r), r.dst)
<1>1. IsTree(tree) /\ DifferBelow(tree, tree, r.dst)
  BY DEF TypeOK, IsTree, DifferBelow
<1>2. IsTree(RemoveAll(tree, r.dst)) /\ DifferBelow(tree, RemoveAll(tree, r.dst), r.dst)
  BY <1>1, AcceptedPaths, RemoveAllKeepsTree
<1> QED
  BY <1>1, <1>2 DEF Cleared

-----------------------------------------------------------------------------
(* A request answered at once keeps the invariant if the tree it leaves    *)
(* differs only inside the root and only where the request may change it.  *)
LEMMA AnswerStep ==
  ASSUME Inv, NEW r \in Request, NEW result \in {200, 400, 403, 404, 409, 500}, NEW t,
         AnswerAtOnce(r, result, t),
         IsTree(t),
         \A p \in Path : ~IsPrefix(RootDir, p) => t[p] = tree[p],
         \A p \in Path : t[p] # tree[p] =>
           /\ Status(r, result) \notin 400 .. 499
           /\ \/ r.op \in Binary /\ IsPrefix(r.dst, p)
              \/ r.op = "move" /\ Status(r, result) \in {200, 201} /\ IsPrefix(r.src, p)
              \/ r.op = "delete" /\ IsPrefix(r.src, p)
              \/ r.op = "mkdir" /\ IsPrefix(p, r.src)
  PROVE  Inv' /\ StaysInside
<1>1. /\ pc' = "done" /\ req' = r /\ old' = tree /\ tree' = t
      /\ code' = Status(r, result) /\ todo' = todo
  BY DEF AnswerAtOnce
<1>2. Status(r, result) \in {200, 201, 204, 400, 403, 404, 409, 500}
  BY DEF Status
<1>3. TypeOK'
  BY <1>1, <1>2 DEF Inv, TypeOK, IsTree
<1>4. StaysInside
  BY <1>1 DEF StaysInside
<1>5. AboveRoot'
  BY <1>4, AboveRootStays DEF Inv
<1>6. CopyBelow' /\ NoCodeYet'
  BY <1>1 DEF CopyBelow, NoCodeYet
<1>7. NoCollateral'
  BY <1>1 DEF NoCollateral, MayChange
<1> QED
  BY <1>3, <1>4, <1>5, <1>6, <1>7 DEF Inv

(* A refusal changes nothing at all.                                       *)
LEMMA RefuseStep ==
  ASSUME Inv, NEW r \in Request, Refuse(r)
  PROVE  Inv' /\ StaysInside
<1>1. Refusal(r) \in {400, 403, 404, 409}
  BY DEF Refuse, Accepted, Refusal
<1>2. IsTree(tree)
  BY DEF Inv, TypeOK, IsTree
<1>3. AnswerAtOnce(r, Refusal(r), tree)
  BY DEF Refuse
<1> QED
  BY <1>1, <1>2, <1>3, AnswerStep

(* A move changes the tree below its two paths, and below the destination  *)
(* only if it fails.                                                       *)
LEMMA MoveStep ==
  ASSUME Inv, NEW r \in Request, MoveFile(r)
  PROVE  Inv' /\ StaysInside
<1>1. r.op = "move" /\ r.op \in Binary /\ Accepted(r)
  BY DEF MoveFile, Binary
<1>2. /\ r.src \in Path \ {Top} /\ IsPrefix(RootDir, r.src)
      /\ r.dst \in Path \ {Top} /\ IsPrefix(RootDir, r.dst)
  BY <1>1, AcceptedPaths
<1> DEFINE c == Cleared(r)
<1>3. IsTree(c) /\ DifferBelow(tree, c, r.dst)
  BY <1>1, ClearedKeepsTree DEF Inv
<1> HIDE DEF c
<1>4. CASE CanRename(c, r.src, r.dst) /\ AnswerAtOnce(r, 200, Rename(c, r.src, r.dst))
  <2> DEFINE t == Rename(c, r.src, r.dst)
  <2>1. /\ IsTree(t)
        /\ \A p \in Path : ~IsPrefix(r.src, p) /\ ~IsPrefix(r.dst, p) => t[p] = c[p]
    BY <1>2, <1>3, <1>4, RenameKeepsTree
  <2>2. AnswerAtOnce(r, 200, t)
    BY <1>4
  <2> HIDE DEF t
  <2>3. \A p \in Path : t[p] # tree[p] => IsPrefix(r.src, p) \/ IsPrefix(r.dst, p)
    BY <2>1, <1>3 DEF DifferBelow
  <2>4. \A p \in Path : ~IsPrefix(RootDir, p) => t[p] = tree[p]
    BY <2>3, <1>2, BelowRoot
  <2>5. Status(r, 200) \in {200, 201}
    BY <1>1 DEF Status
  <2>6. Status(r, 200) \notin 400 .. 499
    BY <2>5
  <2> QED
    BY <1>1, <2>1, <2>2, <2>3, <2>4, <2>5, <2>6, AnswerStep
<1>5. CASE AnswerAtOnce(r, 500, c)
  <2>1. \A p \in Path : c[p] # tree[p] => IsPrefix(r.dst, p)
    BY <1>3 DEF DifferBelow
  <2>2. \A p \in Path : ~IsPrefix(RootDir, p) => c[p] = tree[p]
    BY <2>1, <1>2, BelowRoot
  <2>3. Status(r, 500) \notin 400 .. 499
    BY DEF Status
  <2> QED
    BY <1>1, <1>3, <1>5, <2>1, <2>2, <2>3, AnswerStep
<1> QED
  BY <1>4, <1>5 DEF MoveFile, c

(* A delete changes the tree at its path and below.                        *)
LEMMA DeleteStep ==
  ASSUME Inv, NEW r \in Request, DeleteFile(r)
  PROVE  Inv' /\ StaysInside
<1>1. r.op = "delete" /\ Accepted(r)
  BY DEF DeleteFile
<1>2. r.src \in Path \ {Top} /\ IsPrefix(RootDir, r.src)
  BY <1>1, AcceptedPaths
<1> DEFINE t == RemoveAll(tree, r.src)
<1>3. IsTree(tree)
  BY DEF Inv, TypeOK, IsTree
<1>4. IsTree(t) /\ DifferBelow(tree, t, r.src)
  BY <1>2, <1>3, RemoveAllKeepsTree
<1>5. AnswerAtOnce(r, 200, t)
  BY DEF DeleteFile
<1> HIDE DEF t
<1>6. \A p \in Path : t[p] # tree[p] => IsPrefix(r.src, p)
  BY <1>4 DEF DifferBelow
<1>7. \A p \in Path : ~IsPrefix(RootDir, p) => t[p] = tree[p]
  BY <1>6, <1>2, BelowRoot
<1>8. Status(r, 200) \notin 400 .. 499
  BY DEF Status
<1> QED
  BY <1>1, <1>4, <1>5, <1>6, <1>7, <1>8, AnswerStep

(* A new directory changes the tree on the way to its path, and only       *)
(* below the root, because what is above the root is there already.        *)
LEMMA MakeDirectoryStep ==
  ASSUME Inv, NEW r \in Request, MakeDirectory(r)
  PROVE  Inv' /\ StaysInside
<1>1. r.op = "mkdir" /\ Accepted(r)
  BY DEF MakeDirectory
<1>2. r.src \in Path \ {Top} /\ IsPrefix(RootDir, r.src)
  BY <1>1, AcceptedPaths
<1>3. IsTree(tree)
  BY DEF Inv, TypeOK, IsTree
<1>4. Status(r, 200) \notin 400 .. 499 /\ Status(r, 500) \notin 400 .. 499
  BY DEF Status
<1>5. CASE AnswerAtOnce(r, 500, tree)
  BY <1>3, <1>5, AnswerStep
<1>6. CASE CanCreateDirectory(tree, r.src) /\ AnswerAtOnce(r, 200, CreateDirectory(tree, r.src))
  <2> DEFINE t == CreateDirectory(tree, r.src)
  <2>1. IsTree(t) /\ \A q \in Path : q # r.src => t[q] = tree[q]
    BY <1>2, <1>3, <1>6, CreateDirectoryKeepsTree
  <2>2. AnswerAtOnce(r, 200, t)
    BY <1>6
  <2> HIDE DEF t
  <2>3. \A p \in Path : t[p] # tree[p] => IsPrefix(p, r.src) /\ IsPrefix(RootDir, p)
    BY <2>1, <1>2, PathIsSeq, PrefixOrder
  <2> QED
    BY <1>1, <1>4, <2>1, <2>2, <2>3, AnswerStep
<1>7. CASE AnswerAtOnce(r, 200, CreateDirectories(tree, r.src))
  <2> DEFINE t == CreateDirectories(tree, r.src)
  <2>1. /\ IsTree(t)
        /\ \A q \in Path : ~IsPrefix(q, r.src) => t[q] = tree[q]
        /\ \A q \in Path : IsPrefix(q, r.src) => t[q] = Dir
    BY <1>2, <1>3, CreateDirectoriesKeepsTree DEF CreateDirectories
  <2>2. AnswerAtOnce(r, 200, t)
    BY <1>7
  <2> HIDE DEF t
  <2>3. ASSUME NEW p \in Path, ~IsPrefix(RootDir, p) PROVE t[p] = tree[p]
    <3>1. CASE ~IsPrefix(p, r.src)
      BY <3>1, <2>1
    <3>2. CASE IsPrefix(p, r.src)
      <4>1. IsPrefix(p, RootDir) /\ p # RootDir
        BY <2>3, <3>2, <1>2, ApiAssumption, PathIsSeq, PrefixOrder
      <4> QED
        BY <4>1, <3>2, <2>1 DEF Inv, AboveRoot, IsDir
    <3> QED
      BY <3>1, <3>2
  <2> QED
    BY <1>1, <1>4, <2>1, <2>2, <2>3, AnswerStep
<1> QED
  BY <1>5, <1>6, <1>7 DEF MakeDirectory

-----------------------------------------------------------------------------
(* The destination of a copy is a path; a copy starts with the one call    *)
(* the handler makes.                                                      *)
LEMMA StartCopyStep ==
  ASSUME Inv, NEW r \in Request, StartCopy(r)
  PROVE  Inv' /\ StaysInside
<1>1. /\ r.op = "copy" /\ r.op \in Binary /\ Accepted(r)
      /\ pc' = "copy" /\ req' = r /\ old' = tree /\ tree' = Cleared(r)
      /\ todo' = << [from |-> r.src, to |-> r.dst] >>
      /\ code' = 0
  BY DEF StartCopy, Binary, Inv, NoCodeYet
<1>2. /\ r.src \in Path \ {Top} /\ IsPrefix(RootDir, r.src)
      /\ r.dst \in Path \ {Top} /\ IsPrefix(RootDir, r.dst)
  BY <1>1, AcceptedPaths
<1>3. IsTree(tree') /\ DifferBelow(tree, tree', r.dst)
  BY <1>1, ClearedKeepsTree DEF Inv
<1>4. StaysInside
  BY <1>2, <1>3, BelowRoot DEF DifferBelow, StaysInside
<1>5. AboveRoot'
  BY <1>4, AboveRootStays DEF Inv
<1>6. /\ [from |-> r.src, to |-> r.dst] \in Call
      /\ IsPrefix(r.dst, r.dst)
  BY <1>2, PathIsSeq, PrefixOrder DEF Call
<1> DEFINE call == [from |-> r.src, to |-> r.dst]
<1>7. todo' = << call >> /\ call.to = r.dst
  BY <1>1
<1> HIDE DEF call
<1>8. todo' \in Seq(Call) /\ \A i \in 1 .. Len(todo') : IsPrefix(r.dst, todo'[i].to)
  BY <1>6, <1>7 DEF call
<1>9. TypeOK'
  BY <1>1, <1>3, <1>8 DEF Inv, TypeOK, IsTree
<1>10. CopyBelow' /\ NoCodeYet'
  BY <1>1, <1>2, <1>8 DEF CopyBelow, NoCodeYet
<1>11. NoCollateral'
  BY <1>1, <1>3 DEF NoCollateral, MayChange, DifferBelow
<1> QED
  BY <1>4, <1>5, <1>9, <1>10, <1>11 DEF Inv

(* A step of a copy keeps the invariant if it changes the tree only below  *)
(* the destination and adds only calls that go there.                      *)
LEMMA CopyingStep ==
  ASSUME Inv, pc = "copy", req' = req, old' = old,
         IsTree(tree'), DifferBelow(tree, tree', req.dst),
         todo' \in Seq(Call),
         \/ /\ pc' = "copy" /\ code' = code
            /\ \A i \in 1 .. Len(todo') : IsPrefix(req.dst, todo'[i].to)
         \/ pc' = "done" /\ code' \in {200, 201, 500}
  PROVE  Inv' /\ StaysInside
<1>1. /\ req \in Request /\ req.op = "copy" /\ req.op \in Binary
      /\ req.dst \in Path /\ IsPrefix(RootDir, req.dst)
      /\ code = 0
  BY DEF Inv, CopyBelow, NoCodeYet, Binary
<1>2. code' \in {0, 200, 201, 500} /\ code' \notin 400 .. 499
  <2>1. code' \in {0, 200, 201, 500}
    BY <1>1, ZenonT(60)
  <2>2. \A c \in {0, 200, 201, 500} : c \notin 400 .. 499
    OBVIOUS
  <2> QED
    BY <2>1, <2>2
<1>3. TypeOK'
  BY <1>2 DEF Inv, TypeOK, IsTree
<1>4. StaysInside
  BY <1>1, BelowRoot DEF DifferBelow, StaysInside
<1>5. AboveRoot'
  BY <1>4, AboveRootStays DEF Inv
<1>6. CopyBelow' /\ NoCodeYet'
  BY <1>1 DEF CopyBelow, NoCodeYet
<1>7. ASSUME NEW p \in Path, tree'[p] # old[p] PROVE IsPrefix(req.dst, p)
  <2>1. CASE tree[p] # old[p]
    BY <2>1, <1>1 DEF Inv, NoCollateral, MayChange
  <2>2. CASE tree[p] = old[p]
    BY <2>2, <1>7 DEF DifferBelow
  <2> QED
    BY <2>1, <2>2
<1>8. NoCollateral'
  BY <1>1, <1>2, <1>7 DEF NoCollateral, MayChange
<1> QED
  BY <1>3, <1>4, <1>5, <1>6, <1>8 DEF Inv

(* One call of fs::copy goes below the destination, and so do the calls    *)
(* it adds.                                                                *)
LEMMA CopyEntryStep ==
  ASSUME Inv, CopyEntry
  PROVE  Inv' /\ StaysInside
<1> DEFINE from == Head(todo).from
           to   == Head(todo).to
           made == CopyNode(tree, from, to)
<1>1. pc = "copy" /\ todo # << >> /\ req' = req /\ old' = old
  BY DEF CopyEntry
<1>2. todo \in Seq(Call) /\ IsTree(tree)
  BY DEF Inv, TypeOK, IsTree
<1>3. /\ Head(todo) \in Call
      /\ Tail(todo) \in Seq(Call)
      /\ Len(todo) \in Nat \ {0}
      /\ Len(Tail(todo)) = Len(todo) - 1
      /\ \A i \in 1 .. Len(Tail(todo)) : Tail(todo)[i] = todo[i + 1]
  BY <1>1, <1>2, HeadTailProperties, EmptySeq
<1>4. from \in Path /\ to \in Seq(Name)
  BY <1>3 DEF Call
<1>5. Head(todo) = todo[1]
  BY <1>1, <1>2
<1>6. /\ req.dst \in Path /\ req.dst \in Seq(Name)
      /\ \A i \in 1 .. Len(todo) : IsPrefix(req.dst, todo[i].to)
  BY <1>1, PathIsSeq DEF Inv, CopyBelow
<1>7. IsPrefix(req.dst, to)
  BY <1>3, <1>5, <1>6
<1>8. ASSUME NEW i \in 1 .. Len(Tail(todo)) PROVE IsPrefix(req.dst, Tail(todo)[i].to)
  <2>1. i + 1 \in 1 .. Len(todo) /\ Tail(todo)[i] = todo[i + 1]
    BY <1>3
  <2> QED
    BY <2>1, <1>6
<1>9. ~CopyFails(tree, from, to) =>
        /\ IsTree(made)
        /\ DifferBelow(tree, made, req.dst)
  <2>1. SUFFICES ASSUME ~CopyFails(tree, from, to)
                 PROVE  IsTree(made) /\ DifferBelow(tree, made, req.dst)
    OBVIOUS
  <2>2. IsTree(made) /\ DifferBelow(tree, made, to)
    BY <1>2, <1>4, <2>1, CopyNodeKeepsTree
  <2> HIDE DEF from, to, made
  <2>3. \A p \in Path : IsPrefix(to, p) => IsPrefix(req.dst, p)
    BY <1>4, <1>6, <1>7, PathIsSeq, PrefixOrder
  <2> QED
    BY <2>2, <2>3 DEF DifferBelow
<1> HIDE DEF from, to, made
<1>10. CASE CopyFails(tree, from, to) /\ FinishCopy(500) /\ tree' = tree
  <2>1. pc' = "done" /\ code' = 500 /\ todo' = << >> /\ todo' \in Seq(Call)
    BY <1>10, EmptySeq DEF FinishCopy, Status
  <2>2. IsTree(tree') /\ DifferBelow(tree, tree', req.dst)
    BY <1>2, <1>10 DEF DifferBelow
  <2> QED
    BY <1>1, <2>1, <2>2, CopyingStep
<1>11. CASE /\ ~CopyFails(tree, from, to)
            /\ tree' = made /\ todo' = Tail(todo) /\ pc' = pc /\ code' = code
  BY <1>1, <1>3, <1>8, <1>9, <1>11, CopyingStep
<1>12. ASSUME ~CopyFails(tree, from, to),
              tree' = made, pc' = pc, code' = code,
              NEW entry \in SetToSeqs(Children(made, from)),
              todo' = [i \in 1 .. Len(entry) |->
                         [from |-> Append(from, entry[i]), to |-> Append(to, entry[i])]]
                      \o Tail(todo)
       PROVE  Inv' /\ StaysInside
  <2> DEFINE call(i) == [from |-> Append(from, entry[i]), to |-> Append(to, entry[i])]
             calls == [i \in 1 .. Len(entry) |-> call(i)]
  <2>1. /\ entry \in Seq(Name) /\ Len(entry) \in Nat
        /\ \A i \in 1 .. Len(entry) : entry[i] \in Children(made, from)
    BY ListingIsSeq, LenProperties
  <2>2. ASSUME NEW i \in 1 .. Len(entry)
        PROVE  /\ Append(from, entry[i]) \in Path
               /\ Append(to, entry[i]) \in Seq(Name)
               /\ IsPrefix(req.dst, Append(to, entry[i]))
    <3>1. entry[i] \in Name /\ Append(from, entry[i]) \in Path
      BY <2>1 DEF Children
    <3>2. Append(to, entry[i]) \in Seq(Name) /\ IsPrefix(to, Append(to, entry[i]))
      BY <3>1, <1>4, AppendPath
    <3>3. IsPrefix(req.dst, Append(to, entry[i]))
      BY <3>2, <1>4, <1>6, <1>7, PrefixOrder, Zenon
    <3> QED
      BY <3>1, <3>2, <3>3
  <2>3. \A i \in 1 .. Len(entry) : call(i) \in Call /\ IsPrefix(req.dst, call(i).to)
    BY <2>2 DEF Call
  <2> HIDE DEF call
  <2>4. calls \in Seq(Call) /\ Len(calls) = Len(entry)
    <3>1. calls \in [1 .. Len(entry) -> Call]
      BY <2>3
    <3> QED
      BY <3>1, <2>1, SeqDef, LenProperties
  <2>5. \A i \in 1 .. Len(calls) : IsPrefix(req.dst, calls[i].to)
    BY <2>3, <2>4
  <2>6. todo' = calls \o Tail(todo)
    BY <1>12 DEF call
  <2> HIDE DEF calls
  <2>7. /\ todo' \in Seq(Call)
        /\ Len(todo') = Len(calls) + Len(Tail(todo))
        /\ \A i \in 1 .. Len(calls) + Len(Tail(todo)) :
             todo'[i] = IF i <= Len(calls) THEN calls[i] ELSE Tail(todo)[i - Len(calls)]
    BY <2>4, <2>6, <1>3, ConcatProperties, Zenon
  <2>8. Len(calls) \in Nat /\ Len(Tail(todo)) \in Nat
    BY <2>4, <1>3, LenProperties
  <2>9. ASSUME NEW i \in 1 .. Len(todo') PROVE IsPrefix(req.dst, todo'[i].to)
    <3>1. CASE i <= Len(calls)
      BY <3>1, <2>5, <2>7, <2>8
    <3>2. CASE ~(i <= Len(calls))
      <4>1. i - Len(calls) \in 1 .. Len(Tail(todo))
        BY <3>2, <2>7, <2>8
      <4>2. todo'[i] = Tail(todo)[i - Len(calls)]
        BY <3>2, <2>7
      <4> QED
        BY <4>1, <4>2, <1>8
    <3> QED
      BY <3>1, <3>2
  <2> QED
    BY <1>1, <1>9, <1>12, <2>7, <2>9, CopyingStep
<1> QED
  BY <1>10, <1>11, <1>12 DEF CopyEntry, from, to, made

(* The return from fs::copy changes no file.                               *)
LEMMA ReturnFromCopyStep ==
  ASSUME Inv, ReturnFromCopy
  PROVE  Inv' /\ StaysInside
<1>1. /\ pc = "copy" /\ req' = req /\ old' = old /\ tree' = tree
      /\ pc' = "done" /\ code' = Status(req, 200) /\ todo' = << >>
  BY DEF ReturnFromCopy, FinishCopy
<1>2. code' \in {200, 201}
  BY <1>1 DEF Status, Inv, CopyBelow
<1>3. IsTree(tree') /\ DifferBelow(tree, tree', req.dst) /\ todo' \in Seq(Call)
  BY <1>1, EmptySeq DEF Inv, TypeOK, IsTree, DifferBelow
<1> QED
  BY <1>1, <1>2, <1>3, CopyingStep

(* Nor does the answer.                                                    *)
LEMMA RespondStep ==
  ASSUME Inv, Respond
  PROVE  Inv' /\ StaysInside
BY DEF Respond, Inv, TypeOK, AboveRoot, CopyBelow, NoCodeYet, NoCollateral, StaysInside

-----------------------------------------------------------------------------
(* The server starts in the invariant.                                     *)
LEMMA InitInv == Init => Inv
<1> SUFFICES ASSUME Init PROVE Inv
  OBVIOUS
<1>1. TypeOK
  BY EmptySeq DEF Init, TypeOK
<1>2. AboveRoot /\ CopyBelow /\ NoCodeYet /\ NoCollateral
  BY DEF Init, AboveRoot, CopyBelow, NoCodeYet, NoCollateral
<1> QED
  BY <1>1, <1>2 DEF Inv

(* Every step keeps the invariant and stays inside the root.               *)
LEMMA NextInv == Inv /\ [Next]_vars => Inv' /\ StaysInside
<1> SUFFICES ASSUME Inv, [Next]_vars PROVE Inv' /\ StaysInside
  OBVIOUS
<1>1. ASSUME NEW r \in Request,
             Refuse(r) \/ MoveFile(r) \/ DeleteFile(r) \/ MakeDirectory(r) \/ StartCopy(r)
      PROVE  Inv' /\ StaysInside
  BY <1>1, RefuseStep, MoveStep, DeleteStep, MakeDirectoryStep, StartCopyStep
<1>2. CASE CopyEntry
  BY <1>2, CopyEntryStep
<1>3. CASE ReturnFromCopy
  BY <1>3, ReturnFromCopyStep
<1>4. CASE Respond
  BY <1>4, RespondStep
<1>5. CASE UNCHANGED vars
  BY <1>5 DEF vars, Inv, TypeOK, AboveRoot, CopyBelow, NoCodeYet, NoCollateral, MayChange,
              StaysInside
<1> QED
  BY <1>1, <1>2, <1>3, <1>4, <1>5 DEF Next

(* Every variable keeps its type and the tree stays a tree, whatever is    *)
(* requested: every entry lies in a directory after each step.             *)
THEOREM TypeCorrect == Spec => []TypeOK
<1>1. Inv => TypeOK
  BY DEF Inv
<1> QED
  BY <1>1, InitInv, NextInv, PTL DEF Spec

(* No step of any handler changes anything outside the served root.        *)
THEOREM MutationsConfined == Spec => Confined
<1>1. Inv /\ [Next]_vars => [\A p \in Path : ~IsPrefix(RootDir, p) => tree'[p] = tree[p]]_vars
  BY NextInv DEF StaysInside
<1> QED
  BY <1>1, InitInv, NextInv, PTL DEF Spec, Confined

(* A refused request changes nothing, and an accepted one only what it     *)
(* names, at every moment between its arrival and its answer.              *)
THEOREM NothingCollateral == Spec => []NoCollateral
<1>1. Inv => NoCollateral
  BY DEF Inv
<1> QED
  BY <1>1, InitInv, NextInv, PTL DEF Spec

-----------------------------------------------------------------------------
(* What comes after a path: its length, its parts, and the step from one   *)
(* name to the next.                                                       *)
LEMMA Joined ==
  ASSUME NEW p \in Seq(Name), NEW u \in Seq(Name)
  PROVE  /\ p \o u \in Seq(Name)
         /\ Len(p) \in Nat /\ Len(u) \in Nat
         /\ Len(p \o u) = Len(p) + Len(u)
         /\ \A i \in 1 .. Len(p) : (p \o u)[i] = p[i]
         /\ \A i \in 1 .. Len(u) : (p \o u)[Len(p) + i] = u[i]
         /\ IsPrefix(p, p \o u)
         /\ u # << >> => Last(p \o u) = Last(u)
<1>1. /\ p \o u \in Seq(Name)
      /\ Len(p) \in Nat /\ Len(u) \in Nat
      /\ Len(p \o u) = Len(p) + Len(u)
  BY ConcatProperties, LenProperties
<1>2. \A i \in 1 .. Len(p) + Len(u) :
        (p \o u)[i] = IF i <= Len(p) THEN p[i] ELSE u[i - Len(p)]
  BY ConcatProperties
<1>3. \A i \in 1 .. Len(p) : (p \o u)[i] = p[i]
  BY <1>1, <1>2
<1>4. ASSUME NEW i \in 1 .. Len(u) PROVE (p \o u)[Len(p) + i] = u[i]
  <2>1. /\ Len(p) + i \in 1 .. Len(p) + Len(u)
        /\ ~(Len(p) + i <= Len(p)) /\ (Len(p) + i) - Len(p) = i
    BY <1>1
  <2> QED
    BY <1>2, <2>1
<1>5. IsPrefix(p, p \o u)
  <2>1. Len(p) <= Len(p \o u) /\ \A i \in 1 .. Len(p) : p[i] = (p \o u)[i]
    BY <1>1, <1>3
  <2> QED
    BY <1>1, <2>1, PrefixIsPointwise
<1>6. u # << >> => Last(p \o u) = Last(u)
  <2>1. u # << >> => Len(u) \in 1 .. Len(u)
    BY EmptySeq
  <2> QED
    BY <1>1, <1>4, <2>1 DEF Last
<1> QED
  BY <1>1, <1>3, <1>4, <1>5, <1>6

LEMMA JoinedAppend ==
  ASSUME NEW p \in Seq(Name), NEW u \in Seq(Name), NEW n \in Name
  PROVE  Append(p \o u, n) = p \o Append(u, n)
<1>1. <<n>> \in Seq(Name) /\ p \o u \in Seq(Name)
  BY Joined
<1>2. Append(p \o u, n) = (p \o u) \o <<n>> /\ Append(u, n) = u \o <<n>>
  BY <1>1, AppendIsConcat
<1> QED
  BY <1>1, <1>2, ConcatAssociative

(* The same beginning, the same end.                                       *)
LEMMA JoinedSame ==
  ASSUME NEW p \in Seq(Name), NEW u \in Seq(Name), NEW v \in Seq(Name),
         p \o u = p \o v
  PROVE  u = v
BY ConcatSimplifications

(* A path below another is that path and the rest.                         *)
LEMMA BelowIsJoined ==
  ASSUME NEW p \in Seq(Name), NEW q \in Seq(Name), IsPrefix(p, q)
  PROVE  \E u \in Seq(Name) : q = p \o u
<1>1. /\ Len(p) \in Nat /\ Len(q) \in Nat /\ Len(p) <= Len(q)
      /\ \A i \in 1 .. Len(p) : p[i] = q[i]
  BY PrefixIsPointwise, LenProperties
<1> DEFINE u == SubSeq(q, Len(p) + 1, Len(q))
<1>2. \A i \in Len(p) + 1 .. Len(q) : q[i] \in Name
  BY <1>1, ElementOfSeq
<1>3. /\ u \in Seq(Name)
      /\ Len(u) = IF Len(p) + 1 <= Len(q) THEN Len(q) - (Len(p) + 1) + 1 ELSE 0
      /\ \A i \in 1 .. Len(q) - (Len(p) + 1) + 1 : u[i] = q[(Len(p) + 1) + i - 1]
  BY <1>1, <1>2, SubSeqProperties
<1> HIDE DEF u
<1>4. Len(u) = Len(q) - Len(p)
  BY <1>1, <1>3
<1>5. p \o u \in Seq(Name) /\ Len(p \o u) = Len(q)
  BY <1>1, <1>3, <1>4, Joined
<1>6. ASSUME NEW i \in 1 .. Len(p \o u) PROVE (p \o u)[i] = q[i]
  <2>1. CASE i <= Len(p)
    BY <1>1, <1>3, <2>1, Joined
  <2>2. CASE ~(i <= Len(p))
    <3>1. i - Len(p) \in 1 .. Len(u) /\ Len(p) + (i - Len(p)) = i
      BY <1>1, <1>4, <1>5, <2>2
    <3>2. (p \o u)[Len(p) + (i - Len(p))] = u[i - Len(p)]
      BY <1>3, <3>1, Joined
    <3>3. u[i - Len(p)] = q[(Len(p) + 1) + (i - Len(p)) - 1]
      BY <1>1, <1>3, <1>4, <3>1
    <3>4. (Len(p) + 1) + (i - Len(p)) - 1 = i
      BY <1>1, <1>5
    <3> QED
      BY <3>1, <3>2, <3>3, <3>4
  <2> QED
    BY <2>1, <2>2
<1>7. p \o u = q
  BY <1>5, <1>6, SeqEqual
<1> QED
  BY <1>3, <1>7

(* All that is above an entry are directories, by induction over the       *)
(* length of its path.                                                     *)
LEMMA AncestorsAreDirs ==
  ASSUME NEW t, IsTree(t), NEW p \in Path, NEW q \in Path,
         IsPrefix(p, q), p # q, Exists(t, q)
  PROVE  IsDir(t, p)
<1> DEFINE Good(x) == \A y \in Path : IsPrefix(y, x) /\ y # x => IsDir(t, y)
           S == {n \in Nat : \A x \in Path : Len(x) = n /\ Exists(t, x) => Good(x)}
<1>1. 0 \in S
  <2>1. ASSUME NEW x \in Path, Len(x) = 0, NEW y \in Path, IsPrefix(y, x) PROVE y = x
    <3>1. x \in Seq(Name) /\ y \in Seq(Name)
      BY PathIsSeq
    <3>2. x = Top
      BY <2>1, <3>1, EmptySeq DEF Top
    <3> QED
      BY <2>1, <3>1, <3>2, PrefixOfTop
  <2> QED
    BY <2>1
<1>2. ASSUME NEW n \in Nat, n \in S PROVE n + 1 \in S
  <2>1. SUFFICES ASSUME NEW x \in Path, Len(x) = n + 1, Exists(t, x),
                        NEW y \in Path, IsPrefix(y, x), y # x
                 PROVE  IsDir(t, y)
    OBVIOUS
  <2>2. x \in Seq(Name) /\ y \in Seq(Name) /\ x # Top
    BY <1>2, <2>1, PathIsSeq, EmptySeq DEF Top
  <2>3. Front(x) \in Path /\ Len(Front(x)) = n
    BY <1>2, <2>1, <2>2, FrontIsPath, FrontIsSeq
  <2>4. IsDir(t, Front(x)) /\ Exists(t, Front(x))
    BY <2>1, <2>2, TreeAssumption DEF IsTree, WellFormed, IsDir, Exists
  <2>5. IsPrefix(y, Front(x))
    BY <2>1, <2>2, PrefixOfFront
  <2> QED
    BY <1>2, <2>3, <2>4, <2>5
<1>3. Nat \subseteq S
  <2> HIDE DEF S
  <2> QED
    BY <1>1, <1>2, NatSetInduction
<1>4. Len(q) \in Nat
  BY PathIsSeq, LenProperties
<1> QED
  BY <1>3, <1>4

(* A directory with something below it has the entry on the way to it.     *)
LEMMA ChildOnTheWay ==
  ASSUME NEW t, IsTree(t), NEW p \in Seq(Name), NEW n \in Name, NEW v \in Seq(Name),
         NEW q \in Path, q = Append(p, n) \o v, Exists(t, q)
  PROVE  Append(p, n) \in Path /\ Exists(t, Append(p, n)) /\ n \in Children(t, p)
<1>1. Append(p, n) \in Seq(Name)
  BY AppendPath
<1>2. /\ IsPrefix(Append(p, n), q)
      /\ Len(Append(p, n)) \in Nat /\ Len(v) \in Nat /\ Len(q) = Len(Append(p, n)) + Len(v)
  BY <1>1, Joined
<1>3. Len(q) <= MaxDepth
  BY PathIsSeq
<1>4. Append(p, n) \in Path
  <2>1. Len(Append(p, n)) <= MaxDepth
    BY <1>2, <1>3, TreeAssumption
  <2> QED
    BY <1>1, <2>1, PathIsSeq
<1>5. Exists(t, Append(p, n))
  BY <1>2, <1>4, AncestorsAreDirs, TreeAssumption DEF IsDir, Exists
<1> QED
  BY <1>4, <1>5 DEF Children

-----------------------------------------------------------------------------
(* What a path below the source becomes, and the reverse.                  *)
LEMMA OriginOfJoined ==
  ASSUME NEW from \in Seq(Name), NEW to \in Seq(Name), NEW s \in Seq(Name)
  PROVE  Origin(to \o s, from, to) = from \o s
<1>1. /\ to \o s \in Seq(Name) /\ from \o s \in Seq(Name)
      /\ Len(to) \in Nat /\ Len(from) \in Nat /\ Len(s) \in Nat
      /\ Len(to \o s) = Len(to) + Len(s) /\ Len(from \o s) = Len(from) + Len(s)
      /\ \A i \in 1 .. Len(s) : (to \o s)[Len(to) + i] = s[i]
      /\ \A i \in 1 .. Len(s) : (from \o s)[Len(from) + i] = s[i]
      /\ \A i \in 1 .. Len(from) : (from \o s)[i] = from[i]
  BY Joined
<1> DEFINE o == Origin(to \o s, from, to)
<1>2. Len(to) <= Len(to \o s) /\ Len(to \o s) - Len(to) = Len(s)
  BY <1>1
<1>3. /\ o \in Seq(Name)
      /\ Len(o) = Len(from) + (Len(to \o s) - Len(to))
      /\ \A i \in 1 .. Len(from) + (Len(to \o s) - Len(to)) :
           o[i] = IF i <= Len(from) THEN from[i] ELSE (to \o s)[Len(to) + (i - Len(from))]
  BY <1>1, <1>2, OriginIsPointwise, ZenonT(60)
<1> HIDE DEF o
<1>4. ASSUME NEW i \in 1 .. Len(o) PROVE o[i] = (from \o s)[i]
  <2>1. i \in 1 .. Len(from) + (Len(to \o s) - Len(to))
    BY <1>3
  <2>2. CASE i <= Len(from)
    <3>1. i \in 1 .. Len(from)
      BY <1>1, <2>2
    <3> QED
      BY <1>1, <1>3, <2>1, <2>2, <3>1
  <2>3. CASE ~(i <= Len(from))
    <3>1. i - Len(from) \in 1 .. Len(s) /\ Len(from) + (i - Len(from)) = i
      BY <1>1, <1>2, <2>1, <2>3
    <3>2. o[i] = (to \o s)[Len(to) + (i - Len(from))]
      BY <1>3, <2>1, <2>3
    <3>3. (from \o s)[Len(from) + (i - Len(from))] = s[i - Len(from)]
      BY <1>1, <3>1
    <3> QED
      BY <1>1, <3>1, <3>2, <3>3
  <2> QED
    BY <2>2, <2>3
<1>5. o = from \o s
  BY <1>1, <1>2, <1>3, <1>4, SeqEqual
<1> QED
  BY <1>5 DEF o

(* Moving: what is below the destination afterwards came from below the    *)
(* source, and nothing of the source is left.  It might be, if the         *)
(* destination were above the source; but then it is a directory that is   *)
(* not empty, which rename(2) does not replace.                            *)
LEMMA RenameMoves ==
  ASSUME NEW t, IsTree(t), NEW from \in Path \ {Top}, NEW to \in Path \ {Top},
         CanRename(t, from, to), NEW s \in Path
  PROVE  /\ to \o s \in Path =>
              Rename(t, from, to)[to \o s] =
                IF from \o s \in Path THEN t[from \o s] ELSE NoEntry
         /\ from # to /\ from \o s \in Path => ~Exists(Rename(t, from, to), from \o s)
<1>1. from \in Seq(Name) /\ to \in Seq(Name) /\ s \in Seq(Name)
  BY PathIsSeq
<1>2. Origin(to \o s, from, to) = from \o s
  BY <1>1, OriginOfJoined
<1>3. IsPrefix(to, to \o s) /\ IsPrefix(from, from \o s) /\ from \o s \in Seq(Name)
  BY <1>1, Joined
<1>4. to \o s \in Path =>
        Rename(t, from, to)[to \o s] = IF from \o s \in Path THEN t[from \o s] ELSE NoEntry
  BY <1>2, <1>3 DEF Rename
<1>5. ASSUME from # to, from \o s \in Path
      PROVE  ~Exists(Rename(t, from, to), from \o s)
  <2>1. /\ Exists(t, from) /\ ~IsPrefix(from, to)
        /\ \/ ~Exists(t, to)
           \/ IsFile(t, to)
           \/ Children(t, to) = {}
    BY <1>5 DEF CanRename
  <2>2. ASSUME IsPrefix(to, from \o s) PROVE FALSE
    <3>1. IsPrefix(to, from)
      BY <1>1, <1>3, <2>1, <2>2, PrefixOrder
    <3>2. IsDir(t, to)
      BY <1>5, <2>1, <3>1, AncestorsAreDirs
    <3>3. Exists(t, to) /\ ~IsFile(t, to)
      BY <3>2, TreeAssumption DEF IsDir, Exists, IsFile
    <3>4. PICK u \in Seq(Name) : from = to \o u
      BY <1>1, <3>1, BelowIsJoined
    <3>5. u # << >>
      BY <1>1, <1>5, <3>4, ConcatEmptySeq
    <3>6. /\ Head(u) \in Name /\ Tail(u) \in Seq(Name)
          /\ <<Head(u)>> \in Seq(Name) /\ u = <<Head(u)>> \o Tail(u)
      BY <3>4, <3>5, HeadIsFirst
    <3>7. from = Append(to, Head(u)) \o Tail(u)
      BY <1>1, <3>4, <3>6, ConcatAssociative, AppendIsConcat, SMTT(60)
    <3>8. Head(u) \in Children(t, to)
      BY <1>1, <2>1, <3>6, <3>7, ChildOnTheWay
    <3> QED
      BY <2>1, <3>3, <3>8
  <2>3. Rename(t, from, to)[from \o s] = NoEntry
    BY <1>3, <1>5, <2>2 DEF Rename
  <2> QED
    BY <2>3 DEF Exists
<1> QED
  BY <1>4, <1>5

(* A move is the only handler that answers a move.                         *)
LEMMA OtherStepsMoveNothing ==
  ASSUME Inv, MoveIsAtomic, [Next]_vars,
         \A r \in Request : ~MoveFile(r)
  PROVE  MoveIsAtomic'
<1>1. ASSUME NEW r \in Request, Refuse(r) PROVE MoveIsAtomic'
  <2>1. Refusal(r) \in {400, 403, 404, 409}
    BY <1>1 DEF Refuse, Accepted, Refusal
  <2>2. code' \in {400, 403, 404, 409}
    BY <1>1, <2>1 DEF Refuse, AnswerAtOnce, Status
  <2> QED
    BY <2>2 DEF MoveIsAtomic
<1>2. ASSUME NEW r \in Request, DeleteFile(r) \/ MakeDirectory(r) \/ StartCopy(r)
      PROVE  MoveIsAtomic'
  <2>1. req'.op # "move"
    BY <1>2 DEF DeleteFile, MakeDirectory, StartCopy, AnswerAtOnce
  <2> QED
    BY <2>1 DEF MoveIsAtomic
<1>3. CASE CopyEntry \/ ReturnFromCopy
  <2>1. req'.op = "copy"
    BY <1>3 DEF CopyEntry, ReturnFromCopy, Inv, CopyBelow
  <2> QED
    BY <2>1 DEF MoveIsAtomic
<1>4. CASE Respond
  BY <1>4 DEF Respond, MoveIsAtomic
<1>5. CASE UNCHANGED vars
  BY <1>5 DEF vars, MoveIsAtomic, TypesDiffer, Exists, IsDir, Moved, OnlyDestinationLost
<1> QED
  BY <1>1, <1>2, <1>3, <1>4, <1>5 DEF Next

(* What a rename that succeeds moves was not below a cleared destination:  *)
(* it would be gone.                                                       *)
LEMMA ClearedKeepsMoved ==
  ASSUME NEW r \in Request, Accepted(r), r.op \in Binary,
         CanRename(Cleared(r), r.src, r.dst),
         NEW p \in Path, IsPrefix(r.src, p)
  PROVE  Cleared(r)[p] = tree[p]
<1>1. CASE ~TypesDiffer(tree, r)
  BY <1>1 DEF Cleared
<1>2. CASE TypesDiffer(tree, r)
  <2>1. \A q \in Path : Cleared(r)[q] = IF IsPrefix(r.dst, q) THEN NoEntry ELSE tree[q]
    BY <1>2 DEF Cleared, RemoveAll
  <2>2. r.src \in Path /\ r.dst \in Path
    BY AcceptedPaths
  <2>3. ~IsPrefix(r.dst, r.src)
    BY <2>1, <2>2 DEF CanRename, Exists
  <2>4. r.src \in Seq(Name) /\ r.dst \in Seq(Name) /\ p \in Seq(Name)
    BY <2>2, PathIsSeq
  <2>5. r.src # r.dst
    BY <2>3, <2>4, PrefixOrder
  <2>6. ~IsPrefix(r.src, r.dst)
    BY <2>5 DEF CanRename
  <2>7. ~IsPrefix(r.dst, p)
    BY <2>3, <2>4, <2>6, PrefixOrder
  <2> QED
    BY <2>1, <2>7
<1> QED
  BY <1>1, <1>2

(* A move renames, or leaves the tree as clearing the destination left it. *)
LEMMA MoveStepMoves ==
  ASSUME Inv, NEW r \in Request, MoveFile(r)
  PROVE  MoveIsAtomic'
<1>1. r.op = "move" /\ r.op \in Binary /\ Accepted(r)
  BY DEF MoveFile, Binary
<1>2. req' = r /\ old' = tree
  BY DEF MoveFile, AnswerAtOnce
<1>3. r.src \in Path \ {Top} /\ r.dst \in Path \ {Top}
  BY <1>1, AcceptedPaths
<1>4. IsTree(tree)
  BY DEF Inv, TypeOK, IsTree
<1>5. CASE AnswerAtOnce(r, 500, Cleared(r))
  <2>1. tree' = Cleared(r) /\ code' = 500
    BY <1>5 DEF AnswerAtOnce, Status
  <2>2. TypesDiffer(old, req)' <=> TypesDiffer(tree, r)
    BY <1>2 DEF TypesDiffer, Exists, IsDir
  <2>3. ASSUME NEW p \in Path
        PROVE  tree'[p] = IF TypesDiffer(tree, r) /\ IsPrefix(r.dst, p) THEN NoEntry ELSE tree[p]
    BY <2>1 DEF Cleared, RemoveAll
  <2>4. OnlyDestinationLost'
    BY <1>2, <2>2, <2>3 DEF OnlyDestinationLost
  <2> QED
    BY <2>1, <2>4 DEF MoveIsAtomic
<1>6. CASE /\ CanRename(Cleared(r), r.src, r.dst)
           /\ AnswerAtOnce(r, 200, Rename(Cleared(r), r.src, r.dst))
  <2> DEFINE c == Cleared(r)
  <2>1. CanRename(c, r.src, r.dst) /\ tree' = Rename(c, r.src, r.dst) /\ code' # 500
    BY <1>1, <1>6 DEF AnswerAtOnce, Status
  <2>2. IsTree(c)
    BY <1>1, ClearedKeepsTree DEF Inv
  <2>3. ASSUME NEW s \in Path, r.src \o s \in Path PROVE c[r.src \o s] = tree[r.src \o s]
    <3>1. IsPrefix(r.src, r.src \o s)
      BY <1>3, PathIsSeq, Joined
    <3> QED
      BY <1>1, <2>1, <2>3, <3>1, ClearedKeepsMoved
  <2> HIDE DEF c
  <2>4. ASSUME NEW s \in Path
        PROVE  /\ r.dst \o s \in Path =>
                    tree'[r.dst \o s] =
                      IF r.src \o s \in Path THEN tree[r.src \o s] ELSE NoEntry
               /\ r.src # r.dst /\ r.src \o s \in Path => ~Exists(tree', r.src \o s)
    BY <1>3, <2>1, <2>2, <2>3, RenameMoves
  <2>5. Moved(req.src, req.dst)'
    BY <1>2, <2>4 DEF Moved, Exists
  <2> QED
    BY <2>1, <2>5 DEF MoveIsAtomic
<1> QED
  BY <1>5, <1>6 DEF MoveFile

(* A move does all it should or loses at most its destination, whatever    *)
(* lies where: source and destination may be one above the other, and of   *)
(* different types.                                                        *)
THEOREM MoveAllOrNothing == Spec => []MoveIsAtomic
<1>1. Init => MoveIsAtomic
  BY DEF Init, MoveIsAtomic
<1>2. Inv /\ MoveIsAtomic /\ [Next]_vars => MoveIsAtomic'
  BY MoveStepMoves, OtherStepsMoveNothing
<1> QED
  BY <1>1, <1>2, InitInv, NextInv, PTL DEF Spec

-----------------------------------------------------------------------------
(* One call of fs::copy writes one place, of the type that is there if     *)
(* anything is.                                                            *)
LEMMA CopyNodeWrites ==
  ASSUME NEW t, IsTree(t), NEW from \in Path, NEW to \in Seq(Name),
         ~CopyFails(t, from, to)
  PROVE  LET target == CopyTarget(t, from, to)
         IN  /\ target \in Path
             /\ Exists(t, from)
             /\ Exists(t, target) => IsDir(t, from) = IsDir(t, target)
             /\ CopyNode(t, from, to)[target] = t[from]
             /\ \A p \in Path : p # target => CopyNode(t, from, to)[p] = t[p]
BY DEF CopyFails, CopyNode, IsTree, Tree

(* What CopyEntry does, call by call, without its bookkeeping.             *)
LEMMA CopyEntryCases ==
  ASSUME Inv, CopyEntry, NEW from, NEW to, from = Head(todo).from, to = Head(todo).to
  PROVE  /\ pc = "copy" /\ todo # << >> /\ req' = req /\ old' = old
         /\ from \in Path /\ to \in Seq(Name)
         /\ \/ tree' = tree /\ code' = 500
            \/ ~CopyFails(tree, from, to) /\ tree' = CopyNode(tree, from, to) /\ code' = 0
<1>1. pc = "copy" /\ todo # << >> /\ req' = req /\ old' = old
  BY DEF CopyEntry
<1>2. from \in Path /\ to \in Seq(Name)
  <2>1. todo \in Seq(Call)
    BY DEF Inv, TypeOK
  <2>2. Head(todo) \in Call
    BY <1>1, <2>1, HeadTailProperties
  <2> QED
    BY <2>2 DEF Call
<1>3. code = 0
  BY <1>1 DEF Inv, NoCodeYet
<1>4. \/ tree' = tree /\ FinishCopy(500)
      \/ ~CopyFails(tree, from, to) /\ tree' = CopyNode(tree, from, to) /\ code' = code
  BY DEF CopyEntry
<1> QED
  BY <1>1, <1>2, <1>3, <1>4 DEF FinishCopy, Status

(* A copy between like types adds entries and keeps the type of those it   *)
(* finds, wherever they are.                                               *)
AlikeMerges ==
  req.op = "copy" /\ code \notin 400 .. 499 /\ ~TypesDiffer(old, req) =>
    \A p \in Path : Exists(old, p) => Exists(tree, p) /\ IsDir(tree, p) = IsDir(old, p)

LEMMA CopyStepMerges ==
  ASSUME Inv, AlikeMerges, [Next]_vars
  PROVE  AlikeMerges'
<1>1. ASSUME NEW r \in Request, StartCopy(r) PROVE AlikeMerges'
  BY <1>1 DEF StartCopy, AlikeMerges, Cleared, TypesDiffer
<1>2. ASSUME NEW r \in Request, Refuse(r) PROVE AlikeMerges'
  BY <1>2 DEF Refuse, AnswerAtOnce, AlikeMerges, Exists, IsDir
<1>3. ASSUME NEW r \in Request, MoveFile(r) \/ DeleteFile(r) \/ MakeDirectory(r)
      PROVE  AlikeMerges'
  BY <1>3 DEF MoveFile, DeleteFile, MakeDirectory, AnswerAtOnce, AlikeMerges
<1>4. CASE CopyEntry
  <2> DEFINE from   == Head(todo).from
             to     == Head(todo).to
             target == CopyTarget(tree, from, to)
  <2>1. /\ pc = "copy" /\ req' = req /\ old' = old
        /\ from \in Path /\ to \in Seq(Name)
        /\ \/ tree' = tree
           \/ ~CopyFails(tree, from, to) /\ tree' = CopyNode(tree, from, to)
    BY <1>4, CopyEntryCases
  <2> HIDE DEF from, to
  <2>2. code = 0 /\ code \notin 400 .. 499
    BY <2>1 DEF Inv, NoCodeYet
  <2>3. SUFFICES ASSUME req.op = "copy", ~TypesDiffer(old, req),
                        NEW p \in Path, Exists(old, p)
                 PROVE  Exists(tree', p) /\ IsDir(tree', p) = IsDir(old, p)
    BY <2>1, ZenonT(60) DEF AlikeMerges, TypesDiffer, Exists, IsDir
  <2>4. Exists(tree, p) /\ IsDir(tree, p) = IsDir(old, p)
    BY <2>2, <2>3 DEF AlikeMerges
  <2>5. CASE tree' = tree
    BY <2>4, <2>5
  <2>6. CASE ~CopyFails(tree, from, to) /\ tree' = CopyNode(tree, from, to)
    <3>1. IsTree(tree)
      BY DEF Inv, TypeOK, IsTree
    <3>2. /\ Exists(tree, from)
          /\ Exists(tree, target) => IsDir(tree, from) = IsDir(tree, target)
          /\ tree'[target] = tree[from]
          /\ \A q \in Path : q # target => tree'[q] = tree[q]
      BY <2>1, <2>6, <3>1, CopyNodeWrites
    <3> QED
      BY <2>3, <2>4, <3>2 DEF Exists, IsDir
  <2> QED
    BY <2>1, <2>5, <2>6
<1>5. CASE ReturnFromCopy
  <2>1. code \notin 400 .. 499
    BY <1>5 DEF ReturnFromCopy, Inv, NoCodeYet
  <2> QED
    BY <1>5, <2>1 DEF ReturnFromCopy, AlikeMerges, TypesDiffer, Exists, IsDir
<1>6. CASE Respond
  BY <1>6 DEF Respond, NoRequest, AlikeMerges
<1>7. CASE UNCHANGED vars
  BY <1>7 DEF vars, AlikeMerges, TypesDiffer, Exists, IsDir
<1> QED
  BY <1>1, <1>2, <1>3, <1>4, <1>5, <1>6, <1>7 DEF Next

(* What a copy between different types takes away lies at its destination  *)
(* and below: all it changes does.                                         *)
LEMMA AlikeImpliesMerges == Inv /\ AlikeMerges => CopyMerges
<1> SUFFICES ASSUME Inv, AlikeMerges, req.op = "copy", code \notin 400 .. 499,
                    NEW p \in Path, Exists(old, p)
             PROVE  \/ Exists(tree, p) /\ IsDir(tree, p) = IsDir(old, p)
                    \/ TypesDiffer(old, req) /\ IsPrefix(req.dst, p)
  BY DEF CopyMerges
<1>1. CASE ~TypesDiffer(old, req)
  BY <1>1 DEF AlikeMerges
<1>2. CASE tree[p] = old[p]
  BY <1>2 DEF Exists, IsDir
<1>3. CASE tree[p] # old[p]
  BY <1>1, <1>3 DEF Inv, NoCollateral, MayChange
<1> QED
  BY <1>1, <1>2, <1>3

(* Of all that was there before a copy only a destination of the other     *)
(* type than the source goes, with what lies below it; no other entry is   *)
(* taken away or changed into a directory or back, also when the copy      *)
(* stops half-way with an error.                                           *)
THEOREM CopyOnlyAdds == Spec => []CopyMerges
<1>1. Init => AlikeMerges
  BY DEF Init, NoRequest, AlikeMerges
<1> QED
  BY <1>1, CopyStepMerges, AlikeImpliesMerges, InitInv, NextInv, PTL DEF Spec

-----------------------------------------------------------------------------
(* A copy into a place apart from its source.  Everything is said of the   *)
(* names s below source and destination: "copied" where it belongs, or     *)
(* still below one of the calls to be made.                                *)
Disjoint(p, q) == ~IsPrefix(p, q) /\ ~IsPrefix(q, p)

Copying == req.op = "copy" /\ code \in {0, 200, 201} /\ Disjoint(req.src, req.dst)

Copied(s) ==
  \/ req.dst \o s \in Path /\ tree[req.dst \o s] = old[req.src \o s]
  \/ /\ IsFile(old, req.src \o s) /\ s # << >>
     /\ req.dst \o s \in Path /\ IsDir(old, req.dst \o s)
     /\ Append(req.dst \o s, Last(s)) \in Path
     /\ tree[Append(req.dst \o s, Last(s))] = old[req.src \o s]

Awaits(calls, s) ==
  \E i \in 1 .. Len(calls), u \in Seq(Name), v \in Seq(Name) :
    s = u \o v /\ calls[i].from = req.src \o u

(* Each call copies an entry of the source to its own place.               *)
CallsPair ==
  \A i \in 1 .. Len(todo) : \E u \in Seq(Name) :
    todo[i].from = req.src \o u /\ todo[i].to = req.dst \o u

(* A directory that was not there is a copy of one.                        *)
OnlyCopied ==
  \A p \in Path : tree[p] = Dir /\ old[p] # Dir =>
    \E u \in Seq(Name) : p = req.dst \o u /\ IsDir(old, req.src \o u)

(* What is at the destination is of the type of the source.                *)
RootAlike == Exists(tree, req.dst) => IsDir(tree, req.dst) = IsDir(old, req.src)

(* No entry of the source is forgotten.                                    *)
NoneForgotten ==
  \A s \in Seq(Name) : req.src \o s \in Path /\ Exists(old, req.src \o s) =>
    Copied(s) \/ Awaits(todo, s)

CopyInv ==
  Copying =>
    /\ req.src \in Path /\ req.dst \in Path
    /\ CallsPair /\ OnlyCopied /\ RootAlike /\ NoneForgotten
    /\ pc = "done" => todo = << >>

(* What is not copied yet has a call, whatever the calls are now.          *)
LEMMA ForgetsNone ==
  ASSUME req' = req, old' = old, NEW calls, todo' = calls,
         \A s \in Seq(Name) : req.src \o s \in Path /\ Exists(old, req.src \o s) =>
           Copied(s)' \/ Awaits(calls, s)
  PROVE  NoneForgotten'
<1>1. ASSUME NEW s PROVE Awaits(calls, s) => Awaits(todo, s)'
  BY DEF Awaits
<1>2. ASSUME NEW s \in Seq(Name), req.src \o s \in Path, Exists(old, req.src \o s)
      PROVE  Copied(s)' \/ Awaits(todo, s)'
  BY <1>1, <1>2
<1>3. ASSUME NEW s PROVE Exists(old, req.src \o s)' <=> Exists(old, req.src \o s)
  BY DEF Exists
<1> QED
  BY <1>2, <1>3 DEF NoneForgotten

LEMMA CopyStays ==
  ASSUME req' = req, old' = old, tree' = tree, todo' = todo,
         CallsPair, NoneForgotten, OnlyCopied, RootAlike
  PROVE  CallsPair' /\ NoneForgotten' /\ OnlyCopied' /\ RootAlike'
<1>1. CallsPair'
  BY DEF CallsPair
<1>2. NoneForgotten'
  <2>1. ASSUME NEW s PROVE Copied(s) => Copied(s)'
    BY DEF Copied, IsDir, IsFile
  <2> QED
    BY <2>1, ForgetsNone DEF NoneForgotten
<1>3. OnlyCopied'
  BY DEF OnlyCopied, IsDir
<1>4. RootAlike'
  BY DEF RootAlike, Exists, IsDir
<1> QED
  BY <1>1, <1>2, <1>3, <1>4

(* The copy changes nothing of its source.                                 *)
LEMMA SourceKept ==
  ASSUME Inv, Copying, req.src \in Path, req.dst \in Path
  PROVE  \A u \in Seq(Name) : req.src \o u \in Path =>
           tree[req.src \o u] = old[req.src \o u]
<1> SUFFICES ASSUME NEW u \in Seq(Name), req.src \o u \in Path,
                    tree[req.src \o u] # old[req.src \o u]
             PROVE  FALSE
  OBVIOUS
<1>1. req.src \in Seq(Name) /\ req.dst \in Seq(Name)
  BY PathIsSeq
<1>2. IsPrefix(req.dst, req.src \o u)
  BY DEF Inv, NoCollateral, MayChange, Copying
<1>3. req.src \o u \in Seq(Name) /\ IsPrefix(req.src, req.src \o u)
  BY <1>1, Joined
<1>4. IsPrefix(req.src, req.dst) \/ IsPrefix(req.dst, req.src)
  BY <1>1, <1>2, <1>3, PrefixOrder
<1> QED
  BY <1>4 DEF Copying, Disjoint

(* Where one call of fs::copy writes: at its place, or, a file whose place *)
(* is taken by a directory, inside that directory.  It is the place of no  *)
(* other entry: nothing lies below a file.                                 *)
LEMMA WhereCopyWrites ==
  ASSUME Inv, pc = "copy", Copying, CopyInv, NEW u \in Seq(Name),
         ~CopyFails(tree, req.src \o u, req.dst \o u),
         req.src \o u \in Path,
         NEW target, target = CopyTarget(tree, req.src \o u, req.dst \o u)
  PROVE  /\ target \in Path
         /\ Exists(old, req.src \o u)
         /\ \/ target = req.dst \o u
            \/ /\ IsFile(old, req.src \o u) /\ u # << >>
               /\ req.dst \o u \in Path /\ IsDir(old, req.dst \o u)
               /\ target = Append(req.dst \o u, Last(u)) /\ Last(u) \in Name
<1>1. /\ req.src \in Path /\ req.dst \in Path
      /\ req.src \in Seq(Name) /\ req.dst \in Seq(Name)
  BY PathIsSeq DEF CopyInv
<1>2. IsTree(tree) /\ req.dst \o u \in Seq(Name)
  BY <1>1, Joined DEF Inv, TypeOK, IsTree
<1>3. target \in Path /\ Exists(tree, req.src \o u)
  BY <1>2, CopyNodeWrites
<1>4. tree[req.src \o u] = old[req.src \o u]
  BY <1>1, SourceKept
<1>5. CASE target = req.dst \o u
  BY <1>3, <1>4, <1>5 DEF Exists
<1>6. CASE target # req.dst \o u
  <2>1. /\ req.dst \o u \in Path /\ IsDir(tree, req.dst \o u)
        /\ IsFile(tree, req.src \o u)
        /\ target = Append(req.dst \o u, Last(req.src \o u))
    BY <1>6 DEF CopyTarget
  <2>2. IsFile(old, req.src \o u) /\ ~IsDir(old, req.src \o u)
    BY <1>4, <2>1, TreeAssumption DEF IsFile, IsDir
  <2>3. u # << >>
    <3>1. SUFFICES ASSUME u = << >> PROVE FALSE
      OBVIOUS
    <3>2. req.src \o u = req.src /\ req.dst \o u = req.dst
      BY <1>1, <3>1, ConcatEmptySeq
    <3>3. Exists(tree, req.dst)
      BY <2>1, <3>2, TreeAssumption DEF IsDir, Exists
    <3> QED
      BY <2>1, <2>2, <3>2, <3>3 DEF CopyInv, RootAlike, IsDir
  <2>4. Last(req.src \o u) = Last(u)
    BY <1>1, <2>3, Joined
  <2>5. IsDir(old, req.dst \o u)
    <3>1. SUFFICES ASSUME old[req.dst \o u] # Dir PROVE FALSE
      BY DEF IsDir
    <3>2. PICK w \in Seq(Name) : req.dst \o u = req.dst \o w /\ IsDir(old, req.src \o w)
      BY <2>1, <3>1 DEF CopyInv, OnlyCopied, IsDir
    <3>3. u = w
      BY <1>1, <3>2, JoinedSame
    <3> QED
      BY <2>2, <3>2, <3>3
  <2>6. Last(u) \in Name
    <3>1. Len(u) \in 1 .. Len(u)
      BY <2>3, EmptySeq
    <3> QED
      BY <3>1, ElementOfSeq DEF Last
  <2> QED
    BY <1>3, <1>4, <2>1, <2>2, <2>3, <2>4, <2>5, <2>6 DEF Exists
<1> QED
  BY <1>5, <1>6

(* What lies below an entry of the source makes it a directory.            *)
LEMMA NothingBelowFile ==
  ASSUME Inv, NEW p \in Seq(Name), NEW n \in Name, Append(p, n) \in Path,
         Exists(old, Append(p, n))
  PROVE  ~IsFile(old, p)
<1>1. Append(p, n) # Top /\ Front(Append(p, n)) = p
  BY AppendPath
<1>2. IsDir(old, p)
  BY <1>1, ZenonT(60) DEF Inv, TypeOK, WellFormed
<1> QED
  BY <1>2, TreeAssumption DEF IsDir, IsFile

(* One call leaves what was copied before, and copies its own entry.       *)
LEMMA CopyKeepsCopied ==
  ASSUME Inv, pc = "copy", Copying, CopyInv, req' = req, old' = old,
         NEW u \in Seq(Name),
         ~CopyFails(tree, req.src \o u, req.dst \o u),
         req.src \o u \in Path,
         tree' = CopyNode(tree, req.src \o u, req.dst \o u),
         NEW s \in Seq(Name), Copied(s) \/ s = u,
         req.src \o s \in Path, Exists(old, req.src \o s)
  PROVE  Copied(s)'
<1> DEFINE target == CopyTarget(tree, req.src \o u, req.dst \o u)
           src == req.src
           dst == req.dst
<1>1. /\ src \in Path /\ dst \in Path /\ src \in Seq(Name) /\ dst \in Seq(Name)
  BY PathIsSeq DEF CopyInv
<1>2. /\ IsTree(tree)
      /\ dst \o u \in Seq(Name) /\ src \o u \in Seq(Name)
      /\ dst \o s \in Seq(Name) /\ src \o s \in Seq(Name)
  BY <1>1, Joined DEF Inv, TypeOK, IsTree
<1>3. /\ target \in Path
      /\ Exists(old, src \o u)
      /\ \/ target = dst \o u
         \/ /\ IsFile(old, src \o u) /\ u # << >>
            /\ dst \o u \in Path /\ IsDir(old, dst \o u)
            /\ target = Append(dst \o u, Last(u)) /\ Last(u) \in Name
  BY WhereCopyWrites
<1>4. tree'[target] = old[src \o u] /\ \A p \in Path : p # target => tree'[p] = tree[p]
  <2>1. tree[src \o u] = old[src \o u]
    BY <1>1, SourceKept
  <2>2. src \o u \in Path /\ ~CopyFails(tree, src \o u, dst \o u)
    OBVIOUS
  <2>3. /\ CopyNode(tree, src \o u, dst \o u)[target] = tree[src \o u]
        /\ \A p \in Path : p # target => CopyNode(tree, src \o u, dst \o u)[p] = tree[p]
    BY <1>2, <2>2, CopyNodeWrites, ZenonT(60)
  <2> QED
    BY <2>1, <2>3
<1> HIDE DEF target
<1>5. CASE s = u
  BY <1>3, <1>4, <1>5 DEF Copied
<1>6. CASE s # u /\ dst \o s \in Path /\ tree[dst \o s] = old[src \o s]
  <2>1. dst \o s # target
    <3>1. SUFFICES ASSUME dst \o s = target PROVE FALSE
      OBVIOUS
    <3>2. dst \o s # dst \o u
      BY <1>1, <1>6, JoinedSame
    <3>3. /\ IsFile(old, src \o u) /\ Last(u) \in Name
          /\ dst \o s = Append(dst \o u, Last(u))
      BY <1>3, <3>1, <3>2
    <3>4. Append(u, Last(u)) \in Seq(Name)
      BY <3>3, AppendProperties
    <3>5. s = Append(u, Last(u))
      <4>1. dst \o s = dst \o Append(u, Last(u))
        BY <1>1, <3>3, JoinedAppend
      <4> QED
        BY <1>1, <3>4, <4>1, JoinedSame
    <3>6. src \o s = Append(src \o u, Last(u))
      BY <1>1, <3>3, <3>5, JoinedAppend
    <3> QED
      BY <1>2, <3>3, <3>6, NothingBelowFile
  <2> QED
    BY <1>4, <1>6, <2>1 DEF Copied
<1>7. CASE /\ s # u
           /\ IsFile(old, src \o s) /\ s # << >>
           /\ dst \o s \in Path /\ IsDir(old, dst \o s)
           /\ Append(dst \o s, Last(s)) \in Path
           /\ tree[Append(dst \o s, Last(s))] = old[src \o s]
  <2>1. Last(s) \in Name
    <3>1. Len(s) \in 1 .. Len(s)
      BY <1>7, EmptySeq
    <3> QED
      BY <3>1, ElementOfSeq DEF Last
  <2>2. Append(dst \o s, Last(s)) # target
    <3>1. SUFFICES ASSUME Append(dst \o s, Last(s)) = target PROVE FALSE
      OBVIOUS
    <3>2. CASE target = dst \o u
      <4>1. Append(s, Last(s)) \in Seq(Name)
        BY <2>1, AppendProperties
      <4>2. u = Append(s, Last(s))
        <5>1. dst \o u = dst \o Append(s, Last(s))
          BY <1>1, <2>1, <3>1, <3>2, JoinedAppend
        <5> QED
          BY <1>1, <4>1, <5>1, JoinedSame
      <4>3. src \o u = Append(src \o s, Last(s))
        BY <1>1, <2>1, <4>2, JoinedAppend
      <4> QED
        BY <1>2, <1>3, <1>7, <2>1, <4>3, NothingBelowFile
    <3>3. CASE target = Append(dst \o u, Last(u)) /\ Last(u) \in Name
      <4>1. Append(dst \o s, Last(s)) = Append(dst \o u, Last(u))
        BY <3>1, <3>3
      <4>2. dst \o s = dst \o u
        <5>1. Front(Append(dst \o s, Last(s))) = dst \o s
          BY <1>2, <2>1, AppendPath
        <5>2. Front(Append(dst \o u, Last(u))) = dst \o u
          BY <1>2, <3>3, AppendPath
        <5> QED
          BY <4>1, <5>1, <5>2
      <4> QED
        BY <1>1, <1>7, <4>2, JoinedSame
    <3> QED
      BY <1>3, <3>2, <3>3
  <2> QED
    BY <1>4, <1>7, <2>2 DEF Copied
<1> QED
  BY <1>5, <1>6, <1>7 DEF Copied

(* Reading a directory yields all its entries.                             *)
LEMMA ListingIsAll ==
  ASSUME NEW t, NEW d, NEW entry \in SetToSeqs(Children(t, d)), NEW n \in Children(t, d)
  PROVE  \E k \in 1 .. Len(entry) : entry[k] = n
<1> DEFINE S == Children(t, d)
           m == Cardinality(S)
<1>1. IsFiniteSet(S) /\ m \in Nat
  <2>1. S \in SUBSET Name
    BY DEF Children
  <2>2. IsFiniteSet(S)
    BY <2>1, TreeAssumption, FS_Subset
  <2> QED
    BY <2>2, FS_CardinalityType
<1>2. entry \in [1 .. m -> S] /\ \A i, j \in 1 .. m : i # j => entry[i] # entry[j]
  BY DEF SetToSeqs
<1>3. entry \in Seq(Name) /\ Len(entry) = m
  <2>1. entry \in Seq(Name)
    BY ListingIsSeq
  <2>2. DOMAIN entry = 1 .. m /\ DOMAIN entry = 1 .. Len(entry) /\ Len(entry) \in Nat
    BY <1>2, <2>1, LenProperties
  <2> HIDE DEF m
  <2> QED
    BY <1>1, <2>1, <2>2
<1> HIDE DEF m, S
<1>4. entry \in Injection(1 .. m, S)
  BY <1>2 DEF Injection, IsInjective
<1>5. Cardinality(1 .. m) = m
  BY <1>1, FS_Interval
<1>6. Cardinality(1 .. m) = Cardinality(S)
  BY <1>5 DEF m
<1>7. entry \in Surjection(1 .. m, S)
  BY <1>1, <1>4, <1>6, FS_Injection
<1>8. n \in S
  BY DEF S
<1> QED
  BY <1>3, <1>7, <1>8 DEF Surjection

(* What waited and is not below the call that was made waits still.        *)
LEMMA FirstCallOnly ==
  ASSUME NEW calls \in Seq(Call), calls # << >>, NEW s \in Seq(Name), Awaits(calls, s)
  PROVE  \/ \E u, v \in Seq(Name) : s = u \o v /\ Head(calls).from = req.src \o u
         \/ Awaits(Tail(calls), s)
<1>1. /\ Len(calls) \in Nat \ {0}
      /\ Len(Tail(calls)) = Len(calls) - 1
      /\ \A i \in 1 .. Len(Tail(calls)) : Tail(calls)[i] = calls[i + 1]
      /\ Head(calls) = calls[1]
  BY HeadTailProperties, EmptySeq
<1>2. PICK i \in 1 .. Len(calls), u \in Seq(Name), v \in Seq(Name) :
        s = u \o v /\ calls[i].from = req.src \o u
  BY DEF Awaits
<1>3. CASE i = 1
  BY <1>1, <1>2, <1>3
<1>4. CASE i # 1
  <2>1. i - 1 \in 1 .. Len(Tail(calls)) /\ (i - 1) + 1 = i
    BY <1>1, <1>4
  <2>2. Tail(calls)[i - 1] = calls[i]
    BY <1>1, <2>1
  <2> QED
    BY <1>2, <2>1, <2>2 DEF Awaits
<1> QED
  BY <1>3, <1>4

(* Calls put before others delay them, but do not drop them.               *)
LEMMA AwaitsLater ==
  ASSUME NEW before \in Seq(Call), NEW calls \in Seq(Call), NEW s \in Seq(Name)
  PROVE  /\ Awaits(before, s) => Awaits(before \o calls, s)
         /\ Awaits(calls, s) => Awaits(before \o calls, s)
<1>1. /\ Len(before) \in Nat /\ Len(calls) \in Nat
      /\ Len(before \o calls) = Len(before) + Len(calls)
      /\ \A i \in 1 .. Len(before) + Len(calls) :
           (before \o calls)[i] = IF i <= Len(before) THEN before[i] ELSE calls[i - Len(before)]
  BY ConcatProperties, LenProperties
<1>2. ASSUME NEW i \in 1 .. Len(before)
      PROVE  i \in 1 .. Len(before \o calls) /\ (before \o calls)[i] = before[i]
  BY <1>1
<1>3. ASSUME NEW i \in 1 .. Len(calls)
      PROVE  /\ i + Len(before) \in 1 .. Len(before \o calls)
             /\ (before \o calls)[i + Len(before)] = calls[i]
  <2>1. /\ i + Len(before) \in 1 .. Len(before) + Len(calls)
        /\ ~(i + Len(before) <= Len(before))
        /\ (i + Len(before)) - Len(before) = i
    BY <1>1
  <2> QED
    BY <1>1, <2>1
<1>4. Awaits(before, s) => Awaits(before \o calls, s)
  BY <1>2 DEF Awaits
<1>5. Awaits(calls, s) => Awaits(before \o calls, s)
  BY <1>3 DEF Awaits
<1> QED
  BY <1>4, <1>5

(* The calls for the entries of a directory.                               *)
CallsFor(entry, from, to) ==
  [i \in 1 .. Len(entry) |->
     [from |-> Append(from, entry[i]), to |-> Append(to, entry[i])]]

LEMMA CallsAreCalls ==
  ASSUME NEW entry \in Seq(Name), NEW from, NEW to \in Seq(Name),
         \A i \in 1 .. Len(entry) : Append(from, entry[i]) \in Path
  PROVE  /\ CallsFor(entry, from, to) \in Seq(Call)
         /\ Len(CallsFor(entry, from, to)) = Len(entry)
<1> DEFINE calls == CallsFor(entry, from, to)
<1>1. Len(entry) \in Nat /\ \A i \in 1 .. Len(entry) : entry[i] \in Name
  BY LenProperties, ElementOfSeq
<1>2. \A i \in 1 .. Len(entry) : Append(to, entry[i]) \in Seq(Name)
  BY <1>1, AppendProperties
<1>3. \A i \in 1 .. Len(entry) :
        [from |-> Append(from, entry[i]), to |-> Append(to, entry[i])] \in Call
  BY <1>2 DEF Call
<1>4. calls \in [1 .. Len(entry) -> Call]
  BY <1>3 DEF CallsFor
<1> HIDE DEF calls
<1>5. calls \in Seq(Call)
  BY <1>1, <1>4, SeqDef
<1>6. Len(calls) = Len(entry)
  BY <1>1, <1>4, <1>5, LenProperties
<1> QED
  BY <1>5, <1>6 DEF calls

(* One call keeps the tree as a copy leaves it.                            *)
LEMMA CopyEntryKeepsShape ==
  ASSUME Inv, pc = "copy", Copying, CopyInv, req' = req, old' = old,
         NEW u \in Seq(Name),
         ~CopyFails(tree, req.src \o u, req.dst \o u),
         req.src \o u \in Path,
         tree' = CopyNode(tree, req.src \o u, req.dst \o u)
  PROVE  OnlyCopied' /\ RootAlike'
<1> DEFINE src == req.src
           dst == req.dst
           target == CopyTarget(tree, src \o u, dst \o u)
<1>1. /\ src \in Path /\ dst \in Path /\ src \in Seq(Name) /\ dst \in Seq(Name)
  BY PathIsSeq DEF CopyInv
<1>2. IsTree(tree) /\ dst \o u \in Seq(Name)
  BY <1>1, Joined DEF Inv, TypeOK, IsTree
<1>3. /\ target \in Path
      /\ \/ target = dst \o u
         \/ /\ IsFile(old, src \o u)
            /\ target = Append(dst \o u, Last(u)) /\ Last(u) \in Name
  BY WhereCopyWrites, SMTT(60)
<1>4. tree'[target] = old[src \o u] /\ \A p \in Path : p # target => tree'[p] = tree[p]
  <2>1. tree[src \o u] = old[src \o u]
    BY <1>1, SourceKept
  <2>2. src \o u \in Path /\ ~CopyFails(tree, src \o u, dst \o u)
    OBVIOUS
  <2>3. /\ CopyNode(tree, src \o u, dst \o u)[target] = tree[src \o u]
        /\ \A p \in Path : p # target => CopyNode(tree, src \o u, dst \o u)[p] = tree[p]
    BY <1>2, <2>2, CopyNodeWrites, Zenon
  <2> QED
    BY <2>1, <2>3
<1> HIDE DEF target
<1>5. ASSUME NEW p \in Path, tree'[p] = Dir, old[p] # Dir
      PROVE  \E w \in Seq(Name) : p = dst \o w /\ IsDir(old, src \o w)
  <2>1. CASE p = target
    <3>1. old[src \o u] = Dir
      BY <1>4, <1>5, <2>1
    <3>2. target = dst \o u
      BY <1>3, <3>1, TreeAssumption DEF IsFile
    <3> QED
      BY <2>1, <3>1, <3>2 DEF IsDir
  <2>2. CASE p # target
    BY <1>4, <1>5, <2>2 DEF CopyInv, OnlyCopied
  <2> QED
    BY <2>1, <2>2
<1>6. Exists(tree', dst) => IsDir(tree', dst) = IsDir(old, src)
  <2>1. CASE dst = target
    <3>1. target = dst \o u
      <4>1. SUFFICES ASSUME target = Append(dst \o u, Last(u)), Last(u) \in Name
                     PROVE  FALSE
        BY <1>3
      <4>2. /\ Len(target) = Len(dst \o u) + 1
            /\ Len(dst \o u) = Len(dst) + Len(u)
            /\ Len(dst) \in Nat /\ Len(u) \in Nat
        BY <1>1, <1>2, <4>1, AppendProperties, Joined
      <4> QED
        BY <2>1, <4>2
    <3>2. u = << >>
      BY <1>1, <2>1, <3>1, ConcatEqualIffEmpty
    <3>3. src \o u = src
      BY <1>1, <3>2, ConcatEmptySeq
    <3> QED
      BY <1>4, <2>1, <3>3 DEF IsDir
  <2>2. CASE dst # target
    BY <1>1, <1>4, <2>2 DEF CopyInv, RootAlike, Exists, IsDir
  <2> QED
    BY <2>1, <2>2
<1> QED
  BY <1>5, <1>6 DEF OnlyCopied, RootAlike, IsDir, Exists

(* One call keeps its promise for all entries: its own is copied, those    *)
(* below it have calls of their own.                                       *)
LEMMA CopyEntryForgetsNone ==
  ASSUME Inv, CopyEntry, CopyInv, Copying, code' = 0
  PROVE  CallsPair' /\ NoneForgotten' /\ OnlyCopied' /\ RootAlike'
<1> DEFINE from == Head(todo).from
           to   == Head(todo).to
           made == CopyNode(tree, from, to)
           src  == req.src
           dst  == req.dst
<1>1. /\ pc = "copy" /\ todo # << >> /\ req' = req /\ old' = old
      /\ from \in Path /\ to \in Seq(Name)
      /\ ~CopyFails(tree, from, to) /\ tree' = made
  BY CopyEntryCases
<1>2. /\ todo \in Seq(Call) /\ IsTree(tree) /\ IsTree(old)
      /\ src \in Path /\ dst \in Path /\ src \in Seq(Name) /\ dst \in Seq(Name)
  BY PathIsSeq DEF Inv, TypeOK, IsTree, CopyInv
<1>3. /\ Len(todo) \in Nat \ {0}
      /\ Tail(todo) \in Seq(Call)
      /\ Len(Tail(todo)) = Len(todo) - 1
      /\ \A i \in 1 .. Len(Tail(todo)) : Tail(todo)[i] = todo[i + 1]
      /\ Head(todo) = todo[1]
  BY <1>1, <1>2, HeadTailProperties, EmptySeq
<1>4. PICK u \in Seq(Name) : from = src \o u /\ to = dst \o u
  <2>1. 1 \in 1 .. Len(todo)
    BY <1>3
  <2> QED
    BY <1>3, <2>1 DEF CopyInv, CallsPair
<1>5. /\ ~CopyFails(tree, src \o u, dst \o u) /\ src \o u \in Path
      /\ tree' = CopyNode(tree, src \o u, dst \o u)
  BY <1>1, <1>4
<1>6. OnlyCopied' /\ RootAlike'
  BY <1>1, <1>5, CopyEntryKeepsShape
<1>7. ASSUME NEW i \in 1 .. Len(Tail(todo))
      PROVE  \E w \in Seq(Name) : Tail(todo)[i].from = src \o w /\ Tail(todo)[i].to = dst \o w
  <2>1. i + 1 \in 1 .. Len(todo) /\ Tail(todo)[i] = todo[i + 1]
    BY <1>3
  <2> QED
    BY <2>1 DEF CopyInv, CallsPair
<1>8. ASSUME NEW s \in Seq(Name), src \o s \in Path, Exists(old, src \o s)
      PROVE  \/ Copied(s)'
             \/ Awaits(Tail(todo), s)
             \/ \E v \in Seq(Name) : v # << >> /\ s = u \o v
  <2>1. Copied(s) \/ s = u => Copied(s)'
    BY <1>1, <1>5, <1>8, CopyKeepsCopied
  <2>2. CASE Awaits(todo, s)
    <3>1. \/ \E w, v \in Seq(Name) : s = w \o v /\ Head(todo).from = src \o w
          \/ Awaits(Tail(todo), s)
      BY <1>1, <1>2, <2>2, FirstCallOnly
    <3>2. ASSUME NEW w \in Seq(Name), NEW v \in Seq(Name),
                 s = w \o v, Head(todo).from = src \o w
          PROVE  s = u \/ (v # << >> /\ s = u \o v)
      <4>1. w = u
        BY <1>2, <1>4, <3>2, JoinedSame
      <4>2. v = << >> => s = u
        BY <3>2, <4>1, ConcatEmptySeq
      <4> QED
        BY <3>2, <4>1, <4>2
    <3> QED
      BY <2>1, <3>1, <3>2
  <2> QED
    BY <1>8, <2>1, <2>2 DEF CopyInv, NoneForgotten
<1>9. tree[src \o u] = old[src \o u]
  BY <1>2, <1>5, SourceKept
<1>10. CASE IsFile(tree, from) /\ todo' = Tail(todo)
  <2>1. IsFile(old, src \o u) /\ ~IsDir(old, src \o u)
    BY <1>4, <1>9, <1>10, TreeAssumption DEF IsFile, IsDir
  <2>2. ASSUME NEW s \in Seq(Name), src \o s \in Path, Exists(old, src \o s),
               NEW v \in Seq(Name), v # << >>, s = u \o v
        PROVE  FALSE
    <3>1. src \o s = (src \o u) \o v /\ src \o u \in Seq(Name)
      <4>1. src \in Seq(Name)
        BY <1>2
      <4> HIDE DEF src
      <4>2. (src \o u) \o v = src \o (u \o v)
        BY <4>1, ConcatAssociative
      <4>3. src \o u \in Seq(Name)
        BY <4>1, Joined
      <4> QED
        BY <2>2, <4>2, <4>3
    <3>2. IsPrefix(src \o u, src \o s)
      BY <2>2, <3>1, Joined
    <3>3. src \o u # src \o s
      BY <2>2, <3>1, ConcatEqualIffEmpty
    <3> QED
      BY <1>2, <1>5, <2>1, <2>2, <3>2, <3>3, AncestorsAreDirs
  <2>3. CallsPair'
    BY <1>1, <1>7, <1>10 DEF CallsPair
  <2>4. ASSUME NEW s \in Seq(Name), src \o s \in Path, Exists(old, src \o s)
        PROVE  Copied(s)' \/ Awaits(Tail(todo), s)
    BY <1>8, <2>2, <2>4
  <2>5. NoneForgotten'
    BY <1>1, <1>10, <2>4, ForgetsNone
  <2> QED
    BY <1>6, <2>3, <2>5
<1>11. ASSUME NEW entry \in SetToSeqs(Children(made, from)),
              todo' = [i \in 1 .. Len(entry) |->
                         [from |-> Append(from, entry[i]), to |-> Append(to, entry[i])]]
                      \o Tail(todo)
       PROVE  CallsPair' /\ NoneForgotten'
  <2> DEFINE calls == CallsFor(entry, src \o u, dst \o u)
  <2>1. /\ entry \in Seq(Name)
        /\ \A i \in 1 .. Len(entry) : entry[i] \in Children(made, from)
    BY ListingIsSeq
  <2>2. todo' = calls \o Tail(todo)
    BY <1>4, <1>11 DEF CallsFor
  <2>3. \A i \in 1 .. Len(entry) : Append(src \o u, entry[i]) \in Path
    BY <1>4, <2>1 DEF Children
  <2>4. /\ calls \in Seq(Call) /\ Len(calls) = Len(entry)
        /\ \A i \in 1 .. Len(entry) :
             /\ Append(u, entry[i]) \in Seq(Name)
             /\ calls[i].from = src \o Append(u, entry[i])
             /\ calls[i].to = dst \o Append(u, entry[i])
    <3>1. src \in Seq(Name) /\ dst \in Seq(Name) /\ u \in Seq(Name)
      BY <1>2, <1>4
    <3>2. entry \in Seq(Name)
      BY <2>1
    <3>3. dst \o u \in Seq(Name)
      BY <1>1, <1>4
    <3>4. calls \in Seq(Call) /\ Len(calls) = Len(entry)
      BY <2>3, <3>2, <3>3, CallsAreCalls
    <3>5. ASSUME NEW i \in 1 .. Len(entry)
          PROVE  /\ Append(u, entry[i]) \in Seq(Name)
                 /\ calls[i].from = src \o Append(u, entry[i])
                 /\ calls[i].to = dst \o Append(u, entry[i])
      <4>1. entry[i] \in Name
        BY <3>2, ElementOfSeq
      <4>2. Append(u, entry[i]) \in Seq(Name)
        BY <3>1, <4>1, AppendProperties
      <4>3. /\ calls[i].from = Append(src \o u, entry[i])
            /\ calls[i].to = Append(dst \o u, entry[i])
        BY DEF CallsFor
      <4>4. /\ Append(src \o u, entry[i]) = src \o Append(u, entry[i])
            /\ Append(dst \o u, entry[i]) = dst \o Append(u, entry[i])
        BY <3>1, <4>1, JoinedAppend
      <4> QED
        BY <4>2, <4>3, <4>4
    <3> QED
      BY <3>4, <3>5
  <2> HIDE DEF calls
  <2>5. /\ Len(calls) \in Nat /\ Len(Tail(todo)) \in Nat
        /\ Len(todo') = Len(calls) + Len(Tail(todo))
        /\ \A i \in 1 .. Len(calls) + Len(Tail(todo)) :
             todo'[i] = IF i <= Len(calls) THEN calls[i] ELSE Tail(todo)[i - Len(calls)]
    BY <1>3, <2>2, <2>4, ConcatProperties, LenProperties, ZenonT(60)
  <2>6. ASSUME NEW i \in 1 .. Len(todo')
        PROVE  \E w \in Seq(Name) : todo'[i].from = src \o w /\ todo'[i].to = dst \o w
    <3>1. CASE i <= Len(calls)
      <4>1. i \in 1 .. Len(entry) /\ todo'[i] = calls[i]
        BY <2>4, <2>5, <3>1
      <4> QED
        BY <2>4, <4>1
    <3>2. CASE ~(i <= Len(calls))
      <4>1. i - Len(calls) \in 1 .. Len(Tail(todo))
        BY <2>5, <3>2
      <4>2. todo'[i] = Tail(todo)[i - Len(calls)]
        BY <2>5, <3>2
      <4> QED
        BY <1>7, <4>1, <4>2
    <3> QED
      BY <3>1, <3>2
  <2>7. CallsPair'
    BY <1>1, <2>6 DEF CallsPair
  <2>8. ASSUME NEW s \in Seq(Name), src \o s \in Path, Exists(old, src \o s),
               NEW v \in Seq(Name), v # << >>, s = u \o v
        PROVE  Awaits(calls, s)
    <3> DEFINE n == Head(v)
    <3>1. n \in Name /\ Tail(v) \in Seq(Name) /\ <<n>> \in Seq(Name) /\ v = <<n>> \o Tail(v)
      BY <2>8, HeadIsFirst
    <3> HIDE DEF n
    <3>2. Append(u, n) \in Seq(Name) /\ Append(u, n) = u \o <<n>>
      BY <3>1, AppendProperties, AppendIsConcat
    <3>3. s = Append(u, n) \o Tail(v)
      BY <2>8, <3>1, <3>2, ConcatAssociative
    <3>4. src \o u \in Seq(Name) /\ Append(src \o u, n) = src \o Append(u, n)
      <4>1. src \in Seq(Name) /\ u \in Seq(Name) /\ n \in Name
        BY <1>2, <3>1
      <4> HIDE DEF src
      <4>2. src \o u \in Seq(Name)
        BY <4>1, Joined
      <4>3. Append(src \o u, n) = src \o Append(u, n)
        BY <4>1, JoinedAppend
      <4> QED
        BY <4>2, <4>3
    <3>5. src \o s = Append(src \o u, n) \o Tail(v)
      <4>1. src \in Seq(Name)
        BY <1>2
      <4> HIDE DEF src
      <4>2. Append(u, n) \in Seq(Name) /\ Tail(v) \in Seq(Name)
        BY <3>1, <3>2
      <4>3. (src \o Append(u, n)) \o Tail(v) = src \o (Append(u, n) \o Tail(v))
        BY <4>1, <4>2, ConcatAssociative, SMTT(60)
      <4> QED
        BY <3>3, <3>4, <4>3
    <3>6. Append(src \o u, n) \in Path /\ Exists(old, Append(src \o u, n))
      BY <1>2, <2>8, <3>1, <3>4, <3>5, ChildOnTheWay
    <3>7. Exists(made, Append(src \o u, n))
      <4> DEFINE q == Append(src \o u, n)
      <4>1. Inv'
        BY NextInv DEF Next
      <4>2. IsPrefix(src, src \o Append(u, n)) /\ src \o Append(u, n) \in Seq(Name)
        BY <1>2, <3>2, Joined, Zenon
      <4>3. IsPrefix(src, q) /\ q \in Seq(Name)
        BY <3>4, <4>2
      <4> HIDE DEF q
      <4>4. ~IsPrefix(dst, q)
        BY <1>2, <4>3, PrefixOrder DEF Copying, Disjoint
      <4>5. tree'[q] = old'[q]
        BY <1>1, <3>6, <4>1, <4>4 DEF Inv, NoCollateral, MayChange, Copying, q
      <4> QED
        BY <1>1, <3>6, <4>5 DEF Exists, q
    <3>8. n \in Children(made, from)
      BY <1>4, <3>1, <3>6, <3>7 DEF Children
    <3>9. PICK k \in 1 .. Len(entry) : entry[k] = n
      BY <3>8, ListingIsAll
    <3>10. k \in 1 .. Len(calls) /\ calls[k].from = src \o Append(u, n)
      BY <2>4, <3>9
    <3> QED
      BY <3>1, <3>2, <3>3, <3>10 DEF Awaits
  <2>9. ASSUME NEW s \in Seq(Name), src \o s \in Path, Exists(old, src \o s)
        PROVE  Copied(s)' \/ Awaits(calls \o Tail(todo), s)
    BY <1>3, <1>8, <2>4, <2>8, <2>9, AwaitsLater
  <2>10. NoneForgotten'
    BY <1>1, <2>2, <2>9, ForgetsNone
  <2> QED
    BY <2>7, <2>10
<1>12. \/ IsFile(tree, from) /\ todo' = Tail(todo)
       \/ \E entry \in SetToSeqs(Children(made, from)) :
             todo' = [i \in 1 .. Len(entry) |->
                        [from |-> Append(from, entry[i]), to |-> Append(to, entry[i])]]
                     \o Tail(todo)
  BY <1>1 DEF CopyEntry
<1> QED
  BY <1>6, <1>10, <1>11, <1>12

(* A copy begins with one call, for the whole of the source.               *)
LEMMA StartCopyForgetsNone ==
  ASSUME Inv, NEW r \in Request, StartCopy(r)
  PROVE  CopyInv'
<1>1. /\ r.op = "copy" /\ r.op \in Binary /\ Accepted(r)
      /\ pc' = "copy" /\ req' = r /\ old' = tree /\ tree' = Cleared(r)
      /\ todo' = << [from |-> r.src, to |-> r.dst] >>
  BY DEF StartCopy, Binary
<1>2. /\ r.src \in Path /\ r.dst \in Path
      /\ r.src \in Seq(Name) /\ r.dst \in Seq(Name)
  BY <1>1, AcceptedPaths, PathIsSeq
<1>3. /\ Len(todo') = 1
      /\ todo'[1].from = r.src /\ todo'[1].to = r.dst
  BY <1>1
<1>4. /\ << >> \in Seq(Name)
      /\ r.src = r.src \o << >> /\ r.dst = r.dst \o << >>
  BY <1>2, EmptySeq, ConcatEmptySeq
<1>5. CallsPair'
  <2>1. ASSUME NEW i \in 1 .. Len(todo')
        PROVE  \E u \in Seq(Name) :
                  todo'[i].from = r.src \o u /\ todo'[i].to = r.dst \o u
    <3>1. i = 1
      BY <1>3
    <3>2. todo'[i].from = r.src \o << >> /\ todo'[i].to = r.dst \o << >>
      BY <1>3, <1>4, <3>1
    <3> QED
      BY <1>4, <3>2
  <2>2. req'.src = r.src /\ req'.dst = r.dst
    BY <1>1
  <2> QED
    BY <2>1, <2>2, Zenon DEF CallsPair
<1>6. TypesDiffer(tree, r) => \A p \in Path : tree'[p] \in {NoEntry, tree[p]}
  BY <1>1 DEF Cleared, RemoveAll
<1>7. ~TypesDiffer(tree, r) => tree' = tree
  BY <1>1 DEF Cleared
<1>8. OnlyCopied'
  BY <1>1, <1>6, <1>7, TreeAssumption DEF OnlyCopied
<1>9. RootAlike'
  <2>1. CASE TypesDiffer(tree, r)
    <3>1. r.dst \in Path /\ IsPrefix(r.dst, r.dst)
      BY <1>2, PrefixOrder
    <3>2. tree'[r.dst] = NoEntry
      BY <1>1, <2>1, <3>1 DEF Cleared, RemoveAll
    <3> QED
      BY <1>1, <3>2 DEF RootAlike, Exists
  <2>2. CASE ~TypesDiffer(tree, r)
    BY <1>1, <1>7, <2>2 DEF RootAlike, TypesDiffer, Exists, IsDir
  <2> QED
    BY <2>1, <2>2
<1>10. ASSUME NEW s \in Seq(Name) PROVE Awaits(todo, s)'
  <2>1. s = << >> \o s
    BY ConcatEmptySeq
  <2>2. 1 \in 1 .. Len(todo')
    BY <1>3
  <2> QED
    BY <1>1, <1>3, <1>4, <2>1, <2>2 DEF Awaits
<1>11. NoneForgotten'
  BY <1>10 DEF NoneForgotten
<1> QED
  BY <1>1, <1>2, <1>5, <1>8, <1>9, <1>11 DEF CopyInv

(* Every step keeps the promise of a copy.                                 *)
LEMMA CopyInvStep ==
  ASSUME Inv, CopyInv, [Next]_vars
  PROVE  CopyInv'
<1>1. ASSUME NEW r \in Request, StartCopy(r) PROVE CopyInv'
  BY <1>1, StartCopyForgetsNone
<1>2. ASSUME NEW r \in Request, Refuse(r) PROVE CopyInv'
  <2>1. Refusal(r) \in {400, 403, 404, 409}
    BY <1>2 DEF Refuse, Accepted, Refusal
  <2>2. code' \in {400, 403, 404, 409}
    BY <1>2, <2>1 DEF Refuse, AnswerAtOnce, Status
  <2>3. code' \notin {0, 200, 201}
    BY <2>2
  <2> QED
    BY <2>3 DEF CopyInv, Copying
<1>3. ASSUME NEW r \in Request, MoveFile(r) \/ DeleteFile(r) \/ MakeDirectory(r)
      PROVE  CopyInv'
  <2>1. req'.op # "copy"
    BY <1>3 DEF MoveFile, DeleteFile, MakeDirectory, AnswerAtOnce
  <2> QED
    BY <2>1 DEF CopyInv, Copying
<1>4. CASE CopyEntry
  <2>1. SUFFICES ASSUME Copying'
                 PROVE  /\ req'.src \in Path /\ req'.dst \in Path
                        /\ CallsPair' /\ OnlyCopied' /\ RootAlike' /\ NoneForgotten'
                        /\ pc' = "done" => todo' = << >>
    BY DEF CopyInv
  <2>2. /\ pc = "copy" /\ req' = req /\ old' = old
        /\ code' = 500 \/ code' = 0
    BY <1>4, CopyEntryCases
  <2>3. code' = 0
    BY <2>1, <2>2 DEF Copying
  <2>4. Copying
    BY <2>1, <2>2 DEF Copying, Disjoint, Inv, NoCodeYet
  <2>5. CallsPair' /\ NoneForgotten' /\ OnlyCopied' /\ RootAlike'
    BY <1>4, <2>3, <2>4, CopyEntryForgetsNone
  <2>6. pc' = "done" => todo' = << >>
    BY <1>4, <2>2 DEF CopyEntry, FinishCopy
  <2>7. req'.src \in Path /\ req'.dst \in Path
    BY <2>2, <2>4 DEF CopyInv
  <2> QED
    BY <2>5, <2>6, <2>7
<1>5. CASE ReturnFromCopy
  <2>1. /\ pc = "copy" /\ todo = << >> /\ todo' = << >>
        /\ req' = req /\ old' = old /\ tree' = tree
    BY <1>5 DEF ReturnFromCopy, FinishCopy
  <2>2. Copying' => Copying
    BY <2>1 DEF Copying, Disjoint, Inv, NoCodeYet
  <2>3. (CallsPair /\ NoneForgotten /\ OnlyCopied /\ RootAlike)
          => (CallsPair /\ NoneForgotten /\ OnlyCopied /\ RootAlike)'
    BY <2>1, CopyStays
  <2> QED
    BY <2>1, <2>2, <2>3 DEF CopyInv
<1>6. CASE Respond
  BY <1>6 DEF Respond, NoRequest, CopyInv, Copying
<1>7. CASE UNCHANGED vars
  <2>1. /\ pc' = pc /\ todo' = todo /\ code' = code
        /\ req' = req /\ old' = old /\ tree' = tree
    BY <1>7 DEF vars
  <2>2. Copying' => Copying
    BY <2>1 DEF Copying, Disjoint
  <2>3. (CallsPair /\ NoneForgotten /\ OnlyCopied /\ RootAlike)
          => (CallsPair /\ NoneForgotten /\ OnlyCopied /\ RootAlike)'
    BY <2>1, CopyStays
  <2> QED
    BY <2>1, <2>2, <2>3 DEF CopyInv
<1> QED
  BY <1>1, <1>2, <1>3, <1>4, <1>5, <1>6, <1>7 DEF Next

(* A copy onto its source or below it never runs out of calls: one of them *)
(* goes onto its own source or below.                                      *)
IntoItself ==
  req.op = "copy" /\ IsPrefix(req.src, req.dst) =>
    /\ pc = "copy" => \E i \in 1 .. Len(todo) : IsPrefix(todo[i].from, todo[i].to)
    /\ pc = "done" => code \notin {200, 201}

(* Nothing lies below a file: such a call can only be made for a directory,*)
(* which then holds an entry on the way to its own copy.                   *)
LEMMA OwnCopyIsFound ==
  ASSUME NEW t, IsTree(t), NEW from \in Path, NEW to \in Seq(Name),
         IsPrefix(from, to), ~CopyFails(t, from, to)
  PROVE  /\ ~IsFile(t, from)
         /\ \E n \in Children(CopyNode(t, from, to), from) :
              n \in Name /\ IsPrefix(Append(from, n), Append(to, n))
<1> DEFINE target == CopyTarget(t, from, to)
           made   == CopyNode(t, from, to)
<1>1. from \in Seq(Name)
  BY PathIsSeq
<1>2. /\ target \in Path /\ Exists(t, from) /\ from # target
      /\ HasParentDir(t, target)
  BY DEF CopyFails
<1>3. ~IsFile(t, from)
  <2>1. SUFFICES ASSUME IsFile(t, from) PROVE FALSE
    OBVIOUS
  <2>2. ~IsDir(t, from)
    BY <2>1, TreeAssumption DEF IsFile, IsDir
  <2>3. CASE to \in Path /\ IsDir(t, to)
    <3>1. Exists(t, to) /\ from # to
      BY <2>2, <2>3, TreeAssumption DEF IsDir, Exists
    <3> QED
      BY <2>2, <2>3, <3>1, AncestorsAreDirs
  <2>4. CASE ~(to \in Path /\ IsDir(t, to))
    <3>1. target = to
      BY <2>4 DEF CopyTarget
    <3>2. to \in Path /\ from # to /\ HasParentDir(t, to)
      BY <1>2, <3>1
    <3>3. to # Top
      BY <1>1, <3>2, PrefixOfTop
    <3>4. IsDir(t, Front(to)) /\ Front(to) \in Path /\ IsPrefix(from, Front(to))
      BY <1>1, <3>2, <3>3, FrontIsPath, PrefixOfFront DEF HasParentDir
    <3>5. Exists(t, Front(to))
      BY <3>4, TreeAssumption DEF IsDir, Exists
    <3> QED
      BY <2>2, <3>4, <3>5, AncestorsAreDirs
  <2> QED
    BY <2>3, <2>4
<1>4. target = to
  BY <1>3 DEF CopyTarget
<1>5. IsTree(made) /\ to \in Path /\ made[to] = t[from]
  BY <1>2, <1>4, CopyNodeKeepsTree, CopyNodeWrites
<1>6. Exists(made, to)
  BY <1>2, <1>5 DEF Exists
<1> HIDE DEF made, target
<1>7. PICK v \in Seq(Name) : to = from \o v
  BY <1>1, BelowIsJoined
<1>8. v # << >>
  BY <1>1, <1>2, <1>4, <1>7, ConcatEmptySeq
<1> DEFINE n == Head(v)
<1>9. n \in Name /\ Tail(v) \in Seq(Name) /\ <<n>> \in Seq(Name) /\ v = <<n>> \o Tail(v)
  BY <1>7, <1>8, HeadIsFirst
<1> HIDE DEF n
<1>10. to = Append(from, n) \o Tail(v)
  BY <1>1, <1>7, <1>9, ConcatAssociative, AppendIsConcat, SMTT(60)
<1>11. n \in Children(made, from)
  BY <1>1, <1>5, <1>6, <1>9, <1>10, ChildOnTheWay
<1>12. IsPrefix(Append(from, n), Append(to, n))
  <2>1. Append(from, n) \in Seq(Name) /\ Append(to, n) \in Seq(Name)
    BY <1>1, <1>9, AppendProperties
  <2>2. IsPrefix(Append(from, n), to)
    BY <1>9, <1>10, <2>1, Joined
  <2>3. IsPrefix(to, Append(to, n))
    <3>1. Append(to, n) = to \o <<n>>
      BY <1>9, AppendIsConcat
    <3>2. IsPrefix(to, to \o <<n>>)
      BY <1>9, Joined
    <3> QED
      BY <3>1, <3>2
  <2> QED
    BY <1>1, <2>1, <2>2, <2>3, PrefixOrder
<1> QED
  BY <1>3, <1>9, <1>11, <1>12 DEF made

(* The call that goes below its own source stays, or makes another.        *)
LEMMA CopyEntryIntoItself ==
  ASSUME Inv, IntoItself, CopyEntry, IsPrefix(req.src, req.dst)
  PROVE  IntoItself'
<1> DEFINE from == Head(todo).from
           to   == Head(todo).to
           made == CopyNode(tree, from, to)
<1>1. /\ pc = "copy" /\ todo # << >> /\ req' = req /\ old' = old
      /\ from \in Path /\ to \in Seq(Name)
  BY CopyEntryCases
<1>2. todo \in Seq(Call) /\ IsTree(tree) /\ req.op = "copy"
  BY <1>1 DEF Inv, TypeOK, IsTree, CopyBelow
<1>3. /\ Len(todo) \in Nat \ {0}
      /\ Tail(todo) \in Seq(Call)
      /\ Len(Tail(todo)) = Len(todo) - 1
      /\ \A i \in 1 .. Len(Tail(todo)) : Tail(todo)[i] = todo[i + 1]
      /\ Head(todo) = todo[1]
  BY <1>1, <1>2, HeadTailProperties, EmptySeq
<1>4. PICK i \in 1 .. Len(todo) : IsPrefix(todo[i].from, todo[i].to)
  BY <1>1, <1>2 DEF IntoItself
<1>5. CASE FinishCopy(500)
  BY <1>1, <1>5 DEF FinishCopy, Status, IntoItself
<1>6. SUFFICES ASSUME ~CopyFails(tree, from, to), pc' = pc,
                      \E j \in 1 .. Len(todo') : IsPrefix(todo'[j].from, todo'[j].to)
               PROVE  IntoItself'
  <2>1. ASSUME ~CopyFails(tree, from, to), IsFile(tree, from), todo' = Tail(todo)
        PROVE  \E j \in 1 .. Len(todo') : IsPrefix(todo'[j].from, todo'[j].to)
    <3>1. i # 1
      BY <1>1, <1>2, <1>3, <1>4, <2>1, OwnCopyIsFound
    <3>2. i - 1 \in 1 .. Len(Tail(todo)) /\ (i - 1) + 1 = i
      BY <1>3, <3>1
    <3>3. Tail(todo)[i - 1] = todo[i]
      BY <1>3, <3>2
    <3> QED
      BY <1>4, <2>1, <3>2, <3>3
  <2>2. ASSUME ~CopyFails(tree, from, to), NEW entry \in SetToSeqs(Children(made, from)),
               todo' = CallsFor(entry, from, to) \o Tail(todo)
        PROVE  \E j \in 1 .. Len(todo') : IsPrefix(todo'[j].from, todo'[j].to)
    <3> DEFINE calls == CallsFor(entry, from, to)
    <3>1. /\ entry \in Seq(Name)
          /\ \A k \in 1 .. Len(entry) : entry[k] \in Children(made, from)
      BY ListingIsSeq
    <3>2. calls \in Seq(Call) /\ Len(calls) = Len(entry)
      <4>1. \A k \in 1 .. Len(entry) : Append(from, entry[k]) \in Path
        BY <3>1 DEF Children
      <4> QED
        BY <1>1, <3>1, <4>1, CallsAreCalls
    <3>3. \A k \in 1 .. Len(entry) : /\ calls[k].from = Append(from, entry[k])
                                     /\ calls[k].to = Append(to, entry[k])
      BY DEF CallsFor
    <3> HIDE DEF calls
    <3>4. /\ Len(calls) \in Nat /\ Len(Tail(todo)) \in Nat
          /\ Len(todo') = Len(calls) + Len(Tail(todo))
          /\ \A k \in 1 .. Len(calls) + Len(Tail(todo)) :
               todo'[k] = IF k <= Len(calls) THEN calls[k] ELSE Tail(todo)[k - Len(calls)]
      BY <1>3, <2>2, <3>2, ConcatProperties, LenProperties, ZenonT(60) DEF calls
    <3>5. CASE i = 1
      <4>1. PICK n \in Children(made, from) : IsPrefix(Append(from, n), Append(to, n))
        BY <1>1, <1>2, <1>3, <1>4, <2>2, <3>5, OwnCopyIsFound
      <4>2. PICK k \in 1 .. Len(entry) : entry[k] = n
        BY ListingIsAll
      <4>3. k \in 1 .. Len(todo') /\ todo'[k] = calls[k]
        BY <3>2, <3>4, <4>2
      <4> QED
        BY <3>3, <4>1, <4>2, <4>3
    <3>6. CASE i # 1
      <4> DEFINE j == Len(calls) + (i - 1)
      <4>1. /\ i - 1 \in 1 .. Len(Tail(todo)) /\ (i - 1) + 1 = i
            /\ j \in 1 .. Len(todo') /\ j \in 1 .. Len(calls) + Len(Tail(todo))
            /\ ~(j <= Len(calls)) /\ j - Len(calls) = i - 1
        BY <1>3, <3>4, <3>6
      <4>2. todo'[j] = Tail(todo)[i - 1]
        BY <3>4, <4>1
      <4>3. Tail(todo)[i - 1] = todo[i]
        BY <1>3, <4>1
      <4> QED
        BY <1>4, <4>1, <4>2, <4>3
    <3> QED
      BY <3>5, <3>6
  <2> QED
    BY <1>5, <2>1, <2>2, <1>6 DEF CopyEntry, CallsFor
<1> QED
  BY <1>1, <1>6 DEF IntoItself

LEMMA IntoItselfStep ==
  ASSUME Inv, IntoItself, [Next]_vars
  PROVE  IntoItself'
<1>1. ASSUME NEW r \in Request, StartCopy(r) PROVE IntoItself'
  <2>1. /\ pc' = "copy" /\ req' = r
        /\ todo' = << [from |-> r.src, to |-> r.dst] >>
    BY <1>1 DEF StartCopy
  <2>2. 1 \in 1 .. Len(todo') /\ todo'[1].from = r.src /\ todo'[1].to = r.dst
    BY <2>1
  <2> QED
    BY <2>1, <2>2 DEF IntoItself
<1>2. ASSUME NEW r \in Request, Refuse(r) PROVE IntoItself'
  <2>1. Refusal(r) \in {400, 403, 404, 409}
    BY <1>2 DEF Refuse, Accepted, Refusal
  <2>2. code' \in {400, 403, 404, 409} /\ pc' = "done"
    BY <1>2, <2>1 DEF Refuse, AnswerAtOnce, Status
  <2>3. code' \notin {200, 201}
    BY <2>2
  <2> QED
    BY <2>2, <2>3 DEF IntoItself
<1>3. ASSUME NEW r \in Request, MoveFile(r) \/ DeleteFile(r) \/ MakeDirectory(r)
      PROVE  IntoItself'
  <2>1. req'.op # "copy"
    BY <1>3 DEF MoveFile, DeleteFile, MakeDirectory, AnswerAtOnce
  <2> QED
    BY <2>1 DEF IntoItself
<1>4. CASE CopyEntry
  <2>1. CASE IsPrefix(req.src, req.dst)
    BY <1>4, <2>1, CopyEntryIntoItself
  <2>2. CASE ~IsPrefix(req.src, req.dst)
    BY <1>4, <2>2 DEF CopyEntry, IntoItself
  <2> QED
    BY <2>1, <2>2
<1>5. CASE ReturnFromCopy
  <2>1. /\ pc = "copy" /\ req' = req /\ Len(todo) = 0 /\ req.op = "copy"
    BY <1>5 DEF ReturnFromCopy, Inv, CopyBelow
  <2>2. ~IsPrefix(req.src, req.dst)
    BY <2>1 DEF IntoItself
  <2> QED
    BY <2>1, <2>2 DEF IntoItself
<1>6. CASE Respond
  BY <1>6 DEF Respond, NoRequest, IntoItself
<1>7. CASE UNCHANGED vars
  BY <1>7 DEF vars, IntoItself
<1> QED
  BY <1>1, <1>2, <1>3, <1>4, <1>5, <1>6, <1>7 DEF Next

(* When no call is left, everything is copied.                             *)
LEMMA CopyInvImplies == Inv /\ CopyInv /\ IntoItself => CopyIsComplete
<1> SUFFICES ASSUME Inv, CopyInv, IntoItself,
                    pc = "done", req.op = "copy", code \in {200, 201},
                    ~IsPrefix(req.dst, req.src),
                    NEW s \in Path, req.src \o s \in Path, Exists(old, req.src \o s)
             PROVE  /\ tree[req.src \o s] = old[req.src \o s]
                    /\ \/ tree[req.dst \o s] = old[req.src \o s]
                       \/ /\ IsFile(old, req.src \o s) /\ IsDir(old, req.dst \o s)
                          /\ s # << >>
                          /\ tree[Append(req.dst \o s, Last(s))] = old[req.src \o s]
  BY DEF CopyIsComplete, Whole, IntoItself
<1>1. Copying
  BY DEF Copying, Disjoint, IntoItself
<1>2. s \in Seq(Name) /\ todo = << >> /\ req.src \in Path /\ req.dst \in Path
  BY <1>1, PathIsSeq DEF CopyInv
<1>3. tree[req.src \o s] = old[req.src \o s]
  BY <1>1, <1>2, SourceKept
<1>4. ~Awaits(todo, s)
  <2>1. Len(todo) = 0
    BY <1>2
  <2> QED
    BY <2>1 DEF Awaits
<1>5. Copied(s)
  BY <1>1, <1>2, <1>4 DEF CopyInv, NoneForgotten
<1> QED
  BY <1>3, <1>5 DEF Copied

(* A copy that reports success did not go onto its source or below it.     *)
(* Unless it went onto a directory above its source, it has copied every   *)
(* entry of it, however deep, in whatever order the host lists them.       *)
THEOREM CopySucceedsWhole == Spec => []CopyIsComplete
<1>1. Init => CopyInv /\ IntoItself
  BY DEF Init, NoRequest, CopyInv, Copying, IntoItself
<1> QED
  BY <1>1, CopyInvStep, IntoItselfStep, CopyInvImplies, InitInv, NextInv, PTL DEF Spec
=============================================================================
