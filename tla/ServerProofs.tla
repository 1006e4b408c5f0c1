---------------------------- MODULE ServerProofs ----------------------------
(***************************************************************************)
(* The life of the server, for any number of clients, any limit of         *)
(* descriptors, any tree and working directory: the handlers behave as     *)
(* FileApi says whatever connects and disconnects around them              *)
(* (ServerServesFiles), a client waits or is served but never both and the *)
(* working directory is a directory, the root if that is what was served   *)
(* (ServerTypeCorrect), and only a request carried out on the root or on   *)
(* the working directory, or on what they lie in, can end the accept loop  *)
(* (OnlyNamingStops).                                                      *)
(*                                                                         *)
(* The last is not inductive alone.  start_accept ends when one of the two *)
(* directories is gone, so the invariant says that both are there until    *)
(* such a request.  That a handler takes a directory away only when named  *)
(* rests on what FileApiProofs proves of the handlers: nothing but what a  *)
(* request names changes (NoCollateral), the paths a request names lie     *)
(* below the root (AcceptedPaths), the calls of a copy in progress stay    *)
(* below its destination (CopyBelow), and what is moved is at its new      *)
(* place (RenameMoves).                                                    *)
(***************************************************************************)
EXTENDS Server, FileApiProofs

(* No client waits in the backlog twice.                                   *)
NoClientTwice ==
  \A i, j \in 1 .. Len(backlog) : backlog[i] = backlog[j] => i = j

(* Until one of them is named, both directories are there and the accept   *)
(* loop goes on.                                                           *)
ThereUnlessNamed ==
  ~named => IsDir(tree, RootDir) /\ cwd # NoPath /\ acceptor \in {"accepting", "failed"}

ServerInv == Inv /\ ServerTypeOK /\ NoClientTwice /\ ThereUnlessNamed

-----------------------------------------------------------------------------
(* Range is what a sequence holds; the empty one holds nothing.             *)
LEMMA RangeIsPointwise ==
  ASSUME NEW C, NEW s \in Seq(C)
  PROVE  /\ \A i \in 1 .. Len(s) : s[i] \in Range(s)
         /\ \A x \in Range(s) : \E i \in 1 .. Len(s) : x = s[i]
BY RangeEquality, Zenon

LEMMA RangeOfEmpty == Range(<< >>) = {}
<1>1. DOMAIN << >> = {}
  OBVIOUS
<1> QED
  BY <1>1 DEF Range

(* Appending a client that does not wait keeps the backlog free of doubles. *)
LEMMA AppendKeepsBacklog ==
  ASSUME NEW C, NEW s \in Seq(C), NEW c \in C, c \notin Range(s),
         \A i, j \in 1 .. Len(s) : s[i] = s[j] => i = j
  PROVE  /\ Append(s, c) \in Seq(C)
         /\ Range(Append(s, c)) = Range(s) \union {c}
         /\ \A i, j \in 1 .. Len(Append(s, c)) :
              Append(s, c)[i] = Append(s, c)[j] => i = j
<1> DEFINE t == Append(s, c)
<1>1. /\ t \in Seq(C) /\ Len(s) \in Nat /\ Len(t) = Len(s) + 1
      /\ DOMAIN s = 1 .. Len(s) /\ DOMAIN t = 1 .. Len(t)
      /\ t[Len(s) + 1] = c
      /\ \A i \in 1 .. Len(s) : t[i] = s[i]
  BY AppendProperties, LenProperties
<1> HIDE DEF t
<1>2. \A i \in 1 .. Len(s) : s[i] # c
  BY <1>1, RangeIsPointwise
<1>3. \A i \in 1 .. Len(t) : i \in 1 .. Len(s) \/ i = Len(s) + 1
  BY <1>1
<1>4. Range(t) = Range(s) \union {c}
  <2>1. ASSUME NEW x \in Range(t) PROVE x \in Range(s) \union {c}
    <3>1. PICK i \in 1 .. Len(t) : x = t[i]
      BY <1>1, RangeIsPointwise
    <3> QED
      BY <3>1, <1>1, <1>3, RangeIsPointwise
  <2>2. ASSUME NEW x \in Range(s) PROVE x \in Range(t)
    <3>1. PICK i \in 1 .. Len(s) : x = s[i]
      BY <1>1, RangeIsPointwise
    <3>2. i \in 1 .. Len(t) /\ x = t[i]
      BY <3>1, <1>1
    <3> QED
      BY <1>1, <3>2, RangeIsPointwise
  <2>3. c \in Range(t)
    <3>1. Len(s) + 1 \in DOMAIN t
      BY <1>1
    <3> QED
      BY <3>1, <1>1, RangeIsPointwise
  <2> QED
    BY <2>1, <2>2, <2>3
<1>5. ASSUME NEW i \in 1 .. Len(t), NEW j \in 1 .. Len(t), t[i] = t[j]
      PROVE  i = j
  BY <1>1, <1>2, <1>3, <1>5
<1> QED
  BY <1>1, <1>4, <1>5 DEF t

(* Taking the first client out leaves the others, each once.               *)
LEMMA TailKeepsBacklog ==
  ASSUME NEW C, NEW s \in Seq(C), s # << >>,
         \A i, j \in 1 .. Len(s) : s[i] = s[j] => i = j
  PROVE  /\ Head(s) \in C /\ Tail(s) \in Seq(C)
         /\ Range(Tail(s)) \subseteq Range(s) \ {Head(s)}
         /\ \A i, j \in 1 .. Len(Tail(s)) : Tail(s)[i] = Tail(s)[j] => i = j
<1> DEFINE t == Tail(s)
<1>1. /\ Head(s) \in C /\ t \in Seq(C)
      /\ Len(s) \in Nat \ {0} /\ Len(t) = Len(s) - 1
      /\ \A i \in 1 .. Len(t) : t[i] = s[i + 1]
      /\ DOMAIN s = 1 .. Len(s) /\ DOMAIN t = 1 .. Len(t)
      /\ Head(s) = s[1]
  BY HeadTailProperties, LenProperties, EmptySeq
<1> HIDE DEF t
<1>2. \A i \in 1 .. Len(t) : i + 1 \in 1 .. Len(s) /\ i + 1 # 1
  BY <1>1
<1>3. ASSUME NEW x \in Range(t) PROVE x \in Range(s) \ {Head(s)}
  <2>1. PICK i \in 1 .. Len(t) : x = t[i]
    BY <1>1, RangeIsPointwise
  <2>2. x = s[i + 1] /\ i + 1 \in DOMAIN s
    BY <2>1, <1>1, <1>2
  <2>3. x \in Range(s)
    BY <2>2, RangeIsPointwise
  <2>4. s[i + 1] # s[1]
    BY <1>1, <1>2
  <2> QED
    BY <2>2, <2>3, <2>4, <1>1
<1>4. ASSUME NEW i \in 1 .. Len(t), NEW j \in 1 .. Len(t), t[i] = t[j]
      PROVE  i = j
  <2>1. i + 1 = j + 1
    BY <1>1, <1>2, <1>4
  <2> QED
    BY <2>1
<1> QED
  BY <1>1, <1>3, <1>4 DEF t

-----------------------------------------------------------------------------
(* A path below the root on the way to the root is the root.               *)
LEMMA OnlyRoot ==
  ASSUME NEW p \in Path, IsPrefix(RootDir, p), IsPrefix(p, RootDir)
  PROVE  p = RootDir
BY ApiAssumption, PathIsSeq, PrefixOrder

(* Whether the step of a handler moves a file or directory somewhere else. *)
Moves ==
  pc = "idle" /\ req'.op = "move" /\ code' \in {200, 201} /\ req'.src # req'.dst

(* If it does, it is move_file that renames.                               *)
LEMMA MovesRenames ==
  ASSUME Inv, Next, Moves
  PROVE  \E r \in Request :
           /\ r.op = "move" /\ r.op \in Binary /\ Accepted(r) /\ req' = r
           /\ CanRename(Cleared(r), r.src, r.dst) /\ RenameFits(Cleared(r), r.src, r.dst)
           /\ tree' = Rename(Cleared(r), r.src, r.dst)
<1>1. ASSUME NEW r \in Request, Refuse(r) PROVE FALSE
  <2>1. Refusal(r) \in {400, 403, 404, 409}
    BY <1>1 DEF Refuse, Accepted, Refusal
  <2>2. code' \in {400, 403, 404, 409}
    BY <1>1, <2>1 DEF Refuse, AnswerAtOnce, Status
  <2> QED
    BY <2>2 DEF Moves
<1>2. ASSUME NEW r \in Request, DeleteFile(r) \/ MakeDirectory(r) \/ StartCopy(r)
      PROVE  FALSE
  BY <1>2 DEF DeleteFile, MakeDirectory, StartCopy, AnswerAtOnce, Moves
<1>3. PICK r \in Request : MoveFile(r)
  BY <1>1, <1>2 DEF Next, CopyEntry, ReturnFromCopy, Respond, Moves
<1> QED
  BY <1>3 DEF MoveFile, AnswerAtOnce, Status, Moves, Binary

(* What was below the source of the move is a directory at its new place.  *)
LEMMA MovesAlong ==
  ASSUME Inv, Next, Moves, NEW p \in Path, IsDir(tree, p), IsPrefix(req'.src, p)
  PROVE  /\ Origin(p, req'.dst, req'.src) \in Path
         /\ IsDir(tree', Origin(p, req'.dst, req'.src))
<1>1. PICK r \in Request :
        /\ r.op = "move" /\ r.op \in Binary /\ Accepted(r) /\ req' = r
        /\ CanRename(Cleared(r), r.src, r.dst) /\ RenameFits(Cleared(r), r.src, r.dst)
        /\ tree' = Rename(Cleared(r), r.src, r.dst)
  BY MovesRenames
<1> DEFINE cleared == Cleared(r)
<1>2. r.op = "move" /\ r.op \in Binary /\ Accepted(r) /\ req' = r
  BY <1>1
<1>3. /\ r.src \in Path \ {Top} /\ r.dst \in Path \ {Top}
      /\ r.src \in Seq(Name) /\ r.dst \in Seq(Name) /\ p \in Seq(Name)
      /\ Len(r.src) \in Nat /\ Len(r.dst) \in Nat
  BY <1>2, AcceptedPaths, PathIsSeq, LenProperties
<1>4. /\ CanRename(cleared, r.src, r.dst) /\ RenameFits(cleared, r.src, r.dst)
      /\ tree' = Rename(cleared, r.src, r.dst)
  BY <1>1
<1>5. IsTree(cleared) /\ cleared[p] = tree[p]
  BY <1>2, <1>4, ClearedKeepsTree, ClearedKeepsMoved DEF Inv
<1> HIDE DEF cleared
<1>6. PICK s \in Seq(Name) : p = r.src \o s
  BY <1>2, <1>3, BelowIsJoined
<1>7. Len(p) = Len(r.src) + Len(s) /\ Len(s) \in Nat /\ Len(p) <= MaxDepth
  BY <1>3, <1>6, Joined, PathIsSeq
<1>8. Len(r.dst) + Len(p) <= MaxDepth + Len(r.src)
  BY <1>2, <1>4, <1>5, TreeAssumption DEF RenameFits, IsDir, Exists
<1>9. s \in Path
  <2>1. Len(s) <= MaxDepth
    BY <1>3, <1>7, TreeAssumption
  <2> QED
    BY <2>1, PathIsSeq
<1>10. r.dst \o s \in Path
  <2>1. r.dst \o s \in Seq(Name) /\ Len(r.dst \o s) = Len(r.dst) + Len(s)
    BY <1>3, Joined
  <2>2. \A a, b, c, d, m \in Nat : b = a + c /\ d + b <= m + a => d + c <= m
    OBVIOUS
  <2>3. Len(p) \in Nat
    BY <1>3, LenProperties
  <2>4. Len(r.dst \o s) <= MaxDepth
    BY <1>3, <1>7, <1>8, <2>1, <2>2, <2>3, TreeAssumption, Zenon
  <2> QED
    BY <2>1, <2>4, PathIsSeq
<1>11. tree'[r.dst \o s] = tree[p]
  <2>1. r.src \o s \in Path
    BY <1>6
  <2>2. Rename(cleared, r.src, r.dst)[r.dst \o s] = cleared[r.src \o s]
    BY <1>3, <1>4, <1>5, <1>9, <1>10, <2>1, RenameMoves
  <2> QED
    BY <1>4, <1>5, <1>6, <2>2
<1>12. Origin(p, r.dst, r.src) = r.dst \o s
  BY <1>3, <1>6, OriginOfJoined
<1> QED
  BY <1>2, <1>10, <1>11, <1>12 DEF IsDir

(* Where the working directory goes is a directory, if it goes anywhere.   *)
LEMMA WorkingDirIsDir ==
  ASSUME Inv, Next, NEW p \in Path, IsDir(tree, p)
  PROVE  /\ WorkingDir(p) \in Path \union {NoPath}
         /\ WorkingDir(p) # NoPath => IsDir(tree', WorkingDir(p))
<1>1. CASE Moves /\ IsPrefix(req'.src, p)
  BY <1>1, MovesAlong, ApiAssumption DEF WorkingDir, Moves
<1>2. CASE ~(Moves /\ IsPrefix(req'.src, p))
  BY <1>2, ApiAssumption DEF WorkingDir, Moves
<1> QED
  BY <1>1, <1>2

(* A handler that takes a directory away was told to.                      *)
LEMMA GoesOnlyIfTaken ==
  ASSUME Inv, Next, NEW p \in Path, IsDir(tree, p), WorkingDir(p) = NoPath
  PROVE  Takes(req', p) /\ code' \notin 400 .. 499
<1>1. Inv' /\ p # NoPath
  BY NextInv, ApiAssumption
<1>2. ~(Moves /\ IsPrefix(req'.src, p))
  BY <1>1, MovesAlong, ApiAssumption DEF WorkingDir, Moves
<1>3. (Moves /\ IsPrefix(req'.dst, p)) \/ ~IsDir(tree', p)
  BY <1>1, <1>2 DEF WorkingDir, Moves
<1>4. CASE Moves /\ IsPrefix(req'.dst, p)
  <2>1. \A c \in {200, 201} : c \notin 400 .. 499
    OBVIOUS
  <2>2. code' \notin 400 .. 499
    BY <1>4, <2>1 DEF Moves
  <2> QED
    BY <1>4, <2>2 DEF Moves, Takes, Binary
<1>5. CASE ~IsDir(tree', p)
  <2>1. tree'[p] # tree[p]
    BY <1>5 DEF IsDir
  <2>2. ASSUME NEW r \in Request, req' = r, old' = tree, r.op # "mkdir",
               r.op = "move" => pc = "idle"
        PROVE  Takes(req', p) /\ code' \notin 400 .. 499
    <3>1. code' \notin 400 .. 499 /\ MayChange(p)'
      BY <1>1, <2>1, <2>2 DEF Inv, NoCollateral
    <3>2. CASE req'.op = "move" /\ code' \in {200, 201} /\ IsPrefix(req'.src, p)
      <4>1. req'.src = req'.dst
        BY <1>2, <2>2, <3>2 DEF Moves
      <4> QED
        BY <3>1, <3>2, <4>1 DEF Takes, Binary
    <3> QED
      BY <2>2, <3>1, <3>2 DEF Takes, MayChange
  <2>3. ASSUME NEW r \in Request, Refuse(r) PROVE FALSE
    BY <2>1, <2>3 DEF Refuse, AnswerAtOnce
  <2>4. ASSUME NEW r \in Request, MoveFile(r) \/ DeleteFile(r) \/ StartCopy(r)
        PROVE  Takes(req', p) /\ code' \notin 400 .. 499
    BY <2>2, <2>4 DEF MoveFile, DeleteFile, StartCopy, AnswerAtOnce
  <2>5. ASSUME NEW r \in Request, MakeDirectory(r) PROVE FALSE
    <3>1. tree' \in {tree, CreateDirectory(tree, r.src), CreateDirectories(tree, r.src)}
      BY <2>5 DEF MakeDirectory, AnswerAtOnce
    <3>2. tree \in Tree
      BY DEF Inv, TypeOK
    <3>3. tree'[p] \in {tree[p], Dir}
      BY <3>1, <3>2 DEF CreateDirectory, CreateDirectories, Tree
    <3> QED
      BY <1>5, <3>3 DEF IsDir
  <2>6. ASSUME CopyEntry \/ ReturnFromCopy
        PROVE  Takes(req', p) /\ code' \notin 400 .. 499
    <3>1. pc = "copy" /\ req' = req /\ old' = old
      BY <2>6 DEF CopyEntry, ReturnFromCopy
    <3>2. req.op = "copy" /\ req.op \in Binary
      BY <3>1 DEF Inv, CopyBelow, Binary
    <3>3. tree[p] # old[p] \/ tree'[p] # old'[p]
      BY <2>1, <3>1
    <3>4. IsPrefix(req.dst, p)
      BY <1>1, <3>1, <3>2, <3>3 DEF Inv, NoCollateral, MayChange
    <3>5. code' \in {0, 200, 201, 500}
      BY <2>6, <3>1, <3>2 DEF CopyEntry, ReturnFromCopy, FinishCopy, Status, Inv, NoCodeYet
    <3>6. \A c \in {0, 200, 201, 500} : c \notin 400 .. 499
      OBVIOUS
    <3> QED
      BY <3>1, <3>2, <3>4, <3>5, <3>6 DEF Takes
  <2>7. CASE Respond
    BY <2>1, <2>7 DEF Respond
  <2> QED
    BY <2>3, <2>4, <2>5, <2>6, <2>7 DEF Next
<1> QED
  BY <1>3, <1>4, <1>5

(* The root is not moved: there is no place for it but below itself.       *)
LEMMA RootStaysOrGoes ==
  ASSUME Inv, Next
  PROVE  /\ WorkingDir(RootDir) \in {RootDir, NoPath}
         /\ WorkingDir(RootDir) # NoPath => IsDir(tree', RootDir)
<1>1. RootDir \in Path /\ RootDir # NoPath
  BY ApiAssumption
<1>2. ASSUME Moves, IsPrefix(req'.src, RootDir) PROVE FALSE
  <2>1. PICK r \in Request :
          /\ r.op \in Binary /\ Accepted(r) /\ req' = r
          /\ CanRename(Cleared(r), r.src, r.dst)
    BY <1>2, MovesRenames
  <2>2. /\ r.src \in Path /\ IsPrefix(RootDir, r.src)
        /\ IsPrefix(RootDir, r.dst)
    BY <2>1, AcceptedPaths
  <2>3. r.src = RootDir
    BY <1>2, <2>1, <2>2, OnlyRoot
  <2> QED
    BY <1>2, <2>1, <2>2, <2>3 DEF CanRename, Moves
<1> QED
  BY <1>1, <1>2 DEF WorkingDir, Moves

-----------------------------------------------------------------------------
(* The server starts in the invariant.                                     *)
LEMMA ServerInitInv == ServerInit => ServerInv
<1> SUFFICES ASSUME ServerInit PROVE ServerInv
  OBVIOUS
<1>1. Inv
  BY InitInv DEF ServerInit
<1>2. Range(backlog) = {} /\ backlog \in Seq(Client)
  <2>1. backlog = << >>
    BY DEF ServerInit
  <2>2. Range(backlog) = {}
    BY <2>1, RangeOfEmpty, Zenon
  <2> QED
    BY <2>1, <2>2, EmptySeq
<1>3. ServerTypeOK
  BY <1>2, ApiAssumption DEF ServerInit, ServerTypeOK
<1>4. NoClientTwice
  BY DEF ServerInit, NoClientTwice
<1>5. ThereUnlessNamed
  BY ApiAssumption, PathIsSeq, PrefixOrder DEF ServerInit, Init, ThereUnlessNamed
<1> QED
  BY <1>1, <1>3, <1>4, <1>5 DEF ServerInv

(* What happens around the handlers leaves the files and the request.      *)
LEMMA FilesUntouched ==
  ASSUME Inv, UNCHANGED vars
  PROVE  Inv' /\ tree' = tree
<1>1. Inv'
  BY NextInv
<1> QED
  BY <1>1 DEF vars

(* A new connection waits behind the others.                               *)
LEMMA ConnectStep ==
  ASSUME ServerInv, NEW c \in Client, Connect(c)
  PROVE  ServerInv'
<1>1. Inv'
  BY FilesUntouched DEF ServerInv, Connect
<1>2. /\ backlog' \in Seq(Client)
      /\ Range(backlog') = Range(backlog) \union {c}
      /\ NoClientTwice'
  BY AppendKeepsBacklog DEF ServerInv, ServerTypeOK, NoClientTwice, Connect
<1>3. ServerTypeOK'
  BY <1>2 DEF ServerInv, ServerTypeOK, Connect, vars, IsDir
<1>4. ThereUnlessNamed'
  BY DEF ServerInv, ThereUnlessNamed, Connect, vars, IsDir
<1> QED
  BY <1>1, <1>2, <1>3, <1>4 DEF ServerInv

(* A session that ends frees its client.                                   *)
LEMMA EndSessionStep ==
  ASSUME ServerInv, NEW c \in Client, EndSession(c)
  PROVE  ServerInv'
<1>1. Inv'
  BY FilesUntouched DEF ServerInv, EndSession
<1>2. ServerTypeOK' /\ NoClientTwice' /\ ThereUnlessNamed'
  BY DEF ServerInv, ServerTypeOK, NoClientTwice, ThereUnlessNamed, EndSession, vars, IsDir
<1> QED
  BY <1>1, <1>2 DEF ServerInv

(* The accept loop takes one connection, and ends only without the root or *)
(* the working directory.                                                  *)
LEMMA AcceptStep ==
  ASSUME ServerInv, Accept \/ AcceptThrows
  PROVE  ServerInv'
<1>1. /\ UNCHANGED vars /\ UNCHANGED <<given, cwd, named>>
      /\ acceptor = "accepting" /\ backlog # << >> /\ backlog' = Tail(backlog)
  BY DEF Accept, AcceptThrows, Accepting
<1>2. Inv' /\ tree' = tree
  BY <1>1, FilesUntouched DEF ServerInv
<1>3. /\ Head(backlog) \in Client /\ backlog' \in Seq(Client)
      /\ Range(backlog') \subseteq Range(backlog) \ {Head(backlog)}
      /\ NoClientTwice'
  BY <1>1, TailKeepsBacklog DEF ServerInv, ServerTypeOK, NoClientTwice
<1>4. \/ acceptor' = acceptor /\ open' = open \union {Head(backlog)}
      \/ acceptor' = "dead" /\ open' = open
  BY DEF Accept, AcceptThrows
<1>5. ServerTypeOK'
  BY <1>1, <1>2, <1>3, <1>4 DEF ServerInv, ServerTypeOK, IsDir
<1>6. ThereUnlessNamed'
  <2>1. SUFFICES ASSUME ~named
                 PROVE  /\ IsDir(tree', RootDir) /\ cwd' # NoPath
                        /\ acceptor' \in {"accepting", "failed"}
    BY <1>1 DEF ThereUnlessNamed
  <2>2. IsDir(tree, RootDir) /\ cwd # NoPath /\ Exists(tree, RootDir)
    BY <2>1, TreeAssumption DEF ServerInv, ThereUnlessNamed, IsDir, Exists
  <2>3. acceptor' = "accepting"
    BY <1>1, <2>2 DEF Accept, AcceptThrows, CanStartSession
  <2> QED
    BY <1>1, <1>2, <2>2, <2>3
<1> QED
  BY <1>2, <1>3, <1>5, <1>6 DEF ServerInv

(* Without a descriptor the accept loop goes round.                        *)
LEMMA RetryStep ==
  ASSUME ServerInv, AcceptFails \/ Retry
  PROVE  ServerInv'
<1>1. /\ UNCHANGED vars /\ UNCHANGED <<given, cwd, backlog, open, named>>
      /\ acceptor' \in {"accepting", "failed"}
  BY DEF AcceptFails, Retry
<1>2. Inv' /\ tree' = tree
  BY <1>1, FilesUntouched DEF ServerInv
<1> QED
  BY <1>1, <1>2 DEF ServerInv, ServerTypeOK, NoClientTwice, ThereUnlessNamed, IsDir

(* A handler leaves the root and the working directory unless it was told  *)
(* to take them.                                                           *)
LEMMA HandlerStep ==
  ASSUME ServerInv, FileStep
  PROVE  ServerInv'
<1>1. Inv /\ Next /\ cwd' = WorkingDir(cwd) /\ UNCHANGED <<given, acceptor, backlog, open>>
  BY DEF ServerInv, FileStep
<1>2. Inv'
  BY <1>1, NextInv
<1>3. named' \in BOOLEAN /\ (named => named')
  BY Zenon DEF FileStep, ServerInv, ServerTypeOK
<1>4. /\ cwd' \in Path \union {NoPath}
      /\ cwd' # NoPath => IsDir(tree', cwd')
  <2>1. CASE cwd = NoPath
    BY <1>1, <2>1 DEF WorkingDir
  <2>2. CASE cwd # NoPath
    <3>1. cwd \in Path /\ IsDir(tree, cwd)
      BY <2>2 DEF ServerInv, ServerTypeOK
    <3> QED
      BY <1>1, <3>1, WorkingDirIsDir
  <2> QED
    BY <2>1, <2>2
<1>5. ~given' => cwd' \in {RootDir, NoPath}
  <2>1. SUFFICES ASSUME ~given PROVE cwd' \in {RootDir, NoPath}
    BY <1>1
  <2>2. cwd \in {RootDir, NoPath}
    BY <2>1 DEF ServerInv, ServerTypeOK
  <2>3. WorkingDir(RootDir) \in {RootDir, NoPath}
    BY <1>1, RootStaysOrGoes
  <2>4. WorkingDir(NoPath) = NoPath
    BY DEF WorkingDir
  <2> QED
    BY <1>1, <2>2, <2>3, <2>4
<1>6. ServerTypeOK' /\ NoClientTwice'
  BY <1>1, <1>3, <1>4, <1>5 DEF ServerInv, ServerTypeOK, NoClientTwice
<1>7. ASSUME ~named'
      PROVE  IsDir(tree', RootDir) /\ cwd' # NoPath /\ acceptor' \in {"accepting", "failed"}
  <2>1. ~named
    BY <1>3, <1>7
  <2>2. ASSUME NEW p \in {RootDir, cwd} PROVE ~(Takes(req', p) /\ code' \notin 400 .. 499)
    BY <1>7, <2>2, Zenon DEF FileStep
  <2>3. /\ IsDir(tree, RootDir) /\ RootDir \in Path
        /\ cwd \in Path /\ IsDir(tree, cwd)
        /\ acceptor \in {"accepting", "failed"}
    BY <2>1, ApiAssumption DEF ServerInv, ServerTypeOK, ThereUnlessNamed
  <2>4. WorkingDir(RootDir) # NoPath /\ WorkingDir(cwd) # NoPath
    BY <1>1, <2>2, <2>3, GoesOnlyIfTaken
  <2>5. IsDir(tree', RootDir)
    BY <1>1, <2>4, RootStaysOrGoes
  <2> QED
    BY <1>1, <2>3, <2>4, <2>5
<1>8. ThereUnlessNamed'
  BY <1>7 DEF ThereUnlessNamed
<1> QED
  BY <1>2, <1>6, <1>8 DEF ServerInv

(* The process ends only after the accept loop.                            *)
LEMMA ExitStep ==
  ASSUME ServerInv, Exit
  PROVE  ServerInv'
<1>1. Inv'
  BY FilesUntouched DEF ServerInv, Exit
<1>2. Range(backlog') = {} /\ backlog' \in Seq(Client) /\ NoClientTwice'
  <2>1. backlog' = << >>
    BY DEF Exit
  <2>2. Range(backlog') = {}
    BY <2>1, RangeOfEmpty, Zenon
  <2> QED
    BY <2>1, <2>2, EmptySeq DEF NoClientTwice
<1>3. ServerTypeOK'
  BY <1>2 DEF ServerInv, ServerTypeOK, Exit, vars, IsDir
<1>4. ThereUnlessNamed'
  BY DEF ServerInv, ThereUnlessNamed, Exit
<1> QED
  BY <1>1, <1>2, <1>3, <1>4 DEF ServerInv

(* Every step of the server keeps the invariant.                           *)
LEMMA ServerNextInv == ServerInv /\ [ServerNext]_serverVars => ServerInv'
<1> SUFFICES ASSUME ServerInv, [ServerNext]_serverVars PROVE ServerInv'
  OBVIOUS
<1>1. CASE UNCHANGED serverVars
  <2>1. Inv'
    BY <1>1, FilesUntouched DEF ServerInv, serverVars, vars
  <2> QED
    BY <1>1, <2>1 DEF serverVars, ServerInv, ServerTypeOK, NoClientTwice, ThereUnlessNamed, IsDir
<1> QED
  BY <1>1, ConnectStep, EndSessionStep, AcceptStep, RetryStep, HandlerStep, ExitStep
     DEF ServerNext

-----------------------------------------------------------------------------
(* Every variable keeps its type, no client waits and is served at once,   *)
(* however many connect and in whatever order, the working directory is a  *)
(* directory wherever it was moved, and all sessions serve the same root.  *)
THEOREM ServerTypeCorrect == ServerSpec => []ServerTypeOK
<1>1. ServerInv => ServerTypeOK
  BY DEF ServerInv
<1> QED
  BY <1>1, ServerInitInv, ServerNextInv, PTL DEF ServerSpec

(* The accept loop ends, and the process with it, only after a request was *)
(* carried out on the served root or the working directory, or on what     *)
(* they lie in: it deleted or replaced it.                                 *)
THEOREM OnlyNamingStops == ServerSpec => []StopsOnlyIfNamed
<1>1. ServerInv => StopsOnlyIfNamed
  BY DEF ServerInv, ThereUnlessNamed, StopsOnlyIfNamed
<1> QED
  BY <1>1, ServerInitInv, ServerNextInv, PTL DEF ServerSpec

(* With clients coming and going, and the accept loop running or dead, the *)
(* handlers do what FileApi says and nothing else.                         *)
THEOREM ServerServesFiles == ServerSpec => Spec
<1>1. ServerInit => Init
  BY DEF ServerInit
<1>2. [ServerNext]_serverVars => [Next]_vars
  BY DEF ServerNext, serverVars, vars, Connect, EndSession, Accept, AcceptThrows,
         AcceptFails, Retry, FileStep, Exit
<1> QED
  BY <1>1, <1>2, PTL DEF ServerSpec, Spec

(* So nothing outside the root changes while the server lives, and no      *)
(* request changes more than it names.                                     *)
THEOREM ServerConfined == ServerSpec => Confined /\ []NoCollateral
BY ServerServesFiles, MutationsConfined, NothingCollateral, PTL
=============================================================================
