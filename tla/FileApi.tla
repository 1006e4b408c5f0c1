------------------------------ MODULE FileApi -------------------------------
(***************************************************************************)
(* The file operations of the server: move, copy, delete and mkdir, as     *)
(* requested through the JSON interface (MyProto) or through WebDAV        *)
(* (WebDavProto) and carried out by HttpFileSystem.                        *)
(*                                                                         *)
(* None of these handlers suspends, so on the server's single thread each  *)
(* one runs from its first line to its answer with no other session in     *)
(* between: one request is in progress at a time.  A copy still takes      *)
(* several steps, one per call of the recursion of fs::copy, because it    *)
(* can stop half-way with an error.                                        *)
(***************************************************************************)
EXTENDS FileTree

CONSTANTS
  RootDir,   \* the directory the server was told to serve (root_path_)
  Target,    \* the paths that requests name
  NoPath     \* a path the request does not carry

ASSUME ApiAssumption ==
  /\ RootDir \in Path \ {Top}
  /\ Target \subseteq Path
  /\ NoPath \notin Path

VARIABLES
  tree,   \* the host's directory tree
  pc,     \* "idle", "copy" or "done"
  req,    \* the request in progress
  old,    \* the tree when that request arrived (history)
  todo,   \* the calls of fs::copy that are still to be made
  code    \* the status code of the answer

vars == <<tree, pc, req, old, todo, code>>

-----------------------------------------------------------------------------
(* Requests.  The JSON interface always overwrites, and a field of the     *)
(* body may be missing; over WebDAV only the Destination may be missing.   *)
Binary == {"move", "copy"}
Unary  == {"delete", "mkdir"}

JsonRequest ==
  [proto : {"json"}, op : Binary, src : Target \union {NoPath},
   dst : Target \union {NoPath}, overwrite : {TRUE}]
  \union
  [proto : {"json"}, op : Unary, src : Target \union {NoPath},
   dst : {NoPath}, overwrite : {FALSE}]

DavRequest ==
  [proto : {"dav"}, op : Binary, src : Target,
   dst : Target \union {NoPath}, overwrite : BOOLEAN]
  \union
  [proto : {"dav"}, op : Unary, src : Target, dst : {NoPath}, overwrite : {FALSE}]

Request == JsonRequest \union DavRequest

NoRequest ==
  [proto |-> "none", op |-> "none", src |-> NoPath, dst |-> NoPath, overwrite |-> FALSE]

(* HttpFileSystem::is_valid_path: the path resolves to the root or below.  *)
IsValidPath(p) == IsPrefix(RootDir, p)

(* Mutant: only the source is checked against the root.                    *)
PathsSourceOnly(r) == {r.src}

-----------------------------------------------------------------------------
(* The early returns, in the order the code makes them.                    *)
Incomplete(r) == r.src = NoPath \/ (r.op \in Binary /\ r.dst = NoPath)

Paths(r) == IF r.op \in Binary THEN {r.src, r.dst} ELSE {r.src}

SourceMissing(r) == r.op # "mkdir" /\ ~Exists(tree, r.src)

Refusal(r) ==
  IF Incomplete(r) THEN 400
  ELSE IF r.proto = "json" /\ SourceMissing(r) THEN 404
  ELSE IF \E p \in Paths(r) : ~IsValidPath(p) THEN 403
  ELSE IF SourceMissing(r) THEN 404
  ELSE IF r.op \in Binary /\ Exists(tree, r.dst) /\ ~r.overwrite THEN 409
  ELSE 0

Accepted(r) == Refusal(r) = 0

(* The status the client sees: WebDAV turns 200 into 201 or 204.           *)
Status(r, result) ==
  IF r.proto = "dav" /\ result = 200
  THEN IF r.op = "delete" THEN 204 ELSE 201
  ELSE result

-----------------------------------------------------------------------------
(* The request r arrives and is answered at once; t is the tree it leaves. *)
AnswerAtOnce(r, result, t) ==
  /\ pc' = "done"
  /\ req' = r
  /\ old' = tree
  /\ tree' = t
  /\ code' = Status(r, result)
  /\ UNCHANGED todo

Refuse(r) ==
  /\ pc = "idle"
  /\ ~Accepted(r)
  /\ AnswerAtOnce(r, Refusal(r), tree)

(* With overwrite, a destination of the other type is removed first.       *)
TypesDiffer(t, r) == Exists(t, r.dst) /\ IsDir(t, r.src) # IsDir(t, r.dst)

(* Mutants: the wrong path is cleared; any destination is cleared.         *)
ClearedSource(r)  == IF TypesDiffer(tree, r) THEN RemoveAll(tree, r.src) ELSE tree
ClearedAlways(r)  == IF Exists(tree, r.dst) THEN RemoveAll(tree, r.dst) ELSE tree

Cleared(r) == IF TypesDiffer(tree, r) THEN RemoveAll(tree, r.dst) ELSE tree

MoveFile(r) ==
  /\ pc = "idle"
  /\ r.op = "move"
  /\ Accepted(r)
  /\ \/ /\ CanRename(Cleared(r), r.src, r.dst)
        /\ RenameFits(Cleared(r), r.src, r.dst)
        /\ AnswerAtOnce(r, 200, Rename(Cleared(r), r.src, r.dst))
     \/ /\ ~CanRename(Cleared(r), r.src, r.dst)
        /\ AnswerAtOnce(r, 500, Cleared(r))

DeleteFile(r) ==
  /\ pc = "idle"
  /\ r.op = "delete"
  /\ Accepted(r)
  /\ AnswerAtOnce(r, 200, RemoveAll(tree, r.src))

(* MKCOL makes one directory, the JSON interface all that are missing.     *)
MakeDirectory(r) ==
  /\ pc = "idle"
  /\ r.op = "mkdir"
  /\ Accepted(r)
  /\ \/ /\ r.proto = "dav" /\ CanCreateDirectory(tree, r.src)
        /\ AnswerAtOnce(r, 200, CreateDirectory(tree, r.src))
     \/ /\ r.proto = "dav" /\ ~CanCreateDirectory(tree, r.src)
        /\ AnswerAtOnce(r, 500, tree)
     \/ /\ r.proto = "json" /\ CanCreateDirectories(tree, r.src)
        /\ AnswerAtOnce(r, 200, CreateDirectories(tree, r.src))
     \/ /\ r.proto = "json" /\ ~CanCreateDirectories(tree, r.src)
        /\ AnswerAtOnce(r, 500, tree)

(* Mutants: the error of fs::copy is not looked at; a copy that failed is  *)
(* tried again.                                                            *)
FinishCopyUnchecked(result) ==
  /\ pc' = "done"
  /\ code' = Status(req, 200)
  /\ todo' = << >>
FinishCopyRetry(result) ==
  /\ pc' = IF result = 200 THEN "done" ELSE pc
  /\ code' = IF result = 200 THEN Status(req, result) ELSE code
  /\ todo' = IF result = 200 THEN << >> ELSE << [from |-> req.src, to |-> req.dst] >>

(* HttpFileSystem::copy_file up to its call of fs::copy.                   *)
StartCopy(r) ==
  /\ pc = "idle"
  /\ r.op = "copy"
  /\ Accepted(r)
  /\ pc' = "copy"
  /\ req' = r
  /\ old' = tree
  /\ tree' = Cleared(r)
  /\ todo' = << [from |-> r.src, to |-> r.dst] >>
  /\ UNCHANGED code

FinishCopy(result) ==
  /\ pc' = "done"
  /\ code' = Status(req, result)
  /\ todo' = << >>

(* One call of fs::copy.  A directory is made if it is not there, then its *)
(* entries are read, in any order, and copied before what was left to do:  *)
(* a directory copied into itself finds its own copy among them.           *)
CopyEntry ==
  /\ pc = "copy"
  /\ todo # << >>
  /\ UNCHANGED <<req, old>>
  /\ LET from == Head(todo).from
         to   == Head(todo).to
         made == CopyNode(tree, from, to)
     IN  \/ /\ CopyFails(tree, from, to)
            /\ FinishCopy(500)
            /\ UNCHANGED tree
         \/ /\ ~CopyFails(tree, from, to)
            /\ IsFile(tree, from)
            /\ tree' = made
            /\ todo' = Tail(todo)
            /\ UNCHANGED <<pc, code>>
         \/ /\ ~CopyFails(tree, from, to)
            /\ IsDir(tree, from)
            /\ tree' = made
            /\ \E entry \in SetToSeqs(Children(made, from)) :
                 todo' = [i \in 1 .. Len(entry) |->
                            [from |-> Append(from, entry[i]), to |-> Append(to, entry[i])]]
                         \o Tail(todo)
            /\ UNCHANGED <<pc, code>>

(* The recursion has returned without an error.                            *)
ReturnFromCopy ==
  /\ pc = "copy"
  /\ todo = << >>
  /\ FinishCopy(200)
  /\ UNCHANGED <<tree, req, old>>

(* The answer has been written; the session waits for its next request.    *)
Respond ==
  /\ pc = "done"
  /\ pc' = "idle"
  /\ req' = NoRequest
  /\ old' = tree
  /\ code' = 0
  /\ UNCHANGED <<tree, todo>>

-----------------------------------------------------------------------------
(* set_root_path takes the canonical path of an existing directory: all    *)
(* that is on the way to it are directories.                               *)
Init ==
  /\ tree \in Tree
  /\ WellFormed(tree)
  /\ \A p \in Path : IsPrefix(p, RootDir) => IsDir(tree, p)
  /\ pc = "idle"
  /\ req = NoRequest
  /\ old = tree
  /\ todo = << >>
  /\ code = 0

Next ==
  \/ \E r \in Request :
       Refuse(r) \/ MoveFile(r) \/ DeleteFile(r) \/ MakeDirectory(r) \/ StartCopy(r)
  \/ CopyEntry
  \/ ReturnFromCopy
  \/ Respond

Spec == Init /\ [][Next]_vars

(* A handler runs until it has answered: once fs::copy is called nothing   *)
(* else is scheduled before it returns.                                    *)
FairSpec == Spec /\ WF_vars(CopyEntry \/ ReturnFromCopy)

-----------------------------------------------------------------------------
(* Every variable has a value of its kind, and the tree is a tree: whatever *)
(* sequence of moves, overwrites, deletes and half-way failed copies is    *)
(* requested, every entry stays inside a directory.  todo lists the calls  *)
(* of fs::copy; a destination may be too long for the host.                *)
Call == [from : Path, to : Seq(Name)]

TypeOK ==
  /\ tree \in Tree /\ WellFormed(tree)
  /\ old \in Tree /\ WellFormed(old)
  /\ pc \in {"idle", "copy", "done"}
  /\ req \in Request \union {NoRequest}
  /\ todo \in Seq(Call)
  /\ code \in {0, 200, 201, 204, 400, 403, 404, 409, 500}

(* No request changes anything outside the served root: every handler      *)
(* checks both of its paths with is_valid_path before its first change,    *)
(* and what it moves, copies or removes afterwards stays below them.       *)
Confined ==
  [][\A p \in Path : ~IsPrefix(RootDir, p) => tree'[p] = tree[p]]_vars

(* A request changes only what it names, at every step of its handler.  A  *)
(* refused one (4xx) changes nothing; a copy, and a move that fails,       *)
(* change nothing but the destination and what lies below it (a source     *)
(* there goes with it); any other source goes only if the move succeeds;   *)
(* mkdir only touches the way to its directory.                            *)
MayChange(p) ==
  \/ req.op \in Binary /\ IsPrefix(req.dst, p)
  \/ req.op = "move" /\ code \in {200, 201} /\ IsPrefix(req.src, p)
  \/ req.op = "delete" /\ IsPrefix(req.src, p)
  \/ req.op = "mkdir" /\ IsPrefix(p, req.src)

NoCollateral ==
  \A p \in Path : tree[p] # old[p] => code \notin 400 .. 499 /\ MayChange(p)

(* A move is all or nothing.  If it succeeds, the destination holds exactly *)
(* what the source held, and nothing of the source is left.  If it fails,  *)
(* the tree is as it was; except that a destination of the other type than *)
(* the source has been removed by then, all of it, and with it a source    *)
(* that lies below it (move_file around fs::rename).                       *)
Moved(from, to) ==
  \A s \in Path :
    /\ to \o s \in Path =>
         tree[to \o s] = IF from \o s \in Path THEN old[from \o s] ELSE NoEntry
    /\ from # to /\ from \o s \in Path => ~Exists(tree, from \o s)

OnlyDestinationLost ==
  \A p \in Path :
    tree[p] = IF TypesDiffer(old, req) /\ IsPrefix(req.dst, p) THEN NoEntry ELSE old[p]

MoveIsAtomic ==
  pc = "done" /\ req.op = "move" =>
    /\ code \in {200, 201} => Moved(req.src, req.dst)
    /\ code = 500 => OnlyDestinationLost

(* A copy that reports success has copied everything. A copy onto its own  *)
(* source or below it, whose recursion finds what it makes, never reports  *)
(* success. Any other, unless it goes onto a directory above the source    *)
(* (then it may find the source among what it merges into, and overwrite   *)
(* what it has yet to copy), has put each entry of the source at its place *)
(* below the destination, except that a file whose place was taken by a    *)
(* directory went into that directory, and the source is as it was         *)
(* (copy_file around fs::copy).                                            *)
Whole(from, to) ==
  \A s \in Path :
    from \o s \in Path /\ Exists(old, from \o s) =>
      /\ tree[from \o s] = old[from \o s]
      /\ \/ tree[to \o s] = old[from \o s]
         \/ /\ IsFile(old, from \o s) /\ IsDir(old, to \o s) /\ s # << >>
            /\ tree[Append(to \o s, Last(s))] = old[from \o s]

CopyIsComplete ==
  pc = "done" /\ req.op = "copy" /\ code \in {200, 201} =>
    /\ ~IsPrefix(req.src, req.dst)
    /\ ~IsPrefix(req.dst, req.src) => Whole(req.src, req.dst)

(* A copy merges: whether it succeeds or stops half-way, no entry that was *)
(* there is gone or has changed its type, except at and below a            *)
(* destination that was of the other type than the source.                 *)
CopyMerges ==
  req.op = "copy" /\ code \notin 400 .. 499 =>
    \A p \in Path :
      Exists(old, p) =>
        \/ Exists(tree, p) /\ IsDir(tree, p) = IsDir(old, p)
        \/ TypesDiffer(old, req) /\ IsPrefix(req.dst, p)

(* Every copy answers, also that of a directory into itself, whose every   *)
(* level finds one more level to copy until the path is too long.          *)
CopyTerminates == pc = "copy" ~> pc = "done"

-----------------------------------------------------------------------------
(* What a comment or the README says, and the code does not do.            *)

(* "Overwriting, when source and target differ in type, the target is      *)
(* deleted" (http_file_system.cpp:50 and 112): the target and not the      *)
(* source, which is still there when the move or the copy then fails.      *)
FailureKeepsSource ==
  pc = "done" /\ req.op \in Binary /\ code = 500 => Exists(tree, req.src)
=============================================================================
