------------------------------ MODULE FileTree ------------------------------
(***************************************************************************)
(* The directory tree the server works on, and the calls of                *)
(* std::filesystem it makes on it (libstdc++ over POSIX), as pure          *)
(* operators on a tree.  The library is external to the repository: the    *)
(* definitions below say what the calls of src/http_file_system.cpp rely   *)
(* on, with their error cases, for a host without I/O faults.              *)
(*                                                                         *)
(* A path is the sequence of its components, already resolved: no ".", no  *)
(* "..", no symbolic link and no trailing slash.  A tree maps every path   *)
(* to what is there: nothing, a directory, or a file with its content.     *)
(***************************************************************************)
EXTENDS Naturals, FiniteSets, Sequences, SequencesExt

CONSTANTS
  Name,      \* the names a directory entry may have
  MaxDepth,  \* the longest path the host accepts (ENAMETOOLONG beyond it)
  Content,   \* the contents a regular file may have
  Dir,       \* marks a directory
  NoEntry    \* marks a path that names nothing

ASSUME TreeAssumption ==
  /\ IsFiniteSet(Name)
  /\ MaxDepth \in Nat
  /\ Dir \notin Content
  /\ NoEntry \notin Content
  /\ Dir # NoEntry

Path == BoundedSeq(Name, MaxDepth)
Top  == << >>                        \* "/" of the host

Tree == [Path -> Content \union {Dir, NoEntry}]

Exists(t, p) == t[p] # NoEntry
IsDir(t, p)  == t[p] = Dir
IsFile(t, p) == t[p] \in Content

(* A new entry can be made at p only inside an existing directory.         *)
HasParentDir(t, p) == p = Top \/ IsDir(t, Front(p))

Children(t, d) == {n \in Name : Append(d, n) \in Path /\ Exists(t, Append(d, n))}

(* Every entry but the top lies in a directory.                            *)
WellFormed(t) ==
  /\ IsDir(t, Top)
  /\ \A p \in Path \ {Top} : Exists(t, p) => IsDir(t, Front(p))

-----------------------------------------------------------------------------
(* fs::remove_all: p and everything below it.                              *)
RemoveAll(t, p) ==
  [q \in Path |-> IF IsPrefix(p, q) THEN NoEntry ELSE t[q]]

(* fs::create_directory: succeeds on a directory that already exists,      *)
(* fails on a file and without a parent directory.                         *)
CanCreateDirectory(t, p) ==
  IsDir(t, p) \/ (~Exists(t, p) /\ HasParentDir(t, p))

CreateDirectory(t, p) == [t EXCEPT ![p] = Dir]

(* Mutant: only the last component is made.                                *)
CreateLastOnly(t, p) == [t EXCEPT ![p] = Dir]

(* fs::create_directories: makes every missing component, unless a file    *)
(* is in the way.                                                          *)
CanCreateDirectories(t, p) ==
  \A q \in Path : IsPrefix(q, p) => ~IsFile(t, q)

CreateDirectories(t, p) ==
  [q \in Path |-> IF IsPrefix(q, p) THEN Dir ELSE t[q]]

-----------------------------------------------------------------------------
(* fs::rename, after rename(2): the same path is a no-op; a directory is   *)
(* not moved into itself; a directory replaces only an empty directory, a  *)
(* file only a file.                                                       *)
CanRename(t, from, to) ==
  /\ Exists(t, from)
  /\ HasParentDir(t, to)
  /\ \/ from = to
     \/ /\ ~IsPrefix(from, to)
        /\ \/ ~Exists(t, to)
           \/ IsFile(t, from) /\ IsFile(t, to)
           \/ IsDir(t, from) /\ IsDir(t, to) /\ Children(t, to) = {}

(* The path that becomes q when the subtree at "from" moves to "to".       *)
Origin(q, from, to) == from \o SubSeq(q, Len(to) + 1, Len(q))

Rename(t, from, to) ==
  [q \in Path |->
     IF IsPrefix(to, q)
     THEN IF Origin(q, from, to) \in Path THEN t[Origin(q, from, to)] ELSE NoEntry
     ELSE IF IsPrefix(from, q) THEN NoEntry ELSE t[q]]

(* Bound: a rename is taken only if all it moves still fits in Path.       *)
RenameFits(t, from, to) ==
  \A q \in Path :
    IsPrefix(from, q) /\ Exists(t, q) => Len(to) + Len(q) <= MaxDepth + Len(from)

-----------------------------------------------------------------------------
(* One call of the recursion of fs::copy(from, to, recursive |             *)
(* overwrite_existing).  A file copied onto a directory goes into it.      *)
CopyTarget(t, from, to) ==
  IF to \in Path /\ IsDir(t, to) /\ IsFile(t, from) THEN Append(to, Last(from)) ELSE to

(* The call fails on a missing source, on itself, on a name too long, on   *)
(* a file where a directory must go or the reverse, and without a parent   *)
(* directory.                                                              *)
CopyFails(t, from, to) ==
  LET target == CopyTarget(t, from, to)
  IN  \/ target \notin Path
      \/ ~ /\ target \in Path
           /\ Exists(t, from)
           /\ from # target
           /\ Exists(t, target) => IsDir(t, from) = IsDir(t, target)
           /\ HasParentDir(t, target)

CopyNode(t, from, to) == [t EXCEPT ![CopyTarget(t, from, to)] = t[from]]
=============================================================================
