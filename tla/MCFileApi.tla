----------------------------- MODULE MCFileApi -----------------------------
(***************************************************************************)
(* Constants and start states for TLC's runs of FileApi.  The served root  *)
(* is the directory <<"a">> of the host; outside of it there are a         *)
(* directory <<"b">> and a file in it, which requests also name.           *)
(***************************************************************************)
EXTENDS FileApi

MCRootDir == <<"a">>

Inside == {p \in Path : IsPrefix(MCRootDir, p)}

MCTarget == Inside \union { <<"b", "a">>, <<"b", "b">> }

(* Every tree whose outside is the fixed one.                              *)
OneContent == CHOOSE c \in Content : TRUE

Plant(inside) ==
  [p \in Path |->
     IF p \in DOMAIN inside THEN inside[p]
     ELSE IF p \in {Top, MCRootDir, <<"b">>} THEN Dir
     ELSE IF p = <<"b", "a">> THEN OneContent
     ELSE NoEntry]

InTree(f, paths) ==
  \A p \in {q \in paths : Front(q) \in paths} : f[p] # NoEntry => f[Front(p)] = Dir

Below == Inside \ {MCRootDir}

(* States of Init: every tree below the root, one outside of it.          *)
MCInit ==
  /\ \E f \in [Below -> Content \union {Dir, NoEntry}] :
       InTree(f, Below) /\ tree = Plant(f)
  /\ pc = "idle"
  /\ req = NoRequest
  /\ old = tree
  /\ todo = << >>
  /\ code = 0

MCSpec == MCInit /\ [][Next]_vars

-----------------------------------------------------------------------------
(* Deeper trees for copies, one copy per behaviour: a subdirectory         *)
(* <<"a","a">> of three levels, a second one of which one branch is used.  *)
DeepPaths ==
  { <<"a", "a">>, <<"a", "b">>, <<"a", "a", "a">>, <<"a", "a", "b">>, <<"a", "b", "a">>,
    <<"a", "a", "a", "a">>, <<"a", "a", "a", "b">>, <<"a", "b", "a", "a">> }

DeepTarget == {MCRootDir} \union {p \in DeepPaths : Len(p) <= 3}

DeepInit ==
  /\ \E f \in [DeepPaths -> Content \union {Dir, NoEntry}] :
       InTree(f, DeepPaths) /\ tree = Plant(f)
  /\ pc = "idle"
  /\ req = NoRequest
  /\ old = tree
  /\ todo = << >>
  /\ code = 0

DeepNext ==
  \/ \E r \in JsonRequest : StartCopy(r)
  \/ CopyEntry
  \/ ReturnFromCopy
  \/ pc = "done" /\ UNCHANGED vars

DeepSpec == DeepInit /\ [][DeepNext]_vars /\ WF_vars(CopyEntry \/ ReturnFromCopy)
=============================================================================
