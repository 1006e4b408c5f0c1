------------------------------ MODULE MCServer ------------------------------
(***************************************************************************)
(* TLC's run of Server: the root <<"a">> with up to two entries, next to a *)
(* directory that is not served; requests also name that directory and the *)
(* top of the host.  The process starts in the root, in a directory below  *)
(* it or in the one next to it.                                            *)
(***************************************************************************)
EXTENDS Server

MCRootDir == <<"a">>
MCTarget  == {Top, <<"a">>, <<"b">>, <<"a", "a">>, <<"a", "b">>}

MCInit ==
  /\ \E f \in [{<<"a", "a">>, <<"a", "b">>} -> Content \union {Dir, NoEntry}] :
       tree = [p \in Path |->
                 IF p \in DOMAIN f THEN f[p]
                 ELSE IF p \in {Top, <<"a">>, <<"b">>} THEN Dir ELSE NoEntry]
  /\ pc = "idle" /\ req = NoRequest /\ old = tree /\ todo = << >> /\ code = 0
  /\ given \in BOOLEAN
  /\ cwd \in {p \in {<<"a">>, <<"a", "a">>, <<"b">>} : IsDir(tree, p)}
  /\ ~given => cwd = RootDir
  /\ acceptor = "accepting" /\ backlog = << >> /\ open = {} /\ named = FALSE

MCSpec == MCInit /\ [][ServerNext]_serverVars /\ ServerFairness
=============================================================================
