---------------------------- MODULE MCTransfer ----------------------------
(***************************************************************************)
(* TLC's runs of Transfer.  Sessions and files are interchangeable.        *)
(***************************************************************************)
EXTENDS Transfer, TLC

(* No file is there at the start; some file is.                            *)
EmptyInit == Init /\ made = 0
FilesInit == Init /\ made > 0

EmptySpec == EmptyInit /\ [][Next]_vars
FilesSpec == FilesInit /\ [][Next]_vars /\ Fairness

Symmetry == Permutations(Session) \union Permutations(File)
===========================================================================
