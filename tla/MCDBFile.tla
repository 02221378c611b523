------------------------------ MODULE MCDBFile ------------------------------
(***************************************************************************)
(* A small instance of DBFile: two videos of two frames and blocks of two  *)
(* cells, so that a database is one, four or seven cells and is written in *)
(* one, two or four blocks; the process ends at most twice, once to leave  *)
(* an aborted save behind and once to read back what was saved over it.    *)
(***************************************************************************)
EXTENDS DBFile, TLC

MCFrameList == {<<1, 2>>}

(* Files and names are interchangeable.                                    *)
Symmetry == Permutations(Inode) \cup Permutations(Name)
=============================================================================
