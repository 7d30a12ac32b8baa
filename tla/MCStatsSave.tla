------------------------------ MODULE MCStatsSave ------------------------------
(***************************************************************************)
(* Four inodes are enough: the file, the temporary file and one for each   *)
(* write that is under way.                                                *)
(***************************************************************************)
EXTENDS StatsSave, TLC

\* An inode has no identity beyond what it holds and who points at it.
Symmetry == Permutations(Inodes)
===============================================================================
