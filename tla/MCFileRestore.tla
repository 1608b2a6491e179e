--------------------------- MODULE MCFileRestore ---------------------------
(***************************************************************************)
(* Instances of FileRestore for TLC: two deletes of one path that moved    *)
(* different contents aside, or one delete.                                *)
(***************************************************************************)
EXTENDS FileRestore, TLC

CONSTANTS r1, r2, f1, c1, c2

MCTarget == [r \in Recoveries |-> f1]
MCOriginal == [r \in Recoveries |-> IF r = r1 THEN c1 ELSE c2]
=============================================================================
