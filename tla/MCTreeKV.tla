------------------------------ MODULE MCTreeKV ------------------------------
(***************************************************************************)
(* TLC instance of TreeKV.                                                 *)
(***************************************************************************)
EXTENDS TreeKV, TLC

TokenSymmetry == Permutations(Tokens)
=============================================================================
