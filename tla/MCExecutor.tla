----------------------------- MODULE MCExecutor -----------------------------
(***************************************************************************)
(* TLC instance of Executor.                                               *)
(***************************************************************************)
EXTENDS Executor, TLC

VocabularySymmetry == Permutations(Vocabulary)
=============================================================================
