---------------------------- MODULE MCTreeEngine ----------------------------
(***************************************************************************)
(* TreeEngine with the requests its runs generate for.                     *)
(***************************************************************************)
EXTENDS TreeEngine, TLC

TwoLogprobs == [t \in {"likely", "unlikely"} |-> IF t = "likely" THEN -1 ELSE -2]
WithEos == TwoLogprobs @@ [t \in {"eos"} |-> -1]

\* Three beams with value pruning.
Emvpt ==
  [policy |-> "emvpt", branches |-> 3, budgetTokens |-> 10, maxTokens |-> 5,
   scorer |-> "logprob", minSurvivors |-> 1,
   logprob |-> TwoLogprobs, stopTokens |-> {}, agreements |-> {0}]

\* Three beams scored by their agreement, with tokens that end a branch.
SelfConsistency ==
  [policy |-> "beam", branches |-> 3, budgetTokens |-> 7, maxTokens |-> 4,
   scorer |-> "self_consistency", minSurvivors |-> 2,
   logprob |-> WithEos, stopTokens |-> {"eos"}, agreements |-> {0, 1}]

\* Best-first search on two branches, whose budget ends with a page.
BestFirstPair ==
  [Emvpt EXCEPT !.policy = "best_first", !.branches = 2, !.budgetTokens = 6, !.maxTokens = 4]

\* Three beams of two tokens: the one they share and one of their own.
ShortBeams == [Emvpt EXCEPT !.policy = "beam", !.maxTokens = 2]

\* A value may be as many events late as there are beams.
BeamRequests == {SchedulerConfig(r, 3) : r \in {Emvpt, SelfConsistency}}
BestFirstRequests == {SchedulerConfig(BestFirstPair, 3)}
ShortRequests == {SchedulerConfig(ShortBeams, 3)}
=============================================================================
