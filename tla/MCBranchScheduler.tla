------------------------- MODULE MCBranchScheduler --------------------------
(***************************************************************************)
(* BranchScheduler with the configurations the runs search with.           *)
(***************************************************************************)
EXTENDS BranchScheduler

\* Two tokens a step, one likelier; scores on both sides of a proxy.
TwoScores == {-3, 0}

\* The beam policy scored by log-probability, with exhausted branches and a drain.
BeamNow ==
  [policy |-> "beam", externalValues |-> FALSE, maxPending |-> 2,
   totalBudget |-> 6, perBranchBudget |-> 4, beamWidth |-> 2, forkWidth |-> 2,
   forkAtTokens |-> {1, 2}, maxDepth |-> 2, killMargin |-> 1,
   logprobs |-> {-2, -1}, stops |-> FALSE, exhausts |-> TRUE, drains |-> TRUE]

\* The beam policy on late values: a branch forks while its own is pending.
BeamLate ==
  [BeamNow EXCEPT !.externalValues = TRUE, !.perBranchBudget = 3,
               !.forkAtTokens = {1, 3}, !.drains = FALSE]

\* Best-first search on values that come late or never in time.
BestFirstLate ==
  [BeamLate EXCEPT !.policy = "best_first", !.killMargin = NoMargin,
                   !.totalBudget = 5, !.logprobs = {-1}]

\* The same when every branch runs to its budget.
BestFirstEnds == [BestFirstLate EXCEPT !.exhausts = FALSE, !.totalBudget = 6]

\* Monte-Carlo tree search on late values, with end-of-sequence tokens.
MctsLate ==
  [BestFirstLate EXCEPT !.policy = "mcts", !.killMargin = 1, !.stops = TRUE]

\* Two beams the last of which answers a round with an end-of-sequence token.
BeamStops ==
  [BeamLate EXCEPT !.externalValues = FALSE, !.forkAtTokens = {1}, !.killMargin = NoMargin,
                   !.logprobs = {-1}, !.stops = TRUE, !.exhausts = FALSE]

SearchConfigs == {BeamNow, BeamLate, BestFirstLate, BestFirstEnds, MctsLate}
StoppingConfigs == {BeamStops}
=============================================================================
