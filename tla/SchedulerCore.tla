--------------------------- MODULE SchedulerCore ----------------------------
(***************************************************************************)
(* The event-driven branch scheduler (scheduler/src/scheduler.rs) with its *)
(* three policies (policies/beam.rs, best_first.rs, mcts.rs): its state,   *)
(* and what each event makes of it.  BranchScheduler drives it with events *)
(* in any order, TreeEngine with those of the Tree KV engine's loop.       *)
(*                                                                         *)
(* One event is one step: process_event records it, then terminates the    *)
(* tree, or prunes speculatively and asks the policy, and enqueues what    *)
(* was emitted.  The steps build that outcome as a record, the scheduler's *)
(* state while it handles the event, and Install makes it the next state.  *)
(* Adaptive forking is left out: no entropy is attached to an event.       *)
(***************************************************************************)
EXTENDS BranchTree

CONSTANT Configs  \* the SchedulerConfigs a search may be created with

NoMargin == -1

ASSUME SchedulerCoreAssumption ==
  \A c \in Configs :
    /\ c.policy \in {"beam", "best_first", "mcts"}
    /\ c.externalValues \in BOOLEAN
    /\ {c.maxPending, c.totalBudget, c.perBranchBudget, c.beamWidth, c.forkWidth, c.maxDepth}
         \subseteq Nat \ {0}
    /\ c.forkAtTokens \subseteq Nat
    /\ c.killMargin \in Nat \cup {NoMargin}

VARIABLES
  config,      \* the configuration of this search, never changed
  tree,        \* the branch arena
  consumed,    \* BudgetController.total_consumed
  queue,       \* command_queue
  outstanding, \* outstanding_continuations
  waits,       \* pending_external_values: events left before the proxy is used
  terminals,   \* pending_budget_terminals
  failed       \* a policy hit the branch limit; the caller gives up

scheduler == <<config, tree, consumed, queue, outstanding, waits, terminals, failed>>

Policy == config.policy
ExternalValues == config.externalValues    \* no scorer: the engine sends ValueScored
MaxPending == config.maxPending            \* max_pending_events
TotalBudget == config.totalBudget          \* total_token_budget
PerBranchBudget == config.perBranchBudget  \* per_branch_token_budget
BeamWidth == config.beamWidth
ForkWidth == config.forkWidth              \* expansion_width of best_first and mcts
ForkAtTokens == config.forkAtTokens
MaxDepth == config.maxDepth                \* of best_first and mcts
KillMargin == config.killMargin            \* speculative_kill_margin, or NoMargin

Command(op, b) == [op |-> op, branch |-> b]
Commands(op, bs) == [i \in DOMAIN bs |-> Command(op, bs[i])]

Put(f, b, v) == [x \in DOMAIN f \cup {b} |-> IF x = b THEN v ELSE f[x]]
Without(f, b) == Restrict(f, DOMAIN f \ {b})

-----------------------------------------------------------------------------
(* The scheduler while it handles an event, and what it does to itself.    *)

Current ==
  [tree |-> tree, consumed |-> consumed, queue |-> queue,
   outstanding |-> outstanding, waits |-> waits, terminals |-> terminals,
   emitted |-> <<>>, ok |-> TRUE]

\* A queue without the Continues of b.
WithoutContinue(q, b) ==
  LET kept == Ascending({i \in DOMAIN q : q[i] # Command("continue", b)})
  IN [i \in DOMAIN kept |-> q[kept[i]]]

\* Fault: the reservation of a withdrawn Continue is kept.
WithdrawUnreserved(s, b) == [s EXCEPT !.queue = WithoutContinue(@, b)]

\* remove_queued_continue
Withdraw(s, b) ==
  [s EXCEPT !.outstanding = @ \ {b}, !.queue = WithoutContinue(@, b)]

\* Fault: a branch is continued although its value has not come.
CanContinueUnscored(s, b) ==
  /\ b \in ActiveFrontier(s.tree)
  /\ s.tree.tokens[b] < PerBranchBudget
  /\ b \notin s.outstanding
  /\ Cardinality(s.outstanding) < TotalBudget - s.consumed

\* Fault: the last unit of the tree's budget is never granted.
CanContinueButLast(s, b) ==
  /\ b \in ActiveFrontier(s.tree)
  /\ s.tree.tokens[b] < PerBranchBudget
  /\ b \notin DOMAIN s.waits
  /\ b \notin s.outstanding
  /\ Cardinality(s.outstanding) + 1 < TotalBudget - s.consumed

CanContinue(s, b) ==
  /\ b \in ActiveFrontier(s.tree)
  /\ s.tree.tokens[b] < PerBranchBudget
  /\ b \notin DOMAIN s.waits
  /\ b \notin s.outstanding
  /\ Cardinality(s.outstanding) < TotalBudget - s.consumed

Admit(s, c) ==
  IF c.op # "continue"
  THEN [Withdraw(s, c.branch) EXCEPT !.queue = Append(@, c)]
  ELSE IF CanContinue(s, c.branch)
  THEN [s EXCEPT !.outstanding = @ \cup {c.branch}, !.queue = Append(@, c)]
  ELSE s

\* enqueue_commands
Enqueue(s) == FoldLeft(Admit, [s EXCEPT !.emitted = <<>>], s.emitted)

\* Fault: the kills of reclaimed ancestors are not emitted.
ReclaimSilently(s, b) == [s EXCEPT !.tree = Kill(@, Reclaimed(s.tree, b))]

\* reclaim_completed_ancestors
Reclaim(s, b) ==
  LET dead == Reclaimed(s.tree, b)
  IN [s EXCEPT !.tree = Kill(@, dead),
               !.emitted = @ \o Commands("kill", Descending(dead))]

\* Fault: a branch that is done is killed.
FinalizeByKill(s, b) ==
  Reclaim([s EXCEPT !.tree = Kill(@, {b}),
                    !.emitted = Append(@, Command("kill", b))], b)

FinalizeBranch(s, b) ==
  Reclaim([s EXCEPT !.tree = Finalize(@, {b}),
                    !.emitted = Append(@, Command("finalize", b))], b)

KillBranch(s, b) ==
  Reclaim([s EXCEPT !.tree = Kill(@, {b}),
                    !.emitted = Append(@, Command("kill", b))], b)

\* retain_live_pending_scores
RetainLive(s) ==
  LET alive(f) == Restrict(f, {b \in DOMAIN f : IsLive(s.tree, b)})
  IN [s EXCEPT !.waits = alive(@), !.terminals = alive(@)]

ForgetPending(s) == [s EXCEPT !.waits = <<>>, !.terminals = <<>>]

\* terminate_tree: the best active branch is finalized, the others die.
\* Values and log-probabilities are only compared with their like.
Terminate(s) ==
  LET t == s.tree
      active == ActiveFrontier(t)
      score(b) == IF t.hasValue[b] THEN t.value[b] ELSE t.logprob[b]
      better(a, b) ==
        \/ t.hasValue[a] /\ ~t.hasValue[b]
        \/ t.hasValue[a] = t.hasValue[b] /\ score(a) > score(b)
        \/ t.hasValue[a] = t.hasValue[b] /\ score(a) = score(b) /\ a < b
      best == {b \in active : \A c \in active \ {b} : better(b, c)}
      closed == Finalize(Kill(t, active \ best), best)
      order == TerminationOrder(closed)
  IN [s EXCEPT !.tree = Kill(closed, Range(order)),
               !.emitted = @ \o Commands("kill", Ascending(active \ best))
                             \o Commands("finalize", Ascending(best))
                             \o Commands("kill", order)]

\* The scored branches too far below the best one.
Hopeless(t) ==
  LET scored == {b \in ActiveFrontier(t) : t.hasValue[b]}
  IN {b \in scored : \E c \in scored : t.value[c] - t.value[b] > KillMargin}

\* speculative_prune
SpeculativePrune(s) ==
  IF KillMargin = NoMargin THEN s
  ELSE FoldLeft(KillBranch, s, Ascending(Hopeless(s.tree)))

-----------------------------------------------------------------------------
(* The policies: from the tree and the event to the possible decisions.  A *)
(* decision is not ok when a fork would exceed the branch limit.           *)

Decision(t, out) == [tree |-> t, out |-> out, ok |-> TRUE]

Born(t) == Size(t) .. Size(t) + ForkWidth - 1

\* Fork b and continue the children of pick.
Expand(t, b, pick) ==
  IF Size(t) + ForkWidth > MaxTotalBranches
  THEN [tree |-> t, out |-> <<>>, ok |-> FALSE]
  ELSE Decision(Fork(t, <<b>>, ForkWidth),
                <<Command("fork", b)>> \o Commands("continue", Ascending(pick)))

\* Beam: fork the whole frontier at a token count all of it has reached, keep
\* the BeamWidth best, and continue those that are behind.
BeamForks(t, e) ==
  LET levels == {t.tokens[b] : b \in ActiveFrontier(t)}
  IN IF e.kind = "token" /\ Cardinality(levels) = 1 /\ levels \subseteq ForkAtTokens
     THEN Ascending(ActiveFrontier(t)) ELSE <<>>

BeamBetter(t, a, b) ==
  t.logprob[a] > t.logprob[b] \/ (t.logprob[a] = t.logprob[b] /\ a < b)

BeamPruned(t) ==
  LET active == ActiveFrontier(t)
  IN {b \in active : Cardinality({a \in active : BeamBetter(t, a, b)}) >= BeamWidth}

BeamBehind(t) ==
  {b \in ActiveFrontier(t) : \A c \in ActiveFrontier(t) : t.tokens[b] <= t.tokens[c]}

\* Those that are behind, the best first.
BeamRanked(t) == Sorted(BeamBehind(t), LAMBDA a, b : BeamBetter(t, a, b))

Beam(t, e) ==
  LET forks == BeamForks(t, e)
      fitting == ForksThatFit(t, forks, ForkWidth)
      grown == Fork(t, fitting, ForkWidth)
      pruned == BeamPruned(grown)
      kept == Kill(grown, pruned)
  IN IF fitting # forks
     THEN {[tree |-> grown, out |-> <<>>, ok |-> FALSE]}
     ELSE {Decision(kept, Commands("fork", forks)
                          \o Commands("kill", Ascending(pruned))
                          \o Commands("continue", BeamRanked(kept)))}

\* Best-first: expand the best scored branch and continue all its children.
BestFirst(t) ==
  LET scored == {b \in ActiveFrontier(t) : t.hasValue[b]}
      better(a, b) ==
        \/ t.value[a] > t.value[b]
        \/ t.value[a] = t.value[b] /\ BeamBetter(t, a, b)
      best == {b \in scored : \A c \in scored \ {b} : better(b, c)}
  IN IF best = {} THEN {Decision(t, <<>>)}
     ELSE {IF t.depth[b] >= MaxDepth THEN Decision(t, Commands("continue", <<b>>))
           ELSE Expand(t, b, Born(t)) : b \in best}

\* Monte-Carlo tree search: walk down from the root, to an unvisited child
\* where there is one and else to the child with the best UCT score (any live
\* one here: the scores are floating-point), expand the leaf reached and
\* continue one of its children at random.
MctsChoices(t, a) ==
  LET alive == {c \in Children(t, a) : IsLive(t, c)}
      fresh == {c \in alive : ~t.visited[c]}
  IN IF fresh # {} THEN fresh ELSE alive

MctsLeaves(t) ==
  {b \in ActiveFrontier(t) :
     \A a \in ({b} \cup Ancestors(t, b)) \ {Root} : a \in MctsChoices(t, t.parent[a])}

Mcts(t, e) ==
  LET valued == e.kind \in {"token", "value"}
      updated == IF valued THEN Backpropagate(t, e.branch) ELSE t
      leaves == MctsLeaves(updated)
  IN IF (valued /\ ~t.hasValue[e.branch]) THEN {Decision(t, <<>>)}
     ELSE IF leaves = {} THEN {Decision(updated, <<>>)}
     ELSE UNION {IF t.depth[b] < MaxDepth
                 THEN {Expand(updated, b, {c}) : c \in Born(t)}
                 ELSE {Decision(updated, Commands("continue", <<b>>))} : b \in leaves}

Decisions(t, e) ==
  CASE Policy = "beam"       -> Beam(t, e)
    [] Policy = "best_first" -> BestFirst(t)
    [] Policy = "mcts"       -> Mcts(t, e)

-----------------------------------------------------------------------------
(* process_event, from where the event itself is recorded in s.            *)

Killed(out) == {out[i].branch : i \in {j \in DOMAIN out : out[j].op = "kill"}}

\* Fault: the ancestors of the branches a policy killed are not reclaimed.
FollowUnreclaimed(s, d) ==
  [s EXCEPT !.tree = d.tree, !.emitted = @ \o d.out, !.ok = d.ok]

Follow(s, d) ==
  FoldLeft(Reclaim, [s EXCEPT !.tree = d.tree, !.emitted = @ \o d.out, !.ok = d.ok],
           Ascending(Killed(d.out)))

\* No policy decision while a branch that used up a budget awaits its value.
Decide(s, e) ==
  IF s.terminals # <<>> THEN {s} ELSE {Follow(s, d) : d \in Decisions(s.tree, e)}

\* An error leaves the queue alone: what was emitted is lost.
Finish(s) == IF s.ok THEN Enqueue(RetainLive(s)) ELSE [s EXCEPT !.emitted = <<>>]

\* Fault: what a stopped branch emitted is not enqueued.
OutcomesUnsent(s, e) ==
  IF e.treeOut THEN {Enqueue(ForgetPending(Terminate(s)))}
  ELSE IF e.eos THEN {RetainLive(s)}
  ELSE {Finish(d) : d \in Decide(SpeculativePrune(RetainLive(s)), e)}

Outcomes(s, e) ==
  IF e.treeOut THEN {Enqueue(ForgetPending(Terminate(s)))}
  ELSE IF e.eos THEN {Enqueue(RetainLive(s))}
  ELSE {Finish(d) : d \in Decide(SpeculativePrune(RetainLive(s)), e)}

-----------------------------------------------------------------------------
(* The three events: when feed_event accepts one, and as a set the states it *)
(* can leave the scheduler in.                                               *)

\* pending_deadline_for_current_event, in events from the one being fed on.
\* Fault: the event being fed counts as one that may pass.
DeadlineEarly == MaxPending

Deadline == MaxPending + 1

AcceptsToken(b) ==
  /\ tree.state[b] = "active"
  /\ b \notin DOMAIN waits
  /\ consumed < TotalBudget
  /\ tree.tokens[b] < PerBranchBudget

AcceptsExhausted(b) == tree.state[b] = "active"

AcceptsValue(b) == IsLive(tree, b) /\ b \in DOMAIN waits

\* A sampled token: both budgets are charged, and the branch is scored at
\* once or waits for its value, with what its budget demands deferred.
Sampled(b, logprob, eos) ==
  LET t == RecordToken(tree, b, logprob)
      awaits == ExternalValues /\ ~eos
      treeOut == consumed + 1 = TotalBudget
      branchOut == t.tokens[b] = PerBranchBudget
      s == Withdraw(
             [Current EXCEPT
                !.consumed = @ + 1,
                !.tree = IF awaits THEN MarkValuePending(t, b)
                         ELSE IF ExternalValues THEN t ELSE RecordValue(t, b, t.logprob[b]),
                !.waits = IF awaits THEN Put(@, b, Deadline) ELSE @,
                !.terminals = IF awaits /\ (treeOut \/ branchOut)
                              THEN Put(@, b, IF treeOut THEN "tree" ELSE "branch") ELSE @],
             b)
      closes == eos \/ (branchOut /\ ~treeOut /\ ~awaits)
  IN Outcomes(IF closes THEN FinalizeBranch(s, b) ELSE s,
              [kind |-> "token", branch |-> b, eos |-> eos, treeOut |-> treeOut /\ ~awaits])

\* The engine ended a branch itself.
Exhausted(b) ==
  LET s == Withdraw([Current EXCEPT !.waits = Without(@, b),
                                    !.terminals = Without(@, b)], b)
  IN Outcomes(FinalizeBranch(s, b),
              [kind |-> "exhausted", branch |-> b, eos |-> FALSE, treeOut |-> FALSE])

\* Fault: the deferred ending is not forgotten, nor carried out.
ScoredUnsettled(b, score) ==
  LET s == [Current EXCEPT !.tree = RecordValue(@, b, score),
                           !.waits = Without(@, b)]
  IN Outcomes(s, [kind |-> "value", branch |-> b, eos |-> FALSE, treeOut |-> FALSE])

\* A value, from the engine or the proxy for one that did not come in time,
\* settles what the branch's budget had deferred.
Scored(b, score) ==
  LET s == [Current EXCEPT !.tree = RecordValue(@, b, score),
                           !.waits = Without(@, b),
                           !.terminals = Without(@, b)]
      due == IF b \in DOMAIN terminals THEN terminals[b] ELSE "none"
  IN Outcomes(IF due = "branch" THEN FinalizeBranch(s, b) ELSE s,
              [kind |-> "value", branch |-> b, eos |-> FALSE, treeOut |-> due = "tree"])

\* accepted_event_count moves on: every deadline is one event nearer.
Tick(s) == [s EXCEPT !.waits = [b \in DOMAIN @ |-> @[b] - 1]]

Install(s) ==
  /\ tree' = s.tree
  /\ consumed' = s.consumed
  /\ queue' = s.queue
  /\ outstanding' = s.outstanding
  /\ waits' = s.waits
  /\ terminals' = s.terminals
  /\ failed' = ~s.ok
  /\ UNCHANGED config

\* Branches resolve_expired_pending_scores still has to resolve before
\* feed_event returns.
Expired == {b \in DOMAIN waits : waits[b] = 0}

Idle == ~failed /\ Expired = {}

\* poll_commands hands the whole queue over.
TakeQueue ==
  /\ queue' = <<>>
  /\ UNCHANGED <<config, tree, consumed, outstanding, waits, terminals, failed>>

NewScheduler ==
  /\ config \in Configs
  /\ tree = NewTree
  /\ consumed = 0
  /\ queue = <<>>
  /\ outstanding = {}
  /\ waits = <<>>
  /\ terminals = <<>>
  /\ failed = FALSE
=============================================================================
