-------------------------- MODULE BranchScheduler ---------------------------
(***************************************************************************)
(* The scheduler under the most general driver its interface allows: the   *)
(* driver polls the command queue, mirrors the tree from the commands,     *)
(* samples one token for a branch it was told to continue, reports values  *)
(* and exhausted branches, each when it likes, and may drain the search.   *)
(* It does not ask whether the branch is still there: like the engine,     *)
(* which decodes a batch and feeds all of it, it feeds what it sampled.    *)
(***************************************************************************)
EXTENDS SchedulerCore

CONSTANT Scores  \* the values the engine can score a branch with

\* Beside what the scheduler is configured with, a configuration says how the
\* driver goes about it.
ASSUME BranchSchedulerAssumption ==
  /\ Scores \subseteq Int
  /\ \A c \in Configs :
       /\ {c.stops, c.exhausts, c.drains} \subseteq BOOLEAN
       /\ c.logprobs \subseteq Int

VARIABLES
  mirror,      \* the tree as the driver replays it from polled commands
  granted      \* branches the driver is to sample one token for, or has

vars == <<scheduler, mirror, granted>>

Logprobs == config.logprobs         \* the log-probabilities a token can have
StopPossible == config.stops        \* whether a token may end its branch (eos)
ExhaustPossible == config.exhausts  \* whether the engine may report one exhausted
DrainPossible == config.drains      \* whether the caller may drain the scheduler

-----------------------------------------------------------------------------
(* The driver's copy of the tree.                                          *)

Legal(m, c) ==
  CASE c.op = "kill" -> IsLive(m, c.branch) /\ \A x \in Children(m, c.branch) : IsTerminal(m, x)
    [] OTHER         -> m.state[c.branch] = "active"

Replay(m, c) ==
  LET born == IF c.op = "fork" THEN Born(m) ELSE {}
      becomes == CASE c.op = "fork" -> "expanded" [] c.op = "kill" -> "killed"
                   [] c.op = "finalize" -> "finalized" [] OTHER -> m.state[c.branch]
  IN [state  |-> [b \in Ids |-> IF b \in born THEN "active"
                                ELSE IF b = c.branch THEN becomes ELSE m.state[b]],
      parent |-> [b \in Ids |-> IF b \in born THEN c.branch ELSE m.parent[b]],
      legal  |-> m.legal /\ Legal(m, c)]

Mirrored == FoldLeft(Replay, mirror, queue)

Continues == {queue[i].branch : i \in {j \in DOMAIN queue : queue[j].op = "continue"}}

-----------------------------------------------------------------------------
Init ==
  /\ NewScheduler
  /\ mirror = [state |-> tree.state, parent |-> tree.parent, legal |-> TRUE]
  /\ granted = {Root}  \* the driver samples the root's first token unasked

MaySample(b) ==
  /\ Idle
  /\ b \in granted
  /\ AcceptsToken(b)

TokenSampled(b, logprob, eos) ==
  /\ MaySample(b)
  /\ \E s \in Sampled(b, logprob, eos) : Install(Tick(s)) /\ UNCHANGED mirror
  /\ granted' = granted \ {b}

\* A token that comes too late is refused before it changes anything.
TokenRefused(b) ==
  /\ Idle
  /\ b \in granted
  /\ ~AcceptsToken(b)
  /\ granted' = granted \ {b}
  /\ UNCHANGED <<scheduler, mirror>>

\* The engine ends a branch itself: it stopped, or merged into another one.
BranchExhausted(b) ==
  /\ Idle
  /\ ExhaustPossible
  /\ AcceptsExhausted(b)
  /\ \E s \in Exhausted(b) : Install(Tick(s)) /\ UNCHANGED <<mirror, granted>>

ValueScored(b, score) ==
  /\ Idle
  /\ AcceptsValue(b)
  /\ \E s \in Scored(b, score) : Install(Tick(s)) /\ UNCHANGED <<mirror, granted>>

\* One turn of the loop of resolve_expired_pending_scores.
ResolveExpired ==
  /\ ~failed
  /\ Expired # {}
  /\ LET b == Min(Expired)
     IN \E s \in Scored(b, tree.logprob[b]) : Install(s) /\ UNCHANGED <<mirror, granted>>

\* poll_commands, and the driver carrying the commands out.
Poll ==
  /\ Idle
  /\ queue # <<>>
  /\ TakeQueue
  /\ mirror' = Mirrored
  /\ granted' = granted \cup Continues

Drain ==
  /\ Idle
  /\ DrainPossible
  /\ ActiveFrontier(tree) # {}
  /\ Install(Enqueue([ForgetPending(Terminate(Current)) EXCEPT !.outstanding = {}]))
  /\ UNCHANGED <<mirror, granted>>

Tokens ==
  \E b \in Ids, logprob \in Logprobs, eos \in {FALSE, StopPossible} :
    TokenSampled(b, logprob, eos)

Values == \E b \in Ids, score \in Scores : ValueScored(b, score)

Next ==
  \/ Tokens
  \/ \E b \in Ids : TokenRefused(b)
  \/ \E b \in Ids : BranchExhausted(b)
  \/ Values
  \/ ResolveExpired
  \/ Poll
  \/ Drain

\* What the driver loop keeps doing, each said of the variable it moves: it
\* polls, it samples what it may, and it has every token scored.  (feed_event
\* itself does not return before it has resolved an expired score.)
Polling == Idle /\ queue # <<>> /\ queue' = <<>>

Sampling == (\E b \in Ids : MaySample(b)) /\ consumed' = consumed + 1

Scoring ==
  /\ ~failed
  /\ \E W \in SUBSET DOMAIN waits :
       W # DOMAIN waits /\ waits' \in [W -> 0 .. MaxPending]

Fairness == WF_queue(Polling) /\ WF_consumed(Sampling) /\ WF_waits(Scoring)

Spec == Init /\ [][Next]_vars
FairSpec == Spec /\ Fairness

-----------------------------------------------------------------------------
\* The command stream alone rebuilds the tree: replayed in order onto what the
\* driver already has, every queued command is legal when its turn comes
\* (children die before their parent, only active branches fork, finish or
\* continue) and the result has the scheduler's own states and parents.
CommandsReplayTheTree ==
  ~failed =>
    /\ Mirrored.legal
    /\ Mirrored.state = tree.state
    /\ Mirrored.parent = tree.parent

\* The grants the scheduler still counts on: it has neither closed nor forked
\* their branches since.
InForce == granted \cap ActiveFrontier(tree)

\* A budget unit is reserved for exactly the branches told to continue that
\* have not answered: no kill, fork or drain leaks a reservation (which would
\* starve the others) or drops one (which would overrun the budget).
ReservationsExact ==
  ~failed =>
    /\ outstanding = Continues \cup (IF consumed = 0 THEN {} ELSE InForce)
    /\ consumed + Cardinality(outstanding) <= TotalBudget

\* A token may be fed long after its Continue: it is refused for one reason
\* only, that its branch was closed or forked in the meantime, and never
\* because a value is still to come or because a budget is used up.
RefusedOnlyWhenOver ==
  ~failed => \A b \in granted \cup Continues :
    tree.state[b] = "active" => AcceptsToken(b)

\* Every expanded branch still has a live child: ancestors are reclaimed when,
\* and only when, their last descendant closes.
NoZombieParents ==
  ~failed => \A b \in Ids : tree.state[b] = "expanded" =>
    \E c \in Children(tree, b) : IsLive(tree, c)

\* A branch whose budget ran out before its value came is still active and
\* still waits for that value, so the deferred ending is bound to happen.
DeferredEndingsAwaitAValue ==
  ~failed => \A b \in DOMAIN terminals :
    b \in DOMAIN waits /\ tree.state[b] = "active" /\ ~tree.hasValue[b]

\* While a branch is active there is something to do: a command to poll, a
\* branch to sample or a value to wait for.  Otherwise the driver fails with
\* "scheduler stopped issuing commands with active branches remaining".
NeverStalled ==
  ActiveFrontier(tree) # {} =>
    failed \/ queue # <<>> \/ InForce # {} \/ DOMAIN waits # {}

\* A search that is over has produced a result: some branch was finalized.
SomethingFinalized ==
  ActiveFrontier(tree) = {} => \E b \in Ids : tree.state[b] = "finalized"

\* No branch ends but by its budget, or by a merge under the beam policy, which
\* grants anew on every event.
OnlyBudgetsEnd == ~StopPossible /\ (ExhaustPossible => Policy = "beam")

\* As long as only budgets end branches, a search that is driven on ends: it
\* neither stalls nor goes round.
SearchEnds == OnlyBudgetsEnd => <>(failed \/ ActiveFrontier(tree) = {})
=============================================================================
