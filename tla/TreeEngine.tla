----------------------------- MODULE TreeEngine -----------------------------
(***************************************************************************)
(* One generation of the Tree KV engine (core/autotree_core/engine/        *)
(* treekv.py): the coroutine that carries out the scheduler's commands,    *)
(* samples a batch of branches per forward, feeds back what happened,      *)
(* merges branches that converged, and yields the events of EventStream.   *)
(*                                                                         *)
(* Each event fed to the scheduler and each command carried out is a step. *)
(* phase says where in advance_batch the coroutine is, todo what is left   *)
(* of the list it iterates there: such a list is made once, before the     *)
(* first event of the loop is fed.                                         *)
(*                                                                         *)
(* The cache is only which branches it holds: TreeKV shows the rest.  It   *)
(* is deduplicated after every batch, which is the default: branches with  *)
(* the same tokens on whole pages share these.  Sampling may pick any      *)
(* token; of a request's stop strings and end-of-sequence ids, StopTokens  *)
(* are the tokens that end.                                                *)
(***************************************************************************)
EXTENDS SchedulerCore, EventStream

CONSTANTS
  PromptTokens,    \* len(prompt_ids)
  PageSize,        \* ModelExecutorConfig.page_size
  ValueMargin, ValueMinKeep, ValueWarmup, ValueCheckInterval  \* of emvpt

\* _scheduler_config: how the engine configures the scheduler for a request,
\* which the configuration keeps.  A value may be maxPending events late.
SchedulerConfig(request, maxPending) ==
  LET consensus == request.scorer = "self_consistency"
  IN [policy |-> IF request.policy = "emvpt" THEN "beam" ELSE request.policy,
      beamWidth |-> request.branches, forkWidth |-> request.branches,
      forkAtTokens |-> IF request.branches > 1 THEN {1} ELSE {},
      maxDepth |-> Max({1, request.maxTokens}),
      totalBudget |-> request.budgetTokens, perBranchBudget |-> request.maxTokens,
      externalValues |-> consensus, killMargin |-> IF consensus THEN 0 ELSE NoMargin,
      maxPending |-> maxPending, request |-> request]

ASSUME TreeEngineAssumption ==
  /\ {PromptTokens, PageSize, ValueMinKeep, ValueCheckInterval} \subseteq Nat \ {0}
  /\ {ValueMargin, ValueWarmup} \subseteq Nat
  /\ \A c \in Configs : LET r == c.request IN
       /\ c = SchedulerConfig(r, c.maxPending)
       /\ r.logprob \in [DOMAIN r.logprob -> Int] /\ r.stopTokens \subseteq DOMAIN r.logprob
       /\ r.minSurvivors \in Nat \ {0} /\ r.agreements \subseteq Int
       /\ r.branches \in 1 .. c.maxPending  \* the server: branches <= 64

VARIABLES
  phase,       \* where in the loop or in advance_batch
  commands,    \* the deque of commands polled and not carried out
  batch,       \* the branches of the Continue commands taken together
  todo,        \* what is left of the list the phase iterates
  scores,      \* scores_by_branch of the last feed_consensus_values
  parents,     \* parents of the branches created
  path,        \* the tokens sampled on the way to each branch
  own,         \* token_counts: how many of them the branch sampled itself
  active,
  stopping,    \* exhaustion_pending
  finalized,
  merged,
  valuePruned, \* value_pruned
  prunedCount, \* pruned_count
  kv,          \* the branches the cache holds
  unsent,      \* events of this batch that are not yielded yet
  stream,      \* the server's accumulator
  reused,      \* the ratio of best_snapshot is at least 1
  outcome      \* "running", "done", or what the generation failed with

batchVars == <<phase, commands, batch, todo, scores>>
branchVars == <<parents, path, own, active, stopping, finalized, merged,
                valuePruned, prunedCount, kv>>
streamVars == <<unsent, stream, reused>>
vars == <<scheduler, batchVars, branchVars, streamVars, outcome>>

Logprob == config.request.logprob      \* of each token that can be sampled
Tokens == DOMAIN Logprob
StopTokens == config.request.stopTokens  \* those that end their branch
MinSurvivors == config.request.minSurvivors
\* What consensus_scores can give, before it protects the MinSurvivors best.
ConsensusScores == config.request.agreements
ValuePruning == config.request.policy = "emvpt"

-----------------------------------------------------------------------------
None == NoBranch

Created == DOMAIN parents
Completion == SumFunctionOnSet(own, Created)  \* completion_tokens
Logprobs(tokens) == FoldLeft(LAMBDA sum, tok : sum + Logprob[tok], 0, tokens)
OwnTokens(b) == SubSeq(path[b], Len(path[b]) - own[b] + 1, Len(path[b]))

Aligned(b) == (PromptTokens + Len(path[b])) % PageSize = 0

\* TreeState.prune: only a live branch without live children.
Prunable(b) == b \in kv /\ \A c \in kv : parents[c] # b

\* The page that position n of a branch lies in.  A full page is shared by who
\* has the same tokens so far; a tail by the one that wrote it last and those
\* that were forked from it since.
PageOf(n, text, b, spent, ancestry) ==
  LET writer[c \in DOMAIN spent] ==
        IF spent[c] > 0 \/ ancestry[c] = None THEN c ELSE writer[ancestry[c]]
      end == ((n - 1) \div PageSize + 1) * PageSize - PromptTokens
  IN IF end <= Len(text) THEN <<end, SubSeq(text, 1, end)>> ELSE <<end, writer[b]>>

\* A snapshot of the cache in which the pages of the branches held have no more
\* slots than these have tokens: its kv_reuse_ratio is at least 1.
Reuses(held, text, spent, ancestry) ==
  LET positions(b) == 1 .. PromptTokens + Len(text[b])
      pages == UNION {{PageOf(n, text[b], b, spent, ancestry) : n \in positions(b)} : b \in held}
  IN MapThenSumSet(LAMBDA b : PromptTokens + Len(text[b]), held)
       >= Cardinality(pages) * PageSize

Fail(reason) ==
  /\ outcome' = reason
  /\ UNCHANGED <<scheduler, batchVars, branchVars, streamVars>>

\* feed_event with the result s; the error of a policy ends the generation.
Fed(s) ==
  /\ Install(Tick(s))
  /\ outcome' = IF s.ok THEN "running" ELSE "refused"

At(p) == outcome = "running" /\ phase = p

Offered(op) == commands # <<>> /\ Head(commands).op = op

Init ==
  /\ NewScheduler
  /\ phase = "take" /\ commands = <<>> /\ batch = <<Root>>
  /\ todo = <<>> /\ scores = <<>>
  /\ parents = [b \in {Root} |-> None]
  /\ path = [b \in {Root} |-> <<>>] /\ own = [b \in {Root} |-> 0]
  /\ active = {Root} /\ kv = {Root}
  /\ stopping = {} /\ finalized = {} /\ merged = {} /\ valuePruned = {}
  /\ prunedCount = 0
  /\ unsent = <<>> /\ stream = Accept(NewStream, Started(Root, None))
  /\ reused = Reuses(kv, path, own, parents)
  /\ outcome = "running"

-----------------------------------------------------------------------------
(* advance_batch: a forward, then the events it makes.                     *)

BatchComplete == At("take") /\ todo = <<>>

\* The checks, and the forward: decode or decode_batch.
Decode ==
  /\ BatchComplete
  /\ IF \/ ~IsInjective(batch) \/ ~(Range(batch) \subseteq active)
        \/ Completion + Len(batch) > TotalBudget
     THEN Fail("overrun")
     ELSE /\ phase' = IF batch = <<>> THEN "loop" ELSE "feed"
          /\ todo' = batch
          /\ UNCHANGED <<scheduler, commands, batch, scores, branchVars,
                         streamVars, outcome>>

\* The cache has no page for a token of the batch.
OutOfPages == BatchComplete /\ batch # <<>> /\ Fail("capacity")

\* Fault: the index counts the tokens of the whole path.
TokenIndexOnPath(b) == Len(path[b])

TokenIndex(b) == own[b]

\* The next branch's token is fed to the scheduler.
FeedToken(token) ==
  /\ At("feed") /\ todo # <<>>
  /\ LET b == Head(todo)
     IN IF ~AcceptsToken(b) THEN Fail("refused")
        ELSE /\ \E s \in Sampled(b, Logprob[token], token \in StopTokens) : Fed(s)
             /\ path' = [path EXCEPT ![b] = Append(@, token)]
             /\ own' = [own EXCEPT ![b] = @ + 1]
             /\ stopping' = IF token \in StopTokens THEN stopping \cup {b} ELSE stopping
             /\ unsent' = Append(unsent, TokenEvent(b, TokenIndex(b), token))
             /\ todo' = Tail(todo)
             /\ UNCHANGED <<phase, commands, batch, scores, parents, active,
                            finalized, merged, valuePruned, prunedCount, kv, stream, reused>>

\* consensus_scores of the live branches: equal texts score alike, and the
\* MinSurvivors best share the best score.
Agreements(live) ==
  LET ahead(raw, b) ==
        {a \in live : raw[a] > raw[b] \/ (raw[a] = raw[b] /\ a < b)}
      shielded(raw, b) == Cardinality(ahead(raw, b)) < MinSurvivors
      raws == {f \in [live -> ConsensusScores] :
                 \A a, b \in live : path[a] = path[b] => f[a] = f[b]}
  IN {[b \in live |-> IF shielded(raw, b) THEN Max(Range(raw)) ELSE raw[b]] : raw \in raws}

\* Fault: what the scheduler has closed meanwhile is not left out.
ToScoreStale(S) == S \ stopping

ToScore(S) == {b \in S \ stopping : IsLive(tree, b)}

\* feed_consensus_values lists what it will score, and scores it.
ListValues ==
  /\ At("feed") /\ todo = <<>>
  /\ phase' = "score"
  /\ LET pending == IF ExternalValues THEN ToScore(Range(batch)) ELSE {}
     IN /\ todo' = Ascending(pending)
        /\ scores' \in IF pending = {} THEN {<<>>} ELSE Agreements(ToScore(active))
  /\ UNCHANGED <<scheduler, commands, batch, branchVars, streamVars, outcome>>

FeedValue ==
  /\ At("score") /\ todo # <<>>
  /\ LET b == Head(todo)
     IN IF ~AcceptsValue(b) THEN Fail("refused")
        ELSE /\ \E s \in Scored(b, scores[b]) : Fed(s)
             /\ todo' = Tail(todo)
             /\ UNCHANGED <<phase, commands, batch, scores, branchVars, streamVars>>

\* The branches whose own tokens are, on average, further than ValueMargin
\* below the best of their siblings, the worst first, as many as may go.
\* Averages are compared without dividing.
LowValue ==
  LET live == {b \in active \ stopping : tree.state[b] = "active"}
      begun == {b \in live : own[b] > 0}
      sum == [b \in live |-> Logprobs(OwnTokens(b))]
      gap(a, b) == sum[a] * own[b] - sum[b] * own[a]
      due(b) == own[b] >= ValueWarmup /\ own[b] % ValueCheckInterval = 0
      low == {b \in begun : due(b) /\ \E a \in begun :
                parents[a] = parents[b] /\ gap(a, b) > ValueMargin * own[a] * own[b]}
      worse(a, b) == gap(a, b) < 0 \/ (gap(a, b) = 0 /\ a < b)
      ranked == Sorted(low, worse)  \* beams are all siblings
      available == Cardinality(live) - ValueMinKeep
  IN IF ValuePruning /\ low # {} /\ available > 0
     THEN SubSeq(ranked, 1, Min({Len(ranked), available})) ELSE <<>>

ListLowValue ==
  /\ At("score") /\ todo = <<>>
  /\ phase' = "value" /\ todo' = LowValue
  /\ UNCHANGED <<scheduler, commands, batch, scores, branchVars, streamVars, outcome>>

\* Fault: the scheduler is not told.
ReportNothing(b) == UNCHANGED <<scheduler, outcome>>

Report(b) == \E s \in Exhausted(b) : Fed(s)

PruneLowValue ==
  /\ At("value") /\ todo # <<>>
  /\ LET b == Head(todo)
     IN IF ~Prunable(b) THEN Fail("misaligned")
        ELSE /\ IF AcceptsExhausted(b) THEN Report(b)
                ELSE UNCHANGED <<scheduler, outcome>>
             /\ active' = active \ {b} /\ stopping' = stopping \ {b} /\ kv' = kv \ {b}
             /\ valuePruned' = valuePruned \cup {b}
             /\ prunedCount' = prunedCount + 1
             /\ unsent' = Append(unsent, Pruned(b))
             /\ todo' = Tail(todo)
             /\ UNCHANGED <<phase, commands, batch, scores, parents, path, own,
                            finalized, merged, stream, reused>>

\* merge_converged_branches: what it merges into what, and whether it feeds
\* branch_exhausted for it, given the commands just polled.
Merges(polled) ==
  LET named(ops) == {polled[i].branch : i \in {j \in DOMAIN polled : polled[j].op \in ops}}
      closed == named({"kill", "finalize"})
                  \cup {b \in active : tree.state[b] \in {"killed", "finalized"}}
      expanding == named({"fork"}) \cup {b \in active : tree.state[b] = "expanded"}
      eligible == {b \in active \ (stopping \cup expanding) : Aligned(b)}
      twins(b) == {a \in eligible : path[a] = path[b]}
      open(b) == twins(b) \ closed
      target(b) == IF open(b) # {} THEN Min(open(b)) ELSE Min(twins(b))
      goes == {b \in eligible : target(b) # b}
      before(a, b) == \/ Min(twins(a)) < Min(twins(b))
                      \/ Min(twins(a)) = Min(twins(b)) /\ a < b
      order == Sorted(goes, before)
  IN [i \in DOMAIN order |-> [branch |-> order[i], into |-> target(order[i]),
                              feed |-> order[i] \notin closed]]

\* The commands are polled, and the pages deduplicated when it is time.
PollCommands ==
  /\ At("value") /\ todo = <<>>
  /\ commands' = commands \o queue /\ TakeQueue
  /\ phase' = "merge"
  /\ todo' = Merges(queue)
  /\ reused' = (reused \/ Reuses(kv, path, own, parents))
  /\ UNCHANGED <<batch, scores, branchVars, unsent, stream, outcome>>

MergeBranch ==
  /\ At("merge") /\ todo # <<>>
  /\ LET b == Head(todo).branch
     IN IF Head(todo).feed /\ ~AcceptsExhausted(b) THEN Fail("refused")
        ELSE IF ~Prunable(b) THEN Fail("misaligned")
        ELSE /\ IF Head(todo).feed THEN Report(b)
                ELSE UNCHANGED <<scheduler, outcome>>
             /\ active' = active \ {b} /\ stopping' = stopping \ {b} /\ kv' = kv \ {b}
             /\ merged' = merged \cup {b}
             /\ unsent' = Append(unsent, MergedInto(b, Head(todo).into))
             /\ todo' = Tail(todo)
             /\ UNCHANGED <<phase, commands, batch, scores, parents, path, own,
                            finalized, valuePruned, prunedCount, stream, reused>>

\* The events of the batch are yielded.
FinishBatch ==
  /\ At("merge") /\ todo = <<>>
  /\ commands' = commands \o queue /\ TakeQueue
  /\ stream' = FoldLeft(Accept, stream, unsent) /\ unsent' = <<>>
  /\ reused' = (reused \/ Reuses(kv, path, own, parents))
  /\ phase' = "loop" /\ batch' = <<>>
  /\ UNCHANGED <<todo, scores, branchVars, outcome>>

-----------------------------------------------------------------------------
(* The command loop.                                                       *)

Taking(op) == At("loop") /\ Offered(op)

Gone(b) == b \in merged \cup valuePruned

\* A command for a branch that was merged or pruned for its value is skipped.
SkipCommand ==
  /\ \E op \in {"continue", "fork", "kill", "finalize"} : Taking(op)
  /\ Gone(Head(commands).branch)
  /\ commands' = Tail(commands)
  /\ UNCHANGED <<scheduler, phase, batch, todo, scores, branchVars, streamVars, outcome>>

\* Consecutive Continues are taken together ...
TakeContinues ==
  /\ Taking("continue") /\ ~Gone(Head(commands).branch)
  /\ LET together(n) == \A i \in 1 .. n : commands[i].op = "continue"
         run == Max({n \in 1 .. Len(commands) : together(n)})
     IN /\ todo' = [i \in 1 .. run |-> commands[i].branch]
        /\ commands' = SubSeq(commands, run + 1, Len(commands))
  /\ phase' = "take"
  /\ UNCHANGED <<scheduler, batch, scores, branchVars, streamVars, outcome>>

\* ... those of branches that are closed by now are dropped, and a branch that
\* stopped is reported instead.
JoinBatch ==
  /\ At("take") /\ todo # <<>>
  /\ LET b == Head(todo)
     IN IF b \notin active \/ tree.state[b] # "active"
        THEN UNCHANGED <<scheduler, commands, batch, stopping, outcome>>
        ELSE IF b \in stopping
        THEN \E s \in Exhausted(b) :
               /\ Fed([s EXCEPT !.queue = <<>>])
               /\ commands' = commands \o s.queue
               /\ stopping' = stopping \ {b}
               /\ UNCHANGED batch
        ELSE /\ batch' = Append(batch, b)
             /\ UNCHANGED <<scheduler, commands, stopping, outcome>>
  /\ todo' = Tail(todo)
  /\ UNCHANGED <<phase, scores, parents, path, own, active, finalized,
                 merged, valuePruned, prunedCount, kv, streamVars>>

NewBranches == Cardinality(Created) .. Cardinality(Created) + ForkWidth - 1
StartOne(s, c) == Accept(s, Started(c, Head(commands).branch))

TakeFork ==
  /\ Taking("fork") /\ ~Gone(Head(commands).branch)
  /\ LET b == Head(commands).branch
         children == NewBranches
         born(f, value) ==
           [c \in DOMAIN f \cup children |-> IF c \in children THEN value ELSE f[c]]
     IN IF b \notin active THEN Fail("misaligned")
        ELSE /\ parents' = born(parents, b)
             /\ path' = born(path, path[b])
             /\ own' = born(own, 0)
             /\ active' = (active \ {b}) \cup children
             /\ stopping' = IF b \in stopping THEN (stopping \ {b}) \cup children
                            ELSE stopping
             /\ kv' = kv \cup children
             /\ stream' = FoldLeft(StartOne, stream, Ascending(children))
             /\ reused' = (reused \/ Reuses(kv', path', own', parents'))
             /\ commands' = Tail(commands)
             /\ UNCHANGED <<scheduler, phase, batch, todo, scores, finalized,
                            merged, valuePruned, prunedCount, unsent, outcome>>

TakeKill ==
  /\ Taking("kill") /\ ~Gone(Head(commands).branch)
  /\ LET b == Head(commands).branch
     IN IF ~Prunable(b) THEN Fail("misaligned")
        ELSE /\ active' = active \ {b} /\ stopping' = stopping \ {b} /\ kv' = kv \ {b}
             /\ prunedCount' = prunedCount + 1
             /\ stream' = Accept(stream, Pruned(b))
             /\ commands' = Tail(commands)
             /\ UNCHANGED <<scheduler, phase, batch, todo, scores, parents, path,
                            own, finalized, merged, valuePruned, unsent, reused, outcome>>

TakeFinalize ==
  /\ Taking("finalize") /\ ~Gone(Head(commands).branch)
  /\ LET b == Head(commands).branch
     IN IF ~Prunable(b) THEN Fail("misaligned")
        ELSE /\ active' = active \ {b} /\ stopping' = stopping \ {b} /\ kv' = kv \ {b}
             /\ finalized' = finalized \cup {b}
             /\ commands' = Tail(commands)
             /\ UNCHANGED <<scheduler, phase, batch, todo, scores, parents, path,
                            own, merged, valuePruned, prunedCount, streamVars, outcome>>

Ahead(v, w) == \E i \in DOMAIN v : v[i] > w[i] /\ \A j \in 1 .. i - 1 : v[j] = w[j]
Best(S, rank(_)) == {x \in S : \A y \in S \ {x} : Ahead(rank(x), rank(y))}

Likelihood(b) == Logprobs(path[b])

\* The finalized branches by their answers; a text without one stands alone.
Groupings ==
  LET group(f, b) == {a \in finalized : f[a] = f[b]}
      grouping(f) == {group(f, b) : b \in finalized}
      alike(f) == \A a, b \in finalized : path[a] = path[b] =>
                    f[a] = f[b] \/ Cardinality(group(f, a)) = 1
  IN {grouping(f) : f \in {g \in [finalized -> finalized] : alike(g)}}

\* _select_winner: the best average log-probability, or the likeliest branch of
\* the answer with the most votes.  Averages are compared without dividing.
Winners ==
  LET votes(group) ==
        <<Cardinality(group), MapThenSumSet(Likelihood, group),
          Max({Likelihood(b) : b \in group}), -Min(group)>>
      likeliest(b) == <<Likelihood(b), -b>>
      lengths == {Max({1, Len(path[b])}) : b \in finalized}
      average(b) == <<Likelihood(b) * (ProductSet(lengths) \div Max({1, Len(path[b])})), -b>>
  IN IF ExternalValues
     THEN UNION {Best(group, likeliest) : group \in UNION {Best(groups, votes) : groups \in Groupings}}
     ELSE Best(finalized, average)

\* The values of the branches are reported when values prune them.
SummaryKind == IF ValuePruning THEN "extended" ELSE "plain"

Done(b) ==
  [type |-> "done", branch |-> b, text |-> path[b], completion |-> Completion,
   summary |-> SummaryKind,
   branches |-> Cardinality(Created), pruned |-> prunedCount + Cardinality(finalized \ {b}),
   merged |-> Cardinality(merged), spent |-> own, reused |-> reused]

PruneOne(s, b) == Accept(s, Pruned(b))

EndGeneration ==
  /\ At("loop") /\ commands = <<>>
  /\ IF active # {} THEN Fail("stalled")
     ELSE IF finalized = {} THEN Fail("empty")
     ELSE \E winner \in Winners :
            LET losers == FoldLeft(PruneOne, stream, Ascending(finalized \ {winner}))
            IN /\ stream' = Accept(losers, Done(winner))
               /\ prunedCount' = prunedCount + Cardinality(finalized \ {winner})
               /\ outcome' = "done"
               /\ UNCHANGED <<scheduler, batchVars, parents, path, own, active, stopping,
                              finalized, merged, valuePruned, kv, unsent, reused>>

Next ==
  \/ Decode \/ OutOfPages
  \/ \E token \in Tokens : FeedToken(token)
  \/ ListValues \/ FeedValue
  \/ ListLowValue \/ PruneLowValue
  \/ PollCommands \/ MergeBranch \/ FinishBatch
  \/ SkipCommand \/ TakeContinues \/ JoinBatch \/ TakeFork \/ TakeKill \/ TakeFinalize
  \/ EndGeneration

Spec == Init /\ [][Next]_vars

\* The coroutine runs on: the server keeps asking for the next event.  This is
\* WF_vars(Next) in a system that can step as long as it is running, which is
\* what the deadlock check of the runs says.
Running == outcome = "running"
Over == ~Running /\ UNCHANGED vars
FairSpec ==
  Init /\ [][Next \/ Over]_vars /\ ([]<>~Running \/ []<><<Next>>_vars)

-----------------------------------------------------------------------------
\* What the engine holds once the commands it has been given are carried out.
Carry(v, c) ==
  CASE c.op = "fork" ->
         LET children == v.size .. v.size + ForkWidth - 1
         IN [active |-> (v.active \ {c.branch}) \cup children,
             kv |-> v.kv \cup children, size |-> v.size + ForkWidth]
    [] c.op \in {"kill", "finalize"} ->
         [v EXCEPT !.active = @ \ {c.branch}, !.kv = @ \ {c.branch}]
    [] OTHER -> v

CarriedOut ==
  FoldLeft(Carry, [active |-> active, kv |-> kv, size |-> Cardinality(Created)],
           SelectSeq(commands \o queue, LAMBDA c : ~Gone(c.branch)))

\* The engine never loses step with the scheduler: once the commands on their
\* way are carried out it has created the same branches, advances the same
\* ones and holds the KV pages of exactly those that are alive.
InStepWithScheduler ==
  outcome = "running" =>
    /\ CarriedOut.active = ActiveFrontier(tree)
    /\ CarriedOut.kv = {b \in Ids : IsLive(tree, b)}
    /\ CarriedOut.size = Size(tree)

\* Beams of two tokens, the one they share and one of their own, are a case
\* apart: see ContinueAuthorizes.
BeamsGrow == Policy = "beam" => PerBranchBudget # 2

\* Every event the engine feeds is one the scheduler accepts at that moment,
\* although the branches were listed, and their tokens decoded, before the
\* events fed ahead of it.
NoEventRefused == BeamsGrow => outcome # "refused"

\* A Continue authorizes one decode step: the scheduler takes the token that
\* was decoded for it, whatever the tokens of the batch before it have done.
ContinueAuthorizes == At("feed") /\ todo # <<>> => AcceptsToken(Head(todo))

\* No command finds the cache in a state in which it cannot be carried out.
CommandsCarriedOut == outcome # "misaligned"

\* Every value is fed before its deadline, also when the branches of a batch
\* are as many as the events a value may be late: none is replaced by a proxy
\* (and so resolve_expired_pending_scores has nothing to do here).
ValuesInTime == Expired = {}

\* The server accepts every event in the order it is yielded: no token of a
\* branch after its end, no branch ended twice or merged into an ended one,
\* and a final account that agrees with what was streamed.
StreamAccepted == ~stream.error

\* A generation that is done has given back every branch of the cache and
\* told the server the end of every branch.
NothingLeftBehind == outcome = "done" => kv = {} /\ stream.finished

\* A generation comes to its end, and fails for want of pages only, as long as
\* no token stops a branch and its beams grow.
GenerationSucceeds ==
  StopTokens = {} /\ BeamsGrow => <>(outcome \in {"done", "capacity"})
=============================================================================
