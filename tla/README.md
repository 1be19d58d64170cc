# Verification of AutoTree

AutoTree serves tree-structured generation: a request grows a tree of branches
that share a prefix, a scheduler decides which branches live, a paged cache
keeps their keys and values once per shared page, and a server turns what
happens into an event stream. This directory holds TLA+ models of that system,
TLC configurations that check them on small instances, and TLAPS proofs that
hold for instances of every size. Paths are relative to the repository (`src/`).

    tlc -config TreeKV.cfg MCTreeKV.tla      # model-check the cache
    tlc -config Engine.cfg MCTreeEngine.tla  # whole generations
    tlc -config Bench.cfg Bench.tla          # a benchmark that is killed and resumed
    tlapm TreeKVProofs.tla                   # check the proofs

`PROJECT.json` lists the components, the runs, the source lines each definition
translates, the hazards of the code and the properties that cover them, and for
every checked property one mutant of the code that breaks it (operators
commented `Fault:` in the modules).

## 1. The system

| Component | State | Operations | Talks to |
|---|---|---|---|
| Tree KV cache `core/autotree_core/kv` | pages with reference counts and valid lengths, a heap of free ids, branches with parent, children, length and block table, the logical token count | `fork`, `append_tokens`, `prune`, `dedup_scan`, `gather_branch_kv` | called by the executor |
| Model executor `core/autotree_core/modeling` | per execution: the KV tree, logits, token ids; per process: a lock and the attention function of the model's module | `prefill`, `decode`, `decode_batch`, `fork`, `prune`, `deduplicate` | cache, kernels, other executions |
| Kernels `core/autotree_core/kernels` | none | attention over block tables | executor |
| Branch scheduler `scheduler/src` | arena of branches, command queue, outstanding Continues, budget used, values awaited with deadlines, deferred budget endings, the policy | `feed_event` (token, exhausted branch, value), `poll_commands`, `drain` | events from the engine, commands to it |
| Adaptive forking `scheduler/src/adaptive.rs` | last fork per branch | decides a fork from an entropy | inside `feed_event` |
| Python binding `scheduler/src/python.rs` | none of its own | converts events and commands | engine, scheduler |
| Tree KV engine `core/autotree_core/engine/treekv.py` | one generation: its own branch sets, texts, counters, deque of commands | `generate`, a coroutine: forward, feed events, merge, prune by value, carry out commands, yield events | scheduler, executor, server |
| Consensus, answers `core/autotree_core/engine` | none | `consensus_scores`, `extract_final_answer` | engine |
| Engine runner `serve/autotree_serve/runner.py` | semaphore, admission flag, counters, drained event, per request a worker thread and its queue | `generate`, `shutdown` | HTTP application, engine |
| HTTP application `serve/autotree_serve/app.py` | per request an `EventAccumulator` | completions in one answer, two kinds of stream | runner, clients |
| Deterministic engine `serve/autotree_serve/engine.py` | none | `generate`: a tree drawn from the request's seed | runner |
| Enterprise middleware `enterprise.py` | per tenant a window and the tokens used in it | `reserve`, `settle`, authenticate, audit | application |
| Metrics `metrics.py` | gauges and counters | `observe_event` | application, runner |
| SDK `sdk/autotree_sdk` | per trace: branches, terminals | `rollout`, `stream_tree_completions`, `TraceAssembler.add`, `finish` | the server's stream |
| Thoughtbench `thoughtbench` | a journal of samples, a results file | `run_benchmark`, `run_harness` | the server |
| Figures, deployment | none | plots, manifests | result files |

What is hard about it, and what makes each component correct:

* **Cache.** Everything is shared: after a dedup scan one block table can name a
  page twice and two branches one page, and a later append, fork or prune must
  count every occurrence. Correct means: what a branch reads is what was appended
  to it and, before the fork, to its ancestors; reference counts are exact; no
  page leaks and none in use is recycled; an append that is refused changes
  nothing. A test fixes one order of calls, and the mistakes need several.
* **Executor.** A batched decode has no cache but the pages: it replaces an
  attention function all threads look up, and appends its rows branch by branch,
  until the pages run out. Correct means: every row is computed over the tokens
  of its own branch, and logits and tokens never disagree with it.
* **Scheduler.** Events arrive in any order. A Continue is granted long before
  its token comes back, and in between the branch can be killed, forked or
  exhausted and the budget used up; values come late or never; a branch whose
  budget ran out before its value came ends only when it does. Correct means: the
  commands alone rebuild the tree; one budget unit is reserved per granted
  Continue; a granted step is refused only if its branch is over by then; the search
  neither stops early nor gets stuck.
* **Engine.** It trails the scheduler: commands are carried out long after they
  were decided, and lists are made before the events that can make them stale
  are fed. Correct means: once the deque is empty the two agree on every branch;
  no event is refused and no command impossible; all pages come back; the server
  accepts the stream; the generation ends.
* **Runner, quota, metrics.** Cancellation can hit every await; a generator
  dropped at its yield is closed later by the event loop; a reservation can be
  settled after its window ended. Correct means: slots are neither lost nor
  doubled, `shutdown` returns and has waited for every generation that was not cut
  off, no tenant overspends a window, an answer that says it is complete is.
* **Streams and SDK.** Two acceptors of the same events, the server's and the
  SDK's, on the two ends of a connection that may break. Correct means: what the
  first lets through the second accepts, wherever the two say what they require of the
  same thing, and only whole trees are kept.
* **Thoughtbench.** Results come in any order, a sample may fail, the process may
  be killed while it writes. Correct means: the results file depends on none of
  that, and nothing is asked twice that the journal holds.

## 2. The modules

| Module | Models |
|---|---|
| `BranchStore` | what the cache promises: independent token sequences, one per branch |
| `TreeKV` | the cache: page pool, branches, copy on write, dedup scan |
| `TreeKVProofs` | theorems about `TreeKV` |
| `Executor` | one execution over `TreeKV`, and the forwards of several threads |
| `BranchTree` | the scheduler's arena of branches |
| `SchedulerCore` | the scheduler's state, the three policies, what each event makes of it |
| `BranchScheduler` | the scheduler under the most general driver |
| `SchedulerProofs` | theorems about `BranchScheduler` |
| `EventStream` | the server's acceptor of engine events |
| `TreeEngine` | one generation: the engine's loop, over `SchedulerCore` and `EventStream` |
| `Serving` | requests, quota, runner, worker threads, shutdown |
| `ServingProofs` | theorems about `Serving` |
| `ExecutorProofs` | theorems about `Executor`, from those about `TreeKV` |
| `Rollout` | the SDK's rollout against an engine, over `EventStream` |
| `RolloutProofs` | theorems about `Rollout` |
| `Bench` | benchmark and harness processes, their pool, journal and results |
| `BenchProofs` | theorems about `Bench` |
| `TreeEngineProofs` | theorems about `TreeEngine` |
| `SharedLemmas` | lemmas that several of these need: finite orders and counts, induction over numbers, folds |
| `MCTreeKV`, `MCExecutor`, `MCBranchScheduler`, `MCTreeEngine`, `MCServing` | values for TLC (`Bench` and `Rollout` need none) |

**TreeKV.** One action per public call of `TreeState` (`Fork`, `Prune`,
`Appends`, `DedupScan`). A call that raises its documented error changes
nothing and is therefore no step. `append_tokens` of several tokens is one step
that applies the single-token append repeatedly, as the code does under one
capacity check. K/V rows are opaque tokens; the slots of a page and its valid
length are one sequence. The free heap is a set whose least element is taken. A
dedup scan compares bytes within a digest group, which is equality of pages, so
digests do not appear. `BranchStore` is implemented with the refinement mapping
`content[b] <- Gather(b)`, the rows `gather_branch_kv` would return.

**Executor.** Instantiates `TreeKV` with token sequences as rows: a row is what
it was computed from. A forward enters under the lock, calls its attention once
per layer and leaves, or raises; what it computed is appended in the steps after
it (`StorePrompt`, `StoreRow`), of which `BatchBreaksOff` is the one that finds no
page. Only `Mine` works on the execution, other threads run forwards of their own.
A batched decode remembers the attention it found (`forward[t].original`) and puts
that back when it leaves. The attention of a batched decode raises in a forward of
another kind that meets it (`Refused`); a batched decode that meets the model's own has no
cache to read.

**SchedulerCore, BranchScheduler.** One event is one step. `process_event` is
a chain of operators on a record of the scheduler's fields, in the code's
order: record the event, terminate the tree or prune speculatively and ask the
policy, reclaim ancestors of killed branches, enqueue with withdrawal and
reservation. `resolve_expired_pending_scores` runs before `feed_event` returns;
its turns are steps of their own (`ResolveExpired`), and no other step can come
between (`Idle`). The driver of `BranchScheduler` polls, samples what it was
told to continue, reports values and exhausted branches, each when it likes:
every caller of the interface is one of its behaviours. A token that comes when the
branch has been closed or forked meanwhile, or that follows another one of its batch
which did that, is refused before it changes anything (`TokenRefused`); `granted`
therefore keeps what was polled until it is answered. The driver replays the commands
into a `mirror` tree. The configuration is a variable chosen in `Init`, so that
one run covers several; what its driver may report is part of it.

**TreeEngine.** `phase` says where in `advance_batch` or the command loop the
coroutine is, and `todo` what is left of the list iterated there. Each event fed
and each command carried out is a step, because that is where lists go stale:

    loop --TakeContinues--> take --JoinBatch*--> Decode --> feed --FeedToken*-->
    ListValues --> score --FeedValue*--> ListLowValue --> value --PruneLowValue*-->
    PollCommands --> merge --MergeBranch*--> FinishBatch --> loop
    loop --TakeFork | TakeKill | TakeFinalize | SkipCommand--> loop --> EndGeneration

A `RuntimeError` or `KeyError` of the code is an `outcome`: `refused` (the
scheduler refused an event), `misaligned` (a command cannot be carried out),
`overrun`, `stalled`, `empty`; `capacity` is the documented lack of pages.

**EventStream.** `EventAccumulator.accept` as a function from accumulator and
event to accumulator, with `error` for `EngineContractError`. A done event has a
summary of the tree, checked by `SummaryFits`; or none, and nothing is checked
(`app.py:145`); or one with the fields that only pruning by value fills
(`treekv.py:651-666`).

**Serving.** The event loop runs one coroutine from await to await, and these are
the steps; `stage` says where a request awaits. `Reserve` to `Settle` is the
middleware around a request, `Generate`, `Resume` and `Leave` are
`EngineRunner.generate` with its two `finally` clauses, `TakeItem`, `Send` and
`Join` the loop of `_generate_in_worker` together with the handler that consumes
it. `StartBranch`, `MakeToken`, `WorkerEnds` and `ThreadExits` are the thread.
`Cancel` raises `CancelledError` at any of the awaits; a generator that was at its
yield is put into `abandoned` and closed by `CloseGenerator`. `asyncio.Semaphore`
is modelled from CPython's: `release` promises the slot to the first waiter that
has none, and a waiter that is cancelled after that passes it on.

**Rollout.** The engine is the deterministic one, with its script drawn when the
request comes, or any engine at all, which may also yield events that do not fit.
The server's accumulator lets an event through or cuts the response; `wire` holds
the frames on their way; the connection may be lost with any of them unread, and
one of them torn. The client reads a frame; the models of the SDK parse it, which is
where a done event without a summary, or with fields they do not know, is refused
(`ParseErrors`); then it is given to the assembler. Pages may run out also after the
done event: the error frame that follows it is the client's to refuse.

**Bench.** A process is `pc` and its memory; `journal`, `results` and `artifact`
are on disk. A line of the journal is the sequence of records, whole or torn, that
were written onto it. `Crash` may come anywhere, `CrashInAppend` in the middle of
a record. The next process is started with any of the configurations.

### Abstractions

* Log-probabilities and values are small integers: the code adds and compares
  them. A mean is compared by cross-multiplication.
* UCT of the MCTS policy is over-approximated: with no unvisited child, any live
  child may be selected.
* `consensus_scores` gives any scores that agree on equal texts, then protects
  `min_survivors`; interval and warm-up are covered, since equal scores are
  among them. Which final answers are equal is any grouping that agrees on equal
  texts.
* Any sampled token may end a branch if it is in `StopTokens`; stop strings are
  tokens here.
* In `TreeEngine` the cache is the set of branches it holds. Two branches share
  their last page after a scan iff their tokens agree on whole pages: equal
  prefixes are taken to have equal K/V rows, whatever the batch they ran in.
* `OutOfPages` may happen at any forward; admission by page count is not
  modelled.
* In `Executor` the rows of a batch are what the plain linear layers give:
  `_branchwise_cpu_linears` computes the same results in another order.
* `Serving` has one tenant with a limit. A generation is one branch, its tokens
  and an end, of any length up to what was asked. The audit record is `fate` and
  the tokens at `Settle`. The requests' bodies are valid, or refused at once.
* A rollout's branches are numbered as they start; words are model values; the
  assembler of `stream_tree_completions` and the one of `rollout` see the same
  events one after the other and are one. Of parsing only what two sides can
  disagree about is left: the summary. Policies and finish reasons are from the lists of
  both.
* A sample is whether its answer was correct, was not, or failed for good;
  metrics are counts of tasks, not means.
* Kill reasons, token ids, times, names and texts of errors are left out.

## 3. What TLC checks

| Run | Instance | Properties |
|---|---|---|
| `cache` | 3 pages of 2 slots, 3 branches, 4 tokens per branch, appends of up to 3, 2 tokens (symmetric) | `PagesAccounted`, `CoverageExact`, `LogicalExact`, `SharedPagesImmutable`, `DedupComplete`, `ImplementsStore` |
| `search` | beam with and without late values, best-first twice and MCTS on late values; budgets of 5 or 6, deadline 2 events, at most 9 branches | `CommandsReplayTheTree`, `ReservationsExact`, `RefusedOnlyWhenOver`, `DeferredEndingsAwaitAValue`, `SomethingFinalized`, `NoZombieParents`, `SearchEnds` |
| `engine` | 3 beams with value pruning, budget 10; 3 beams scored by agreement, budget 7, end-of-sequence tokens; a value may be 3 events late | `InStepWithScheduler`, `NoEventRefused`, `ValuesInTime`, `StreamAccepted`, `NothingLeftBehind`, `GenerationSucceeds` |
| `executor` | 3 pages of 2 slots, 3 branches, 3 tokens per branch, 2 layers, one other thread | `RowsMatchTokens`, `LogitsCurrent`, `OwnAttention` |
| `serving` | 2 requests (a collected answer and a tree stream, 1 and 2 tokens), 1 slot, limit 2, 1 new window, 2 cancellations | `SlotsConserved`, `QuotaExact`, `GaugeExact`, `AnswersComplete`, `ShutdownDrains`, `RequestsEnd`, `ShutdownEnds` |
| `bench` | 1 task sampled 3 times, 2 threads, 2 configurations, 2 starts, both commands | `ResultsReproducible`, `OneConfiguration`, `NeverRunAgain`, `ArtifactInOrder`, `ProcessesEnd` |
| `rollout` | 2 prompts, 3 branches, 3 tokens, 1 frame on its way | `AcceptorsAgree`, `ExportsFaithful`, `DemoAccepted`, `OnlyWholeTrees`, `RolloutEnds` |
| `search_stall` | beam, width 2, a branch that stops | `NeverStalled` violated |
| `engine_dedup` | best-first, 2 branches, pages of 2, budget 6, merges | `CommandsCarriedOut` violated |
| `engine_budget` | 3 beams of 2 tokens each | `ContinueAuthorizes` violated |
| `serving_workers` | 3 requests for 1 slot, 1 cancellation | `WorkersBounded` violated |
| `bench_resume` | 3 samples, 1 configuration, 3 starts | `AlwaysResumes` violated |

Types are not among the properties of the runs: `TypeOK` of `TreeKV` is proved,
`TypeOK` of `Serving` describes its variables and holds on the instance of its
run, and elsewhere the comments of the variables say what they are.

**Why the bounds are enough.** The cache needs two slots per page (a full and a
partial tail), three pages (a shared one, a copy and one to run out of), and
three branches (a page shared twice, a chain of forks); the proofs remove the
bound. The executor needs the same, and a second thread and layer for a forward
that meets another between two layers. For the scheduler two branches compete, a
third level shows reclaiming through an ancestor that is not the parent, and
budgets are chosen so that the tree's budget, a branch's budget and a deadline can
each come first and can coincide. The engine needs three beams, so that a merge or
a pruning leaves two, an odd prompt on pages of two, so that branches are whole
pages at every second token, and budgets that end between two tokens of one batch.
A deadline of 3 events with three beams is the code's own boundary in small: 64
events (`scheduler.rs:11`) and at most 64 branches (`schema.py:21`); with one
event less `ValuesInTime` fails, which is its mutant. `MaxTotalBranches` bounds
the arena; where a run can hit it, `failed` is set as in the code, and properties
speak of schedulers that have not failed. In `Serving` one slot makes the second
request wait; two cancellations let a join be cancelled again, or a waiter be cut
after a stream was; a window passes between a reservation and its settling. The
proofs remove the bounds in `TreeKV`, `Executor`, `BranchScheduler`, `Serving`, `Bench` and
`Rollout`, for all invariants of their runs, and in `TreeEngine` for the stream. In `Bench` two starts are
a crash and a resume, with the same configuration or another; three samples on two
threads come in any order, and one is left when another failed. In `Rollout` three
branches are a root, a fork and a merge or a chain of two forks; the second prompt
shows what a failure leaves of the first.

**Deadlock.** `Engine.cfg` leaves deadlock checking on: its specification stutters
when the generation is over (`Over`), so a coroutine stuck anywhere else is an
error. The others say `CHECK_DEADLOCK FALSE`, since their systems do stop: every
branch of a cache may be full or pruned, a search ends, all requests are answered
after a shutdown, all starts are used up, `rollout` returns. That they stop
nowhere else is what their liveness properties say.

**Fairness.**

* `BranchScheduler!FairSpec` is weak fairness of three things the engine's loop
  does as long as it runs: poll a non-empty queue (`treekv.py:492-504`), sample a
  branch it may sample (`525-540`) and have a token scored (`229-272`; expiry
  inside `feed_event` does so even if the engine does not). Nothing is assumed of
  exhaustion or drain. Each is stated of the variable it moves, so that the tick
  of a deadline does not count as a poll. `SearchEnds` speaks of configurations
  whose branches end by budgets, or by merges under the beam policy; the others
  can stall (see below).
* `TreeEngine!FairSpec` says that the coroutine is resumed while it runs: the
  runner's consumer loop always asks for the next event. It is written
  `[]<>~Running \/ []<><<Next>>_vars`, weak fairness of `Next` in a system that
  can step as long as it is running; that it can is the deadlock check.
* `Serving!FairSpec` is weak fairness of `Progress`: as long as a handler, a
  generator to be closed, a thread or the shutdown can go on, one of them does. It
  includes that a client reads what it is sent: uvicorn's `send` waits for it, and a
  client that neither reads nor goes away holds its slot. No fairness of new
  requests, of cancellations or of the shutdown being asked for.
* `Bench!FairSpec` is weak fairness of the steps of a running process, its threads
  and the endpoint's answers (every request has a timeout); none of starts and
  crashes.
* `Rollout!FairSpec` is weak fairness of the server pulling an engine that is not
  endless (`_tree_stream`'s loop) and of the client's loop; nobody has to time
  out, and no connection has to break.

### Findings

* `search_stall`: after an end-of-sequence token `process_event` enqueues the
  Finalize and asks no policy (`scheduler.rs:364-367`). If the branch that
  stopped was the last of its round, the remaining beams are active with no
  command, and the engine fails with "scheduler stopped issuing commands with
  active branches remaining".
* `engine_dedup`: `merge_converged_branches` can merge a branch that the
  scheduler has closed while its `fork_at` still waits in the engine's deque.
  The fork is then skipped, and the kill of a child that was never created
  raises.
* `engine_budget`: the beam policy forks whenever all of its frontier stands at a
  token count it was told to fork at, also if it has forked there before
  (`beam.rs:79-104`): children begin with their parent's count. When the first of
  three beams uses up its two tokens and is finalized, the others, still at one, are
  forked again, and the tokens that were decoded for them in the same batch are
  refused (`scheduler.rs:257-258`): the generation fails, although `Continue`
  "authorizes exactly one decode step" (`core/docs/tree-kv-spec.md:78`). Two beams of
  two tokens fail alike. `NoEventRefused` and `GenerationSucceeds` are therefore stated
  for beams that grow (`BeamsGrow`: a branch's budget is not two tokens).
* `serving_workers`: a generator dropped at its yield, or a join that is
  cancelled again, gives its slot back while its thread still generates, so that
  more threads than slots run. `shutdown` can then also return with such a thread
  running, although it is documented to "wait for every admitted generation to
  finish" (`runner.py:117`): `ShutdownDrains` says that these are the only ones.
* `bench_resume`: `PartialStore.load` forgives a torn last line, and `append`
  writes onto it. After a second interruption the journal is refused.

Seen while exploring, without a run of their own:

* Physical tokens count whole pages (`pool.py:67`). If the root stops at its first
  token nothing is ever shared: after a prompt of 5 tokens, on the default pages of 4, 6
  tokens stand on pages for 8, the reuse ratio is 6/8, and the server refuses its own
  engine's done event (`app.py:145-163`), as `core/docs/wire-spec.md:242` wants it
  "finite and at least 1". A fork makes up for it on pages of 4, since parent and
  children count the prefix again. On larger pages it need not: TLC finds the same
  refusal for a prompt of 1 token, pages of 16 and three branches that run to their
  budget. In the `engine` run a root that stops has just filled its
  page of 2, so that `StreamAccepted` is about the rest of the contract; a request
  without a tree has no summary.
* The server and the SDK differ about a done event's summary. The server does not
  ask for one (`app.py:145`); the SDK's `DoneEvent` requires it, as the
  specification does (`wire-spec.md:216`). The SDK's `TreeSummary` forbids fields
  it does not name (`sdk/autotree_sdk/models.py:57`), such as the two of pruning by
  value, although "Additive response fields may be introduced within v1"
  (`wire-spec.md:8`). No request the server takes has that policy (`schema.py:20`), so both are about other
  engines behind the server; `AcceptorsAgree` leaves out these two cases and no other.
* An engine that lacks pages after its done event makes the server send an error
  frame after `done` (`app.py:719`), against the fifth invariant of
  `wire-spec.md:267-269`. The client raises (`event after done`).
* A process that ends because a sample failed leaves the results of what its pool
  still ran outside the journal: the next process asks for them again.
  `NeverRunAgain` is about what the journal holds.
* A Continue dropped for want of a budget unit (`scheduler.rs:575-583`) is never
  offered again when the units come free; best-first never looks at unscored
  branches (`best_first.rs:73-79`). It takes a driver that exhausts continued
  branches; it did not show in the generations explored.
* With MCTS, three branches and merges, the `branch_exhausted` fed for one branch
  of the merge list makes the policy expand the next one of the list, whose own
  `branch_exhausted` the scheduler then refuses.
* A generation that is cut leaves its branches in the gauge `active_branches` for
  good; `GaugeExact` is stated so. `queued_requests` leaves out a request that
  waits for a slot already promised to another.
* ThoughtBench's `_tree_completion` and the SDK's client are versions apart
  (arguments of `tree_completions`); the module leaves the request to its outcome.
* The SDK reports every 404 of the tree endpoint as `TreeNotSupportedError`, also
  one for an unknown model.

Suspicions that did not hold up: a value that carries out a deferred tree budget
closes branches whose values are still to be fed, but beams are scored in
ascending order and the deferred one is always the last (`NoEventRefused`).
Best-first could outgrow the 64 events of a deadline, but Continues are batched
only up to the next fork, so a batch is never wider than one expansion. A batch
that breaks off leaves no branch whose rows and tokens differ
(`RowsMatchTokens`); a slot promised to a waiter that is cancelled is passed on
(`SlotsConserved`); a settlement of an old window leaves the new one alone
(`QuotaExact`).

## 4. What is proved

### The cache

For every number of pages and page size, and every bound on the branches, their
tokens and the length of an append (the only assumption is `TreeKVAssumption`:
these constants are natural numbers, the first two positive):

| Theorem | Says |
|---|---|
| `Invariance` | `IInv` holds in every reachable state |
| `TypeCorrect`, `TreeAlwaysLinked` | types; parents and children agree, and the parent of a live branch is live |
| `PagesAlwaysAccounted`, `CoverageAlwaysExact`, `LogicalAlwaysExact` | the invariants of the `cache` run |
| `SharedPagesNeverWritten`, `DedupFindsAll` | its action properties |
| `Refinement` | `TreeKV` implements `BranchStore` |

`IInv` is the conjunction of these invariants and `Bookkeeping` (`TreeKVProofs`).
None of them is inductive alone. That an append finds a free page when the
capacity check passes needs `PagesAccounted` (free pages are those nobody names);
that counts stay exact through a prune needs finite tables of known length, hence
`CoverageExact` and `TypeOK`; that pruning a leaf leaves the tree connected needs
`TreeLinked`; and `Bookkeeping` says that free pages are empty, that ids from
`nextBranch` on were never used, and that a branch which is not live has no
table, children or tokens: without it a fork could not be shown to start from a
clean id, nor a page taken from the heap to hold just what is written.

The proof has one lemma per action (`ForkIInv`, `PruneIInv`, `DedupIInv`,
`AppendIInv`), each with a step per conjunct, `NextIInv` joining them. Counting is
done with `OccSplit` and `TokensSplit` (the occurrences of a page in all tables
are those in one table and those in the others) over the cardinality lemmas of
`SharedLemmas`, where ceiling division is also treated. The append is the hard
case; it is split into what is written (`AppendWrites`), how many pages it takes
(`AppendSizes`), the entries of the new table (`AppendEntries`), the counts
(`AppendCounts`) and the pages it touches (`AppendTouches`, `AppendPages`).

The refinement proof shows that what a branch reads is a concatenation of its
pages, position by position (`Position`, `Covering`): a fork copies it, pruning
another branch leaves it alone, a dedup scan replaces pages by equal ones, and an
append extends one branch and, because shared pages are never written, no other.
`NextRefines` maps each step to a step of `BranchStore` or a stutter.

### The scheduler

For every size of the arena, any finite or infinite set of configurations, whatever
a driver may report, and all three policies. The assumptions are that there is room
for a branch (`BranchTreeAssumption`), that a configuration names a known policy, that
its widths, depth, deadline and budgets are positive
(`SchedulerCoreAssumption`), and that what a driver may report of its tokens, log
probabilities and values are truth values and integers (`BranchSchedulerAssumption`):

| Theorem | Says |
|---|---|
| `SchedulerInvariant` | `IInv` holds in every reachable state |
| `ReservationsAreExact` | what is reserved is what is queued to continue or was polled, and fits in the budget |
| `OnlyOverRefused` | a token fed for a Continue, however late, is refused only if its branch was closed or forked meanwhile: no value is awaited and both budgets have a unit left |
| `DeferredEndingsAwait` | an ending is only deferred for an active branch whose value is due |
| `TreeInvariant` | `TreeInv` holds in every reachable state |
| `NoZombies` | no expanded branch is left without a live child |
| `ResultExists` | a search whose frontier is empty has finalized a branch |
| `CommandsReplay` | the commands polled and to be polled, replayed in order, are legal and give the scheduler's tree |

`IInv` joins two of these invariants to types, to `GrantsSound` (an active branch told
to continue awaits no value and is within its own budget; that the tree's has a unit
for it is `ReservationsExact`), and to `NothingAskedYet`, which says
that before the first token there is only the root: the first event is the one
that may concern a branch nobody was told to continue. It is quiet about a
scheduler that has failed, as the code is. An event is not one step of the proof but the chain
of operators that `process_event` is, so the argument runs over records: `Recorded`
says what an event has put into the scheduler, `Handling` that a stage closes and
forks branches and emits a command for each one closed, `Accounted` that
every reservation is somebody's *unless its close is already among the commands
emitted*, which is how things stand between closing a branch and enqueuing its
command, and `Settled` that after the withdrawal in `enqueue` the exception is gone
(`EnqueueReserves`). The policies come in by one interface only, `Sensible` (a
decision closes what its commands say and revives nothing), proved for each of
them (`BeamSensible`, `BestFirstStepwise`, `MctsStepwise`).

`TreeInv` needs `IInv` and says more of the tree: that some branch was finalized once
the frontier is empty (`Fruitful`), that the tree is `Whole` (live branches
have expanded parents one level up, and nothing expanded is barren), and that there is
a `Story` from the driver's copy through the queue to the tree: a sequence of trees,
one per command, each legal. Inside an event the tree is whole *but above the branches
closed last*, which is what reclaiming must repair (`ReclaimWhole`): the code looks
at the ancestors of each closed branch upwards, so an ancestor loses its last live child
before it is looked at itself. Stories compose (`StoryOn`), survive the withdrawal of a
Continue (`StoryWithout`), and are told by each list of commands the code makes: kills and
finalizations of several branches in an order that closes children first
(`KillsTold`, `FinalizesTold`, `TerminationOrderly`), forks in which the children
of one branch are numbered before those of the next (`ForksTold`). Because
`TreeInv` quantifies over such sequences, TLC checks the three
invariants it implies, not `TreeInv` itself.

The loops of the code are folds in the model. What a fold computes is proved
in `SharedLemmas` with its step as a constant `Op`, and instantiated for each loop
(`Admission`, `Killing`, `Reclaiming`, `Replaying`; `Journalled` in `BenchProofs`;
`Streaming`, `Starting`, `Discarding` in `TreeEngineProofs`); the inductions are
inductions over a set of lengths.

### The engine's stream

For every number of branches, tokens and values, every prompt and page size, and
every request that a configuration may hold; of the assumptions on the constants
only `SchedulerCoreAssumption` is needed, that a fork has children:

| Theorem | Says |
|---|---|
| `StreamBreaksAtTheAccountOnly` | the server accepts every event up to the final account, and that account exactly if the cache holds no branch any more and the reuse ratio is at least 1 |
| `AcceptedStreamLeavesNothing` | a finished generation whose stream is accepted has given everything back and told every branch's end |

Nothing is used of the scheduler but its constants: the theorems hold whatever
commands it gives, in whatever order. `UnderWay` says that the server's
accumulator, once the events of the batch are yielded, is a function of what the
engine holds (`Told`): its parents, the tokens each branch sampled itself, the
counters, and as ended branches those that are in neither the cache nor
`finalized`. Each event is then the one step of the accumulator that matches what the
engine did to itself (`TokenAccepted`, `PrunedAccepted`, `MergeAccepted`,
`StartAccepted`; `StartAll` and `PruneAll` for the loops). Three facts make it
inductive: what is left of a batch is active (`Agenda`), so no token comes after its
branch's end; nothing is merged into a branch that is itself merged away
(`MergesLaw`: branches with one text all go into the same one); and a branch that
was forked samples no more (`Lineage`), so that the text the server joins along
the parents is the path the engine kept (`TextAgrees`). At the end the account and the accumulator agree on
everything, and what is left of the server's check is that every branch but the
winner has ended, which is `kv = {}`, and the ratio (`AccountStep`).

The ratio is therefore the one way in which a generation that gave everything back can
be refused, as it is when the root stops at its first token (above). That everything
has been given back when the loop ends rests on the scheduler's story of commands, and
is checked by TLC.

### Serving

For every finite set of requests of any kind, every number of slots, tokens,
windows and cancellations (`ServingAssumption`):

| Theorem | Says |
|---|---|
| `SlotsConservedAlways` | free, promised and held slots add up, and the runner's counters count the holders and waiters |
| `GaugeExactAlways` | the gauge is the number of generations started and not known to have ended |
| `ShutdownDrainsAlways` | after `shutdown` no request waits for a slot, and the threads still alive are of requests that were cut off |
| `AnswersCompleteAlways` | an answer given as complete holds every token its generation made |
| `QuotaExactAlways` | what a window has used is what the requests charged to it owe it, and no more than the limit |

`SlotsConserved` is inductive only with the semaphore's own invariant (`SlotInv`):
its waiters are the requests that wait, each listed once, those promised a slot are
among them, and an abandoned generator belongs to a request that is past its
generation. `WakeKeeps`, `ReleaseKeeps` and `WithoutKeeps` treat the
semaphore alone. Each action then either moves a request between stages
(`MoveQuiet`, `MoveLeave`, `MoveAbandon`), takes a slot (`GenerateKeeps`,
`ResumeKeeps`), is cancelled while it waits (`CancelledWaiterKeeps`) or concerns
another part (`ElsewhereKeeps`); `SlotsStep` joins them. The gauge needs that a
request which is done had started (`GaugeInv`). `ShutdownDrains` rests on both
counters: `closed` is set when `active` is zero, `SlotInv` turns that into empty
sets, and `NobodyComes` shows that no step admits a request any more (`DrainInv`). That
a thread alive at that time belongs to a request that was cut off is `ThreadInv`: what
holds no slot has no live thread unless it was cut, because the loop that is over is
joined before its slot is given back.

`AnswersComplete` compares a count at the reader with one at the thread, and what lies
between is the mailbox: `AnswerInv` says that its tokens are one run, that heard and
queued add up to produced, and that `end` comes last and after the thread's last
token (`Mail`). `QuotaExact` sums over requests; `QuotaInv` adds that a request is charged
from its admission on, to a window that has begun, so that settling gives back
what was taken and the `max(0, ...)` of the code never bites. What a sum
does when one request's share changes is proved in `SumLaws`, by induction on the
number of requests.

### The executor

For every vocabulary, pool, page size and bound, and every set of other threads
and number of layers (`ExecutorAssumption`: the numbers are natural and, but for
the bounds on branches and tokens, positive; `Mine` is no other thread and
"nobody" is none):

| Theorem | Says |
|---|---|
| `AttentionAlwaysOwn` | a forward calls its own attention in every layer, and leaves the model's behind |
| `RowsAlwaysMatch` | what a branch gathers was computed, row by row, over exactly its tokens |
| `LogitsAlwaysCurrent` | the distribution kept for a branch is that of its last token |

`AttentionInv` says that the thread which holds the lock, and no other, runs a
forward, that the attention in place is the one it is meant to call, that a batched
decode has found the model's own (so that it puts that one back), and that a
forward which has done a layer has called one. `RowsInv` says what the rows still to
be stored are, between the end of a forward and the last append: those of a whole
prompt, or one for each of several different live branches, which extends the
tokens the branch has *now*. That the branches differ is what keeps the later
rows of a batch right while the earlier ones are stored, and dropping what is
left, when a pool is full, leaves nothing wrong behind.

The pages are not looked at again. Each call of an execution is a call of the
cache, so `TreeKVProofs` keeps the cache's invariant and says what
the call does to what each branch gathers (`CacheFork`, `CachePrune`, `CacheAppend`,
`CacheDedup`). The one thing about pages that is new is `ForestGathers`: the extended
block table of a batched decode leads to the same slots as a gather, because the
temporary page replaces the tail exactly if the tail has room.

### The rollout

For any number of prompts and words, and any bounds on branches, tokens and frames
on their way (`RolloutAssumption`: the numbers are positive):

| Theorem | Says |
|---|---|
| `AcceptorsNeverDisagree` | of what the server's accumulator let pass, `TraceAssembler` refuses nothing, and the SDK's models only a done event whose summary is missing or has fields they do not know |
| `KeptTreesAreWhole` | a tree added to the list is the one the server accepted up to its done event |
| `ExportsAreFaithful` | each branch's path is its lineage, and the text along it the one the server computes |
| `DemoAlwaysAccepted` | the server takes all that the deterministic engine yields, the summary included |

The two acceptors keep different state: the server parents, tokens, the set of
ended branches and two counters, the assembler one record per branch with its status
and its path. `Mirrors` relates them. `MirrorStep` says that an event which the
accumulator accepts can be added, and that both are then related again; for a done event
that is `SameSummary`, with the counters of one held against the statuses of the other.

The client lags behind the server, so `RolloutInv` does not relate the two as they
are. `Run(u, s, e)` says that the accumulator got from what mirrors the assembler
`u` to `s` by accepting the events `e`; `Going`, that the wire holds a first part
of such events and then only frames that end a stream, and all of them as long as
the server streams. A read takes the first step of the run, a send adds a
last one, a broken connection shortens the wire and leaves the run as it is. What the
models refuse ends the run where it is: the ratio of a summary they see is the one the
server has checked.

The accumulator finds the text of the winner by walking up the parents, the
assembler by joining the tokens along a path it stored. `TextUnique` shows that the
recursion has one solution, because paths are finite, and `TextExists` that the
joined texts are one.

The deterministic engine is read through its script. `DemoScriptIs` says what stands
at each place of it, and `Stage` what the accumulator has become after `k` events: `k`
roots; then each branch with as many of its tokens as the first places of the turns
hold; then the losers that ended. That a token finds its index (`NextIndex`) rests
on the order of the turns: what is earlier in its branch has an earlier turn, and
`InOrder` lists the turns without a gap. The summary is accepted because the counts
of pruned and merged losers grow with the script (`Tally`) and a sum of lengths is a
natural number (`SumNat`), so that the ratio of reuse is at least one.

### The benchmark

For any number of cells, tasks, samples, threads and starts, wherever processes are
killed and whatever the journal is left with (`BenchAssumption`: the numbers are
positive):

| Theorem | Says |
|---|---|
| `ResultsAreReproducible` | a results file has every sample once, sorted, with the metrics of its samples |
| `ResultsOfOneConfiguration` | it holds samples of its own configuration only |
| `JournalledNeverRunAgain` | a sample the journal can give back is not asked for again |
| `ArtifactAlwaysInOrder` | the harness's artifact has the result of each request at its place |

`BenchInv` follows a sample on its way. It has one place in the list of
specifications (`ListOfSamples`, arithmetic on the product of cells, tasks and
indices); a place is in one state of the pool only (`Apart`); and what a process keeps
as completed has one sample for each key, of its own configuration, includes all
that the journal can give back, and is never asked for (`Resuming`). That the
journal gives back what was written, with a torn record anywhere and with a record
appended to a torn line, is an induction over its lines (`ReadBack`).

When the pool is empty the completed samples are therefore the expected ones, each
once. `SortedSamples` says that sorting them by rank is a bijection that keeps
the order, from `RankBijection`, so the samples of one task, in the sorted list, are
those of index 0, 1, ... (`GroupOfTask`, `IncreasingOnto`), and the counts that
`compute_metric_set` takes of first passes are those of the samples
(`MetricsCount`), whatever the order in which they were completed.

**Only model-checked.** Liveness, and anything that rests on `ENABLED`, which the
prover does not handle. Of the engine, that it keeps in step with the scheduler
(`InStepWithScheduler`, and with it that the cache is empty at the end), that no event
is refused (`NoEventRefused`) and that no value is late (`ValuesInTime`). The first
two are no theorems: there are requests for which they fail (`engine_dedup`; what
`BeamsGrow` leaves out), and so would a branch limit that is hit. For which requests they
hold in general is not worked out.

## 5. What is not modelled

* Numeric code: the forwards, the Triton kernel, sampling, UCT's arithmetic,
  bootstrap statistics.
* Text and bytes: schemas, headers, parsing of bodies and of answers, graders,
  reports, figures, manifests, command lines.
* Scheduler: custom policies with rollback, entropy and adaptive forking, which
  the engine never uses; the binding's conversions.
* Engine: prompt encoding, admission by page count, seeds, dedup intervals other
  than after every forward.
* Serving: authentication beyond its outcome, the audit file, the metrics that
  only count, the deterministic engine in the runner (it runs without a thread).
* SDK: calls without a stream, preference pairs. Thoughtbench: arms and aggregates.

## 6. Plan

Done, in this order: `BranchStore`, `TreeKV` and its proofs; `BranchTree`,
`SchedulerCore`, `BranchScheduler` and their proofs; `EventStream`, `TreeEngine`; `Serving` and its
proofs; `Bench` and its proofs; `Rollout` and its proofs; `Executor` and its proofs; the
proofs about `TreeEngine`'s stream.

What would come next:

1. Adaptive forking as one more decision of `SchedulerCore`, and custom policies
   with their rollback.
2. Admission by page count in `TreeEngine`, over a count of pages instead of
   `OutOfPages` at any forward.
3. `consensus_scores` and the answer groups as operators checked against a
   definition over bounded inputs.
4. An abstract specification of a search (a tree that grows, ends and has one
   winner) implemented by `BranchScheduler`.
5. The requests for which `TreeEngine` stays in step with the scheduler, and a proof
   that it does for them.
