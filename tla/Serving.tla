------------------------------ MODULE Serving -------------------------------
(***************************************************************************)
(* The completion requests a server handles at once: the middleware that   *)
(* reserves and settles a tenant's tokens (autotree_serve/enterprise.py),  *)
(* the handlers that consume an engine's events (app.py), and EngineRunner *)
(* (runner.py), which bounds the generations and runs each in a thread of  *)
(* its own.                                                                *)
(*                                                                         *)
(* The event loop runs one coroutine at a time, from await to await: those *)
(* are the steps.  A worker thread posts its events to the loop.  A        *)
(* request may be cancelled wherever it awaits, as often as it awaits: its *)
(* client went away, or the server gives up.  All requests are of tenants  *)
(* that share one limit; a tenant without one skips the quota.             *)
(*                                                                         *)
(* A generation is a branch, its tokens, and an end.  An async generator   *)
(* that is dropped at its yield is not closed by who drops it: the event   *)
(* loop closes it later, the outer one before the inner one.  What nobody  *)
(* looks at any more is forgotten: the queue of a loop that is over, and   *)
(* all that a request kept but what it was charged and that it was cut.    *)
(***************************************************************************)
EXTENDS Integers, Sequences, FiniteSets, FiniteSetsExt

CONSTANTS
  Requests,
  Kind,          \* [Requests -> ...]: "collect" (one JSON answer), "chat", "tree" (streams)
  Asked,         \* [Requests -> Nat], the tokens a request asks for
  Slots,         \* max_concurrent_requests
  QuotaLimit,    \* the tenant's tokens per window
  MaxWindows,    \* bound: windows that pass
  MaxCancels     \* bound: cancellations

ASSUME ServingAssumption ==
  /\ IsFiniteSet(Requests)
  /\ Kind \in [Requests -> {"collect", "chat", "tree"}]
  /\ Asked \in [Requests -> Nat \ {0}]
  /\ {Slots, QuotaLimit} \subseteq Nat \ {0}
  /\ {MaxWindows, MaxCancels} \subseteq Nat

VARIABLES
  stage,      \* where the coroutine of each request awaits
  charged,    \* the window its reservation was made in, 0: none to settle
  heard,      \* its EventAccumulator: [started, tokens, done]
  fate,       \* how its engine's events, or its answer, ended
  accepting,  \* the runner's _accepting
  closed,     \* shutdown() has returned
  active,     \* _active_generations
  inFlight,   \* _in_flight_generations
  queued,     \* the requests counted in _queued_generations
  slots,      \* _generation_slots: [value, waiters, granted]
  abandoned,  \* requests whose generator waits for the loop to close it
  worker,     \* the thread of each request
  produced,   \* how many tokens it has made
  mailbox,    \* the queue between thread and coroutine
  used,       \* _QuotaState.used
  window,     \* the number of _QuotaState.window_started, 0: no state yet
  expired,    \* window_seconds have passed since then
  gauge,      \* active_branches
  cancels

requestVars == <<stage, charged, heard, fate>>
runnerVars == <<accepting, closed, active, inFlight, queued, slots, abandoned>>
workerVars == <<worker, produced, mailbox>>
quotaVars == <<used, window, expired>>
vars == <<requestVars, runnerVars, workerVars, quotaVars, gauge, cancels>>

Init ==
  /\ stage = [r \in Requests |-> "idle"]
  /\ charged = [r \in Requests |-> 0]
  /\ heard = [r \in Requests |-> [started |-> FALSE, tokens |-> 0, done |-> FALSE]]
  /\ fate = [r \in Requests |-> "none"]
  /\ accepting = TRUE /\ closed = FALSE
  /\ active = 0 /\ inFlight = 0 /\ queued = {} /\ abandoned = {}
  /\ slots = [value |-> Slots, waiters |-> <<>>, granted |-> {}]
  /\ worker = [r \in Requests |-> "none"]
  /\ produced = [r \in Requests |-> 0]
  /\ mailbox = [r \in Requests |-> <<>>]
  /\ used = 0 /\ window = 0 /\ expired = FALSE
  /\ gauge = 0 /\ cancels = 0

Becomes(r, s) == stage' = [stage EXCEPT ![r] = s]
Ends(r, how) == fate' = [fate EXCEPT ![r] = how]

\* Requests given up by their client, by the server, or for what their engine
\* yielded.
CutOff == {r \in Requests : fate[r] \in {"cut", "contract"}}

-----------------------------------------------------------------------------
(* asyncio.Semaphore.  A waiter that was woken is granted the slot; it is  *)
(* still in the list until its coroutine runs.                             *)

Locked == slots.value = 0 \/ slots.waiters # <<>>

\* The first waiter that sleeps, if any, is woken.
Wake(s) ==
  LET asleep == {i \in DOMAIN s.waiters : s.waiters[i] \notin s.granted}
  IN IF asleep = {} THEN {s}
     ELSE {[s EXCEPT !.value = @ - 1, !.granted = @ \cup {s.waiters[i]}] :
             i \in {j \in asleep : \A k \in asleep : j <= k}}

Release(s) == Wake([s EXCEPT !.value = @ + 1])

Without(r, s) ==
  {[s EXCEPT !.waiters = SubSeq(@, 1, i - 1) \o SubSeq(@, i + 1, Len(@)),
             !.granted = @ \ {r}] :
     i \in {j \in DOMAIN s.waiters : s.waiters[j] = r}}

Dequeued(r) == queued \ {r}

\* acquire() of a woken waiter returns.
Acquired(r) ==
  UNION {IF s.value > 0 THEN Wake(s) ELSE {s} : s \in Without(r, slots)}

\* acquire() is cancelled: a slot granted meanwhile is passed on.
Unacquired(r) ==
  UNION {IF r \in slots.granted THEN Release(s) ELSE {s} : s \in Without(r, slots)}

-----------------------------------------------------------------------------
(* The middleware.                                                         *)

\* What is used of the window that a reservation made now is for.
UsedNow == IF window = 0 \/ expired THEN 0 ELSE used

\* Authentication fails: no body is read.
Unauthenticated(r) ==
  /\ stage[r] = "idle"
  /\ Becomes(r, "ended") /\ Ends(r, "refused")
  /\ UNCHANGED <<charged, heard, runnerVars, workerVars, quotaVars, gauge, cancels>>

\* TokenQuota.reserve: the window is renewed also if the request is refused.
Reserve(r) ==
  /\ stage[r] = "idle"
  /\ window' = IF window = 0 \/ expired THEN window + 1 ELSE window
  /\ expired' = FALSE
  /\ IF Asked[r] > QuotaLimit - UsedNow
     THEN /\ Becomes(r, "ended") /\ Ends(r, "refused")
          /\ used' = UsedNow /\ UNCHANGED charged
     ELSE /\ Becomes(r, "admitted")
          /\ used' = UsedNow + Asked[r]
          /\ charged' = [charged EXCEPT ![r] = window']
          /\ UNCHANGED fate
  /\ UNCHANGED <<heard, runnerVars, workerVars, gauge, cancels>>

\* Fault: the window is not compared.
SameWindowUnchecked(r) == TRUE

SameWindow(r) == window = charged[r]

\* The rest of the answer is sent.  The finally of __call__: the reservation is
\* settled, the request audited.
Settle(r) ==
  /\ stage[r] = "last"
  /\ LET settled == used - Asked[r] + heard[r].tokens
     IN used' = IF ~SameWindow(r) THEN used ELSE IF settled < 0 THEN 0 ELSE settled
  /\ Becomes(r, "ended") /\ Ends(r, IF r \in CutOff THEN fate[r] ELSE "none")
  /\ produced' = [produced EXCEPT ![r] = 0]
  /\ UNCHANGED <<charged, heard, runnerVars, worker, mailbox, window, expired, gauge, cancels>>

WindowPasses ==
  /\ window \in 1 .. MaxWindows /\ ~expired
  /\ expired' = TRUE
  /\ UNCHANGED <<requestVars, runnerVars, workerVars, used, window, gauge, cancels>>

-----------------------------------------------------------------------------
(* The handlers and EngineRunner.generate.                                 *)

\* The body is no valid request, or asks for a model or a feature there is not.
Invalid(r) ==
  /\ stage[r] = "admitted"
  /\ Becomes(r, "last") /\ Ends(r, "refused")
  /\ UNCHANGED <<charged, heard, runnerVars, workerVars, quotaVars, gauge, cancels>>

\* generate() once it has its slot: the worker thread is started.
Begin(r) ==
  /\ Becomes(r, "event")
  /\ inFlight' = inFlight + 1
  /\ worker' = [worker EXCEPT ![r] = "running"]

\* generate() up to where it first awaits.
Generate(r) ==
  /\ stage[r] = "admitted"
  /\ IF ~accepting
     THEN /\ Becomes(r, "last") /\ Ends(r, "closing")
          /\ UNCHANGED <<active, inFlight, queued, slots, worker>>
     ELSE /\ active' = active + 1
          /\ IF Locked
             THEN /\ Becomes(r, "waiting")
                  /\ queued' = IF inFlight >= Slots THEN queued \cup {r} ELSE queued
                  /\ slots' = [slots EXCEPT !.waiters = Append(@, r)]
                  /\ UNCHANGED <<inFlight, worker>>
             ELSE /\ slots' = [slots EXCEPT !.value = @ - 1]
                  /\ Begin(r)
                  /\ UNCHANGED queued
          /\ UNCHANGED fate
  /\ UNCHANGED <<charged, heard, accepting, closed, abandoned, produced,
                 mailbox, quotaVars, gauge, cancels>>

Resume(r) ==
  /\ stage[r] = "waiting" /\ r \in slots.granted
  /\ slots' \in Acquired(r)
  /\ queued' = Dequeued(r)
  /\ Begin(r)
  /\ UNCHANGED <<charged, heard, fate, accepting, closed, active, abandoned,
                 produced, mailbox, quotaVars, gauge, cancels>>

\* Fault: the generation counts itself out without giving its slot back.
LeaveWithSlot == inFlight' = inFlight - 1 /\ active' = active - 1 /\ UNCHANGED slots

\* Fault: the generation gives its slot back without counting itself out.
LeaveCounted == slots' \in Release(slots) /\ inFlight' = inFlight - 1 /\ UNCHANGED active

\* The finally clauses of generate().
Leave ==
  /\ slots' \in Release(slots)
  /\ inFlight' = inFlight - 1
  /\ active' = active - 1

\* What is left of the answer is sent.  Without a done event it is an error.
LastFrames(r, how) ==
  /\ Becomes(r, "last")
  /\ Ends(r, IF how = "end" THEN IF heard[r].done THEN "done" ELSE "contract" ELSE how)

\* Fault: the thread is not waited for.
LoopLeft(r, how) == LastFrames(r, how) /\ Leave

\* _generate_in_worker's loop is over, and the thread is joined first if it
\* is still alive.
LoopOver(r, how) ==
  IF worker[r] = "dead"
  THEN LastFrames(r, how) /\ Leave
  ELSE Becomes(r, "joining") /\ Ends(r, how) /\ UNCHANGED <<active, inFlight, slots>>

\* EventAccumulator.accept, for a branch.
Acceptable(r, event) ==
  /\ ~heard[r].done
  /\ \/ event = "started" /\ ~heard[r].started
     \/ event \in {"token", "done"} /\ heard[r].started

Accepted(r, event) ==
  heard' = [heard EXCEPT ![r] =
              [started |-> TRUE, done |-> event = "done",
               tokens |-> IF event = "token" THEN @.tokens + 1 ELSE @.tokens]]

\* Fault: the winner's end is not counted.
ObservedOpen(event) == gauge' = IF event = "started" THEN gauge + 1 ELSE gauge

\* ServeMetrics.observe_event on the gauge.
Observed(event) ==
  gauge' = CASE event = "started" -> gauge + 1
             [] event = "done" -> gauge - 1
             [] OTHER -> gauge

\* Which events a handler passes on as soon as it has them.
PassedOn(k, event) ==
  \/ k = "tree"
  \/ k = "chat" /\ event \in {"token", "done"}

Forget(r) == mailbox' = [mailbox EXCEPT ![r] = <<>>]

\* queue.get() returns the next item.
TakeItem(r) ==
  /\ stage[r] = "event" /\ mailbox[r] # <<>>
  /\ LET item == Head(mailbox[r])
     IN IF item \in {"end", "capacity", "failure"}
        THEN LoopOver(r, item) /\ Forget(r) /\ UNCHANGED <<abandoned, heard, gauge>>
        ELSE IF Acceptable(r, item)
        THEN /\ Accepted(r, item) /\ Observed(item)
             /\ mailbox' = [mailbox EXCEPT ![r] = Tail(@)]
             /\ Becomes(r, IF PassedOn(Kind[r], item) THEN "sending" ELSE "event")
             /\ UNCHANGED <<fate, active, inFlight, slots, abandoned>>
        ELSE /\ abandoned' = abandoned \cup {r} /\ Forget(r)
             /\ Becomes(r, "last") /\ Ends(r, "contract")
             /\ UNCHANGED <<heard, gauge, active, inFlight, slots>>
  /\ UNCHANGED <<charged, accepting, closed, queued, worker, produced,
                 quotaVars, cancels>>

Send(r) ==
  /\ stage[r] = "sending"
  /\ Becomes(r, "event")
  /\ UNCHANGED <<charged, heard, fate, runnerVars, workerVars, quotaVars,
                 gauge, cancels>>

Join(r) ==
  /\ stage[r] = "joining" /\ worker[r] = "dead"
  /\ LastFrames(r, fate[r]) /\ Leave
  /\ UNCHANGED <<charged, heard, accepting, closed, queued, abandoned,
                 workerVars, quotaVars, gauge, cancels>>

\* The loop closes a generator that was dropped at its yield: its finally runs,
\* and only then is the generator within closed, which joins the thread.
CloseGenerator(r) ==
  /\ r \in abandoned
  /\ abandoned' = abandoned \ {r} /\ Leave
  /\ UNCHANGED <<requestVars, accepting, closed, queued, workerVars, quotaVars, gauge, cancels>>

\* CancelledError is raised where the request awaits.
Cancel(r) ==
  /\ stage[r] \in {"admitted", "waiting", "event", "sending", "joining", "last"}
  /\ fate[r] = "cut" => stage[r] = "joining"
  /\ cancels < MaxCancels /\ cancels' = cancels + 1
  /\ Forget(r)
  /\ CASE stage[r] \in {"admitted", "last"} ->
            /\ Becomes(r, "last") /\ Ends(r, "cut")
            /\ UNCHANGED <<active, inFlight, queued, slots, abandoned>>
       [] stage[r] = "waiting" ->
            /\ slots' \in Unacquired(r)
            /\ queued' = Dequeued(r) /\ active' = active - 1
            /\ Becomes(r, "last") /\ Ends(r, "cut")
            /\ UNCHANGED <<inFlight, abandoned>>
       [] stage[r] = "event" /\ worker[r] # "dead" ->
            /\ Becomes(r, "joining") /\ Ends(r, "cut")
            /\ UNCHANGED <<active, inFlight, queued, slots, abandoned>>
       [] stage[r] = "sending" ->
            /\ abandoned' = abandoned \cup {r}
            /\ Becomes(r, "last") /\ Ends(r, "cut")
            /\ UNCHANGED <<active, inFlight, queued, slots>>
       [] OTHER ->  \* the join is not waited for any longer
            /\ Becomes(r, "last") /\ Ends(r, "cut") /\ Leave
            /\ UNCHANGED <<queued, abandoned>>
  /\ UNCHANGED <<charged, heard, accepting, closed, worker, produced, quotaVars,
                 gauge>>

-----------------------------------------------------------------------------
(* The worker threads and the runner's shutdown.                           *)

Listened(r) == stage[r] \in {"event", "sending"}

\* Fault: the newest item is read first.
PostedFirst(r, items) ==
  mailbox' = IF Listened(r) THEN [mailbox EXCEPT ![r] = items \o @] ELSE mailbox

Posted(r, items) ==
  mailbox' = IF Listened(r) THEN [mailbox EXCEPT ![r] = @ \o items] ELSE mailbox

ThreadStep(r) ==
  UNCHANGED <<requestVars, runnerVars, quotaVars, gauge, cancels>>

\* The engine yields its branch, then tokens.
StartBranch(r) ==
  /\ worker[r] = "running" /\ worker' = [worker EXCEPT ![r] = "started"]
  /\ Posted(r, <<"started">>)
  /\ UNCHANGED produced /\ ThreadStep(r)

MakeToken(r) ==
  /\ worker[r] = "started" /\ Listened(r) /\ produced[r] < Asked[r]
  /\ produced' = [produced EXCEPT ![r] = @ + 1]
  /\ Posted(r, <<"token">>)
  /\ UNCHANGED worker /\ ThreadStep(r)

\* The generation ends, well or not; _WORKER_DONE is posted after all else.
WorkerEnds(r) ==
  /\ worker[r] \in {"running", "started"}
  /\ worker' = [worker EXCEPT ![r] = "ending"]
  /\ \E last \in {<<>>, <<"done">>, <<"capacity">>, <<"failure">>, <<"bad">>} :
       /\ last = <<"done">> => worker[r] = "started"
       /\ Posted(r, Append(last, "end"))
  /\ UNCHANGED produced /\ ThreadStep(r)

ThreadExits(r) ==
  /\ worker[r] = "ending"
  /\ worker' = [worker EXCEPT ![r] = "dead"]
  /\ UNCHANGED <<produced, mailbox>> /\ ThreadStep(r)

\* shutdown() stops admission ...
Shutdown ==
  /\ accepting /\ accepting' = FALSE
  /\ UNCHANGED <<requestVars, closed, active, inFlight, queued, slots, abandoned, workerVars,
                 quotaVars, gauge, cancels>>

\* _drained is set.
Drained == active = 0

\* ... and returns when every admitted generation has left.
ShutdownReturns ==
  /\ ~accepting /\ ~closed /\ Drained
  /\ closed' = TRUE
  /\ UNCHANGED <<requestVars, accepting, active, inFlight, queued, slots, abandoned, workerVars,
                 quotaVars, gauge, cancels>>

Handle(r) ==
  \/ Settle(r) \/ Invalid(r) \/ Generate(r) \/ Resume(r)
  \/ TakeItem(r) \/ Send(r) \/ Join(r)

Work(r) == StartBranch(r) \/ MakeToken(r) \/ WorkerEnds(r) \/ ThreadExits(r)

Next ==
  \/ \E r \in Requests :
       \/ Unauthenticated(r)
       \/ Reserve(r)
       \/ Handle(r) \/ Cancel(r) \/ CloseGenerator(r) \/ Work(r)
  \/ WindowPasses \/ Shutdown \/ ShutdownReturns

Spec == Init /\ [][Next]_vars

\* As long as the server and its threads can go on they do: a generation ends,
\* and a client reads what it is sent or is cancelled.
Progress ==
  \/ \E r \in Requests : Handle(r) \/ CloseGenerator(r) \/ Work(r)
  \/ ShutdownReturns

Fairness == WF_vars(Progress)

FairSpec == Spec /\ Fairness

-----------------------------------------------------------------------------
Stages == {"idle", "admitted", "waiting", "event", "sending", "joining", "last",
           "ended"}

Waiting == {r \in Requests : stage[r] = "waiting"}
Holders == {r \in Requests : stage[r] \in {"event", "sending", "joining"}} \cup abandoned

Alive == {r \in Requests : worker[r] \notin {"none", "dead"}}

TypeOK ==
  /\ stage \in [Requests -> Stages]
  /\ slots.value \in 0 .. Slots /\ slots.granted \subseteq Waiting
  /\ {slots.waiters[i] : i \in DOMAIN slots.waiters} = Waiting
  /\ queued \subseteq Waiting /\ abandoned \subseteq Requests
  /\ worker \in [Requests -> {"none", "running", "started", "ending", "dead"}]
  /\ window \in 0 .. MaxWindows + 1 /\ {active, inFlight, used, gauge} \subseteq Nat

\* A slot is held, promised or free, whatever is cancelled when, and each
\* generation that holds one is counted as long as it does.
SlotsConserved ==
  /\ slots.value + Cardinality(slots.granted) + Cardinality(Holders) = Slots
  /\ inFlight = Cardinality(Holders)
  /\ active = Cardinality(Holders) + Cardinality(Waiting)

\* What a request owes its window: what it asked for, or in the end was given.
Owed == [r \in Requests |-> IF stage[r] = "ended" THEN heard[r].tokens ELSE Asked[r]]

\* What is used of a tenant's window is what its requests of this window have
\* reserved or, once they ended, were given; it never exceeds the limit.
QuotaExact ==
  /\ used = SumFunctionOnSet(Owed, {r \in Requests : window # 0 /\ charged[r] = window})
  /\ used <= QuotaLimit

\* The gauge counts the branches whose end was not heard of, which after a
\* generation was cut is for good.
GaugeExact == gauge = Cardinality({r \in Requests : heard[r].started /\ ~heard[r].done})

\* An answer that says it is complete has everything the engine made.
AnswersComplete ==
  \A r \in Requests : fate[r] = "done" =>
    heard[r].done /\ heard[r].tokens = produced[r]

\* Where shutdown has returned nobody will start a generation any more, and the
\* threads that still run are of requests that were cut off: of every other
\* admitted generation the thread is over, too.
ShutdownDrains == closed => Waiting = {} /\ Alive \subseteq CutOff

\* The limit on generations bounds the threads that run one.
WorkersBounded ==
  Cardinality({r \in Requests : worker[r] \in {"running", "started"}}) <= Slots

\* Every request that was admitted is answered or cut, and audited.
RequestsEnd == \A r \in Requests : stage[r] = "admitted" ~> stage[r] = "ended"

\* The server comes to its end once it is told to shut down.
ShutdownEnds == ~accepting ~> closed
=============================================================================
