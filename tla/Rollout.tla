------------------------------ MODULE Rollout ------------------------------
(***************************************************************************)
(* rollout of the SDK (sdk/autotree_sdk/rollout.py): one tree stream per   *)
(* prompt, from the engine through the server's accumulator (_tree_stream  *)
(* of serve/autotree_serve/app.py) and a connection that may break, to the *)
(* TraceAssembler that rebuilds the tree and checks it over again.         *)
(*                                                                         *)
(* The engine is the deterministic one the server falls back on, whose     *)
(* script is drawn when the request comes, or any at all.  The assembler   *)
(* of stream_tree_completions and the one of rollout are given the same    *)
(* events one after the other, and are one here.                           *)
(***************************************************************************)
EXTENDS EventStream, SequencesExt

CONSTANTS
  Prompts,      \* how many prompts there are
  Words,        \* texts a token can have
  MaxBranches,  \* bound on the branches of a stream
  MaxTokens,    \* bound on its tokens
  MaxOnTheWay   \* bound on the frames sent and not read

ASSUME RolloutAssumption ==
  {Prompts, MaxBranches, MaxTokens, MaxOnTheWay} \subseteq Nat \ {0}

VARIABLES
  asked,   \* prompts the server has been asked for
  engine,  \* "demo" or "any"
  script,  \* what the deterministic engine has still to yield
  server,  \* "idle", "streaming", "closed" (response complete) or "cut"
  stream,  \* the server's accumulator
  wire,    \* frames sent and not read
  trace,   \* the assembler
  trees,   \* how many trees the list of rollout has
  outcome  \* "running", "returned" or what rollout raised

clientVars == <<asked, engine, trace, trees, outcome>>
vars == <<clientVars, script, server, stream, wire>>

NewTrace == [branches |-> <<>>, done |-> FALSE]

DoneMark == [type |-> "[DONE]"]
ErrorFrame == [type |-> "error"]
TornFrame == [type |-> "torn"]  \* the line the connection broke off in

-----------------------------------------------------------------------------
(* DeterministicEngine.generate: the samples of each branch are drawn and  *)
(* cut at a stop string, the tokens are yielded in turns.                  *)

Allocated(total, n) ==
  [i \in 0 .. n - 1 |-> total \div n + IF i < total % n THEN 1 ELSE 0]

Samples(total, n) ==
  LET texts == SeqOf(Words, MaxTokens)
  IN {s \in [0 .. n - 1 -> texts] : \A i \in DOMAIN s : Len(s[i]) <= Allocated(total, n)[i]}

\* A branch without tokens scores -1, any other a number that is not negative;
\* of branches that score alike the last wins.
DemoWinners(samples) ==
  LET scored == {i \in DOMAIN samples : samples[i] # <<>>}
  IN IF scored = {} THEN {Max(DOMAIN samples)} ELSE scored

InTurns(samples) ==
  LET places == {p \in (1 .. MaxTokens) \X DOMAIN samples : p[1] <= Len(samples[p[2]])}
      earlier(p, q) == p[1] < q[1] \/ (p[1] = q[1] /\ p[2] < q[2])
      turn(j) == CHOOSE p \in places : Cardinality({q \in places : earlier(q, p)}) = j - 1
  IN [j \in 1 .. Cardinality(places) |->
        TokenEvent(turn(j)[2], turn(j)[1] - 1, samples[turn(j)[2]][turn(j)[1]])]

\* Fault: what was allocated is reported, whatever a stop string cut off.
SpentAllocated(samples) ==
  Allocated(MaxTokens, Cardinality(DOMAIN samples))

Spent(samples) == [i \in DOMAIN samples |-> Len(samples[i])]

\* Of three branches or more every other loser is merged into the winner.
Merges(n, j) == n >= 3 /\ j % 2 = 0

DemoDone(samples, winner) ==
  LET n == Cardinality(DOMAIN samples)
      spent == Spent(samples)
      completion == SumFunctionOnSet(spent, DOMAIN samples)
  IN [type |-> "done", branch |-> winner, text |-> samples[winner],
      completion |-> completion, summary |-> "plain", branches |-> n,
      pruned |-> Cardinality({j \in 1 .. n - 1 : ~Merges(n, j)}),
      merged |-> Cardinality({j \in 1 .. n - 1 : Merges(n, j)}),
      spent |-> spent, reused |-> n + completion >= 1 + completion]

DemoScript(samples, winner) ==
  LET n == Cardinality(DOMAIN samples)
      loser(j) == IF j <= winner THEN j - 1 ELSE j  \* in order
  IN [i \in 1 .. n |-> Started(i - 1, NoBranch)]
     \o InTurns(samples)
     \o [j \in 1 .. n - 1 |-> IF Merges(n, j) THEN MergedInto(loser(j), winner)
                             ELSE Pruned(loser(j))]
     \o <<DemoDone(samples, winner)>>

-----------------------------------------------------------------------------
(* Any engine: events that fit what it yielded so far, and some that do    *)
(* not.  Branches are numbered as they start.                              *)

TrueDone(s, b, summary) ==
  [type |-> "done", branch |-> b, text |-> PathText(s, b), completion |-> TokensIn(s),
   summary |-> summary, branches |-> Cardinality(StartedIn(s)),
   pruned |-> s.pruned, merged |-> s.merged, spent |-> SpentIn(s), reused |-> TRUE]

AnyDones(s) == {TrueDone(s, b, summary) : b \in StartedIn(s), summary \in Summaries}

\* A done event with one thing wrong.
Slips(d) ==
  {[d EXCEPT !.completion = @ + 1], [d EXCEPT !.pruned = @ + 1],
   [d EXCEPT !.text = <<>>], [d EXCEPT !.reused = FALSE]}

AnyEvents(s) ==
  LET next == Cardinality(StartedIn(s))
      ids == 0 .. Min({next, MaxBranches - 1})
      index(b) == IF b \in StartedIn(s) THEN {Len(s.tokens[b]), 0} ELSE {0}
  IN {Started(b, p) : b \in ids, p \in {NoBranch} \cup ids}
     \cup (UNION {{TokenEvent(b, i, w) : i \in index(b), w \in Words} :
                    b \in {c \in ids : TokensIn(s) < MaxTokens}})
     \cup {Pruned(b) : b \in ids}
     \cup {MergedInto(b, c) : b, c \in ids}
     \cup AnyDones(s)
     \cup (UNION {Slips(d) : d \in {c \in AnyDones(s) : Accepts(s, c)}})

-----------------------------------------------------------------------------
(* The server, and the connection.                                         *)

Init ==
  /\ asked = 0 /\ engine = "demo" /\ script = <<>>
  /\ server = "idle" /\ stream = NewStream /\ wire = <<>>
  /\ trace = NewTrace
  /\ trees = 0 /\ outcome = "running"

\* _tree_stream sends what the accumulator takes; an error of its own breaks
\* the response off.
Send(e) ==
  /\ server = "streaming" /\ Len(wire) < MaxOnTheWay
  /\ stream' = Accept(stream, e)
  /\ IF stream'.error THEN server' = "cut" /\ UNCHANGED wire
                      ELSE wire' = Append(wire, e) /\ UNCHANGED server
  /\ UNCHANGED clientVars

DemoYields ==
  /\ engine = "demo" /\ script # <<>>
  /\ Send(Head(script))
  /\ script' = Tail(script)

AnyYields ==
  /\ engine = "any"
  /\ \E e \in AnyEvents(stream) : Send(e)
  /\ UNCHANGED script

Close(frames) ==
  /\ wire' = wire \o frames
  /\ server' = "closed"
  /\ UNCHANGED <<clientVars, script, stream>>

Cut ==
  /\ server' = "cut"
  /\ UNCHANGED <<clientVars, script, stream, wire>>

\* The engine's generator is over; without a done event that is an error.
EngineEnds ==
  /\ server = "streaming" /\ script = <<>>
  /\ IF stream.finished THEN Close(<<DoneMark>>) ELSE Cut

\* KVCapacityExceededError: a typed event, and the stream is over; also if
\* the engine had been done.
OutOfPages ==
  /\ server = "streaming" /\ engine = "any"
  /\ Close(<<ErrorFrame, DoneMark>>)

\* The engine raises something else.
EngineFails == server = "streaming" /\ engine = "any" /\ Cut

\* The connection breaks: the last frames are lost, one perhaps half.
LoseConnection ==
  /\ server \in {"streaming", "closed"} /\ wire # <<>>
  /\ \E n \in 0 .. Len(wire) - 1, torn \in {<<>>, <<TornFrame>>} :
       wire' = SubSeq(wire, 1, n) \o torn
  /\ server' = "cut"
  /\ UNCHANGED <<clientVars, script, stream>>

-----------------------------------------------------------------------------
(* The models of the SDK, and TraceAssembler.                              *)

\* Why parse_tree_event refuses a frame: DoneEvent requires a summary,
\* TreeSummary forbids fields it does not name and a ratio below 1.
ParseErrors(e) ==
  IF e.type # "done" THEN {}
  ELSE IF e.summary = "none" THEN {"tree missing"}
  ELSE {why \in {"extra fields", "low ratio"} :
          IF why = "extra fields" THEN e.summary = "extended" ELSE ~e.reused}

KnownLive(t, b) == b \in DOMAIN t.branches /\ t.branches[b].status = "live"

\* Fault: the path begins with the parent.
PathFromParent(t, b, parent) == IF parent = NoBranch THEN <<b>> ELSE <<parent, b>>

\* branch_path
BranchPath(t, b, parent) ==
  IF parent = NoBranch THEN <<b>> ELSE Append(t.branches[parent].path, b)

TextOf(t, b) ==
  FlattenSeq([n \in DOMAIN t.branches[b].path |-> t.branches[t.branches[b].path[n]].tokens])

\* Fault: a merged branch counts as pruned, too.
EndedLoosely(t, status) ==
  LET counts(s) == s = status \/ (status = "pruned" /\ s = "merged")
  IN Cardinality({b \in DOMAIN t.branches : counts(t.branches[b].status)})

Ended(t, status) == Cardinality({b \in DOMAIN t.branches : t.branches[b].status = status})

\* _complete: the summary is held against what was observed.
Completes(t, e) ==
  LET observed == [b \in DOMAIN t.branches |-> Len(t.branches[b].tokens)]
  IN /\ e.completion = SumFunctionOnSet(observed, DOMAIN observed)
     /\ e.branches = Cardinality(DOMAIN t.branches)
     /\ KnownLive(t, e.branch) /\ Ended(t, "live") = 1
     /\ e.pruned = Ended(t, "pruned") /\ e.merged = Ended(t, "merged")
     /\ e.spent = observed
     /\ e.text = TextOf(t, e.branch)

\* add raises TraceInvariantError for anything else.
Addable(t, e) ==
  /\ ~t.done
  /\ CASE e.type = "branch_started" ->
            /\ e.branch \notin DOMAIN t.branches
            /\ e.parent \in DOMAIN t.branches \cup {NoBranch}
       [] e.type = "token" ->
            KnownLive(t, e.branch) /\ e.index = Len(t.branches[e.branch].tokens)
       [] e.type = "branch_pruned" -> KnownLive(t, e.branch)
       [] e.type = "branch_merged" ->
            KnownLive(t, e.branch) /\ e.into # e.branch /\ KnownLive(t, e.into)
       [] e.type = "done" -> Completes(t, e)

Add(t, e) ==
  CASE e.type = "branch_started" ->
         [t EXCEPT !.branches = Entered(@, e.branch,
            [parent |-> e.parent, path |-> BranchPath(t, e.branch, e.parent),
             tokens |-> <<>>, status |-> "live"])]
    [] e.type = "token" -> [t EXCEPT !.branches[e.branch].tokens = Append(@, e.token)]
    [] e.type = "branch_pruned" -> [t EXCEPT !.branches[e.branch].status = "pruned"]
    [] e.type = "branch_merged" -> [t EXCEPT !.branches[e.branch].status = "merged"]
    [] e.type = "done" -> [t EXCEPT !.branches[e.branch].status = "completed", !.done = TRUE]

-----------------------------------------------------------------------------
(* The client.                                                             *)

\* The POST for the next prompt: the response begins, or is an error status.
Ask ==
  /\ outcome = "running" /\ server = "idle"
  /\ asked' = asked + 1
  /\ \/ /\ engine' = "demo"
        /\ \E n \in 1 .. MaxBranches : \E s \in Samples(MaxTokens, n) :
             \E winner \in DemoWinners(s) : script' = DemoScript(s, winner)
        /\ server' = "streaming" /\ UNCHANGED outcome
     \/ /\ engine' = "any" /\ script' = <<>>
        /\ server' = "streaming" /\ UNCHANGED outcome
     \/ /\ outcome' = "http error"
        /\ UNCHANGED <<engine, script, server>>
  /\ UNCHANGED <<stream, wire, trace, trees>>

\* The response is left, with the assembler and what the engine would yield.
Leave ==
  /\ server' = "idle" /\ stream' = NewStream /\ wire' = <<>> /\ script' = <<>>
  /\ trace' = NewTrace /\ UNCHANGED engine

Raise(error) == Leave /\ outcome' = error /\ UNCHANGED <<asked, trees>>

\* Fault: the tree is taken although done never came.
CompleteEnough(t) == TRUE

Complete(t) == t.done

\* Fault: a prompt whose stream ended early is asked for again.
MissingRetried == Leave /\ asked' = asked - 1 /\ UNCHANGED <<trees, outcome>>

Missing == Raise("missing done")

\* The stream is over: finish, and on to the next prompt.
Finish ==
  IF ~Complete(trace) THEN Missing
  ELSE /\ Leave
       /\ trees' = trees + 1
       /\ outcome' = IF asked = Prompts THEN "returned" ELSE "running"
       /\ UNCHANGED asked

\* The next line that carries data.
Read ==
  /\ server # "idle" /\ wire # <<>>
  /\ LET e == Head(wire)
     IN CASE e.type = "[DONE]" -> Finish
          [] e.type = "error" -> Raise(IF trace.done THEN "event after done" ELSE "stream error")
          [] e.type = "torn" ->
               \/ Raise("parse error")
               \/ wire' = Tail(wire)  \* no data field yet
                  /\ UNCHANGED <<clientVars, script, server, stream>>
          [] OTHER ->
               IF ParseErrors(e) # {} THEN \E error \in ParseErrors(e) : Raise(error)
               ELSE IF ~Addable(trace, e) THEN Raise("invalid")
               ELSE /\ trace' = Add(trace, e) /\ wire' = Tail(wire)
                    /\ UNCHANGED <<asked, engine, script, server, stream, trees, outcome>>

\* Nothing more will come: the transport raises, or takes it for the end.
ReadEnd == server = "cut" /\ wire = <<>> /\ (Finish \/ Raise("transport error"))

\* The read timeout of the client.
TimeOut == server = "streaming" /\ wire = <<>> /\ Raise("transport error")

Serve == DemoYields \/ AnyYields \/ EngineEnds \/ OutOfPages \/ EngineFails
Consume == Ask \/ Read \/ ReadEnd

Next == Serve \/ LoseConnection \/ Consume \/ TimeOut

Spec == Init /\ [][Next]_vars

\* The server keeps pulling the engine, which is not endless, and the client
\* keeps reading; nobody has to time out.
FairSpec == Spec /\ WF_vars(Serve) /\ WF_vars(Consume)

-----------------------------------------------------------------------------
\* Two implementations of one contract, for any engine: what the server's
\* accumulator let pass the SDK refuses for one reason only, that the summary
\* of a done event is missing or has fields its model does not know.  Neither
\* TraceAssembler nor the bound of the ratio ever disagrees.
AcceptorsAgree == outcome \notin {"invalid", "low ratio"}

\* A tree that rollout keeps is the one the engine completed, although the
\* connection may have broken at any frame: every branch with its parent and
\* its tokens, one of them completed.
OnlyWholeTrees ==
  [][trees' # trees =>
       /\ stream.finished
       /\ DOMAIN trace.branches = StartedIn(stream)
       /\ \A b \in StartedIn(stream) :
            /\ trace.branches[b].parent = stream.parents[b]
            /\ trace.branches[b].tokens = stream.tokens[b]
       /\ Ended(trace, "completed") = 1 /\ Ended(trace, "live") = 0]_vars

\* The samples and preference pairs are exported along each branch's path:
\* lineage finds every branch of it below the one before, and the completion
\* is the text the engine generated on the way from the root.
ExportsFaithful ==
  trace.done => \A b \in DOMAIN trace.branches :
    LET path == trace.branches[b].path
    IN /\ Last(path) = b /\ Range(path) \subseteq DOMAIN trace.branches
       /\ \A n \in 1 .. Len(path) - 1 : trace.branches[path[n + 1]].parent = path[n]
       /\ TextOf(trace, b) = PathText(stream, b)

\* The server accepts all that the deterministic engine yields, however its
\* tokens divide among the branches and wherever a stop string cuts them.
DemoAccepted == engine = "demo" => ~stream.error

\* rollout returns or raises.
RolloutEnds == <>(outcome # "running")
=============================================================================
