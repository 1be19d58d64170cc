---------------------------- MODULE EventStream ----------------------------
(***************************************************************************)
(* The contract on the events an engine yields for one generation, as the  *)
(* server enforces it (EventAccumulator, serve/autotree_serve/app.py): an  *)
(* acceptor that either takes an event or raises EngineContractError,      *)
(* after which the stream is cut.  Counters that only carry measurements   *)
(* (times, cache sizes, scores) are left out.                              *)
(*                                                                         *)
(* A done event carries the summary of the tree or, as that is optional,   *)
(* does without; the summary of emvpt has fields more than the others.     *)
(***************************************************************************)
EXTENDS Integers, Sequences, FiniteSets, FiniteSetsExt

NoBranch == -1  \* parent_id = None

Started(b, parent) == [type |-> "branch_started", branch |-> b, parent |-> parent]
TokenEvent(b, index, token) ==
  [type |-> "token", branch |-> b, index |-> index, token |-> token]
Pruned(b) == [type |-> "branch_pruned", branch |-> b]
MergedInto(b, into) == [type |-> "branch_merged", branch |-> b, into |-> into]

\* The accumulator; its parents and tokens are functions on what has started.
NewStream ==
  [parents |-> <<>>, tokens |-> <<>>, terminal |-> {},
   pruned |-> 0, merged |-> 0, finished |-> FALSE, error |-> FALSE]

StartedIn(s) == DOMAIN s.parents

PathText(s, b) ==
  LET text[c \in StartedIn(s)] ==
        (IF s.parents[c] = NoBranch THEN <<>> ELSE text[s.parents[c]]) \o s.tokens[c]
  IN text[b]

\* len of the tokens of each branch
SpentIn(s) == [b \in StartedIn(s) |-> Len(s.tokens[b])]
TokensIn(s) == SumFunctionOnSet(SpentIn(s), StartedIn(s))

Terminable(s, b) == b \in StartedIn(s) \ s.terminal

Summaries == {"none", "plain", "extended"}

\* What accept requires of a summary.
SummaryFits(s, e) ==
  /\ e.reused  \* kv_reuse_ratio >= 1
  /\ e.branches = Cardinality(StartedIn(s))
  /\ e.pruned = s.pruned /\ e.merged = s.merged
  /\ e.spent = SpentIn(s)

\* What accept requires of each event.
Accepts(s, e) ==
  /\ ~s.finished
  /\ CASE e.type = "branch_started" ->
            /\ e.branch \notin StartedIn(s)
            /\ e.parent \in StartedIn(s) \cup {NoBranch}
       [] e.type = "token" ->
            /\ Terminable(s, e.branch)
            /\ e.index = Len(s.tokens[e.branch])
       [] e.type = "branch_pruned" -> Terminable(s, e.branch)
       [] e.type = "branch_merged" ->
            /\ Terminable(s, e.branch)
            /\ Terminable(s, e.into) /\ e.into # e.branch
       [] e.type = "done" ->
            /\ Terminable(s, e.branch)
            /\ s.terminal \cup {e.branch} = StartedIn(s)
            /\ e.completion = TokensIn(s)
            /\ e.summary # "none" => SummaryFits(s, e)
            /\ e.text = PathText(s, e.branch)

\* f with an entry for b, which it has none for.
Entered(f, b, x) == [c \in DOMAIN f \cup {b} |-> IF c = b THEN x ELSE f[c]]

Accept(s, e) ==
  IF s.error \/ ~Accepts(s, e) THEN [s EXCEPT !.error = TRUE]
  ELSE CASE e.type = "branch_started" ->
              [s EXCEPT !.parents = Entered(@, e.branch, e.parent),
                        !.tokens = Entered(@, e.branch, <<>>)]
         [] e.type = "token" ->
              [s EXCEPT !.tokens[e.branch] = Append(@, e.token)]
         [] e.type = "branch_pruned" ->
              [s EXCEPT !.terminal = @ \cup {e.branch}, !.pruned = @ + 1]
         [] e.type = "branch_merged" ->
              [s EXCEPT !.terminal = @ \cup {e.branch}, !.merged = @ + 1]
         [] e.type = "done" ->
              [s EXCEPT !.terminal = @ \cup {e.branch}, !.finished = TRUE]
=============================================================================
