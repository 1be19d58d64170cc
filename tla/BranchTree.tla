----------------------------- MODULE BranchTree -----------------------------
(***************************************************************************)
(* The scheduler's branch arena (scheduler/src/types.rs): branches are     *)
(* numbered in the order they are created, a branch is Active, Expanded    *)
(* into children, Killed or Finalized, and ids are never reused.  A tree   *)
(* is a record of functions over the ids the arena may ever hold.          *)
(*                                                                         *)
(* Log-probabilities and values are integers: the code only adds and       *)
(* compares them.  Of an MCTS visit count only "zero or not" is kept.      *)
(***************************************************************************)
EXTENDS Integers, Sequences, FiniteSets, FiniteSetsExt, SequencesExt

CONSTANT MaxTotalBranches  \* SchedulerConfig.max_total_branches

ASSUME BranchTreeAssumption == MaxTotalBranches \in Nat \ {0}

Ids == 0 .. MaxTotalBranches - 1
Root == 0

States == {"absent", "active", "expanded", "killed", "finalized"}

NewTree ==
  [state    |-> [b \in Ids |-> IF b = Root THEN "active" ELSE "absent"],
   parent   |-> [b \in Ids |-> Root],
   depth    |-> [b \in Ids |-> 0],
   tokens   |-> [b \in Ids |-> 0],
   logprob  |-> [b \in Ids |-> 0],
   value    |-> [b \in Ids |-> 0],
   hasValue |-> [b \in Ids |-> FALSE],
   visited  |-> [b \in Ids |-> FALSE]]

Size(t) == Cardinality({b \in Ids : t.state[b] # "absent"})

ActiveFrontier(t) == {b \in Ids : t.state[b] = "active"}

IsLive(t, b) == t.state[b] \in {"active", "expanded"}
IsTerminal(t, b) == t.state[b] \in {"killed", "finalized"}

Children(t, b) == {c \in Ids \ {Root} : t.state[c] # "absent" /\ t.parent[c] = b}

\* The branches above b; a parent's id is below its children's.
Ancestors(t, b) ==
  LET above[c \in Ids] == IF c = Root THEN {} ELSE {t.parent[c]} \cup above[t.parent[c]]
  IN above[b]

\* The elements of S in a strict total order.
Sorted(S, before(_, _)) ==
  LET rank == [x \in S |-> Cardinality({y \in S : before(y, x)})]
  IN [i \in 1 .. Cardinality(S) |-> CHOOSE x \in S : rank[x] = i - 1]

Ascending(S) == Sorted(S, <)
Descending(S) == Reverse(Ascending(S))

\* fork of each branch of the sequence bs in turn: its children receive the
\* next width ids and inherit its counters, without a value of their own.
Fork(t, bs, width) ==
  LET first == Size(t)
      born == first .. first + Len(bs) * width - 1
      source(c) == bs[((c - first) \div width) + 1]
      inherit(f) == [b \in Ids |-> IF b \in born THEN f[source(b)] ELSE f[b]]
  IN [state    |-> [b \in Ids |-> IF b \in born THEN "active"
                                  ELSE IF b \in Range(bs) THEN "expanded"
                                  ELSE t.state[b]],
      parent   |-> [b \in Ids |-> IF b \in born THEN source(b) ELSE t.parent[b]],
      depth    |-> [b \in Ids |-> IF b \in born THEN t.depth[source(b)] + 1
                                  ELSE t.depth[b]],
      tokens   |-> inherit(t.tokens),
      logprob  |-> inherit(t.logprob),
      value    |-> inherit(t.value),
      hasValue |-> t.hasValue,
      visited  |-> t.visited]

\* fork refuses to grow the arena past its limit.
ForksThatFit(t, bs, width) ==
  SubSeq(bs, 1, Min({Len(bs), (MaxTotalBranches - Size(t)) \div width}))

Kill(t, S) ==
  [t EXCEPT !.state = [b \in Ids |-> IF b \in S THEN "killed" ELSE @[b]]]

Finalize(t, S) ==
  [t EXCEPT !.state = [b \in Ids |-> IF b \in S THEN "finalized" ELSE @[b]]]

RecordToken(t, b, logprob) ==
  [t EXCEPT !.tokens[b] = @ + 1, !.logprob[b] = @ + logprob]

RecordValue(t, b, score) ==
  [t EXCEPT !.value[b] = score, !.hasValue[b] = TRUE]

MarkValuePending(t, b) == [t EXCEPT !.hasValue[b] = FALSE]

Backpropagate(t, b) ==
  [t EXCEPT !.visited = [c \in Ids |-> @[c] \/ c \in {b} \cup Ancestors(t, b)]]

\* The ancestors reclaim_completed_ancestors kills once b is terminal: from b's
\* parent upwards, stopping below the first one that has another live child.
Reclaimed(t, b) ==
  LET above == Ancestors(t, b)
      done(a) == \A c \in Children(t, a) : IsTerminal(t, c) \/ c \in above
  IN {a \in above : IsLive(t, a) /\ \A x \in above : x >= a /\ IsLive(t, x) => done(x)}

\* The order in which terminate_tree kills the expanded branches once no
\* branch is active: round by round those whose children are terminal, the
\* deepest and youngest of a round first.
TerminationOrder(t) ==
  LET expanded == {b \in Ids : t.state[b] = "expanded"}
      round == [b \in expanded |-> Max({0} \cup {t.depth[c] - t.depth[b] :
                                                  c \in {x \in expanded : b \in Ancestors(t, x)}})]
      earlier(a, b) ==
        \/ round[a] < round[b]
        \/ round[a] = round[b] /\ t.depth[a] > t.depth[b]
        \/ round[a] = round[b] /\ t.depth[a] = t.depth[b] /\ a > b
  IN Sorted(expanded, earlier)
=============================================================================
