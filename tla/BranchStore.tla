---------------------------- MODULE BranchStore ----------------------------
(***************************************************************************)
(* What the tree KV cache promises its users (core/autotree_core/kv): a    *)
(* tree of branches, each a sequence of tokens of its own.  A fork starts  *)
(* from its parent's sequence, an append extends the sequence of one       *)
(* branch, and nothing else ever changes what a branch reads back.  There  *)
(* are no pages here: sharing, copy-on-write and deduplication are the     *)
(* business of TreeKV, which is shown to implement this specification.     *)
(***************************************************************************)
EXTENDS Integers, Sequences

CONSTANTS
  Tokens,    \* the token payloads (K/V rows) a caller can append
  MaxBranch, \* bound: the largest branch id a run may create
  MaxAppend  \* bound: the tokens of one append_tokens call

BranchIds == 0 .. MaxBranch
Root == 0

VARIABLES
  live,       \* the ids of the branches that exist
  parent,     \* the branch each branch was forked from
  nextBranch, \* the id the next fork receives
  history     \* the token sequence of each live branch

vars == <<live, parent, nextBranch, history>>

Init ==
  /\ live = {Root}
  /\ parent = [b \in BranchIds |-> b]
  /\ nextBranch = 1
  /\ history = [b \in BranchIds |-> <<>>]

Fork(b) ==
  /\ b \in live
  /\ nextBranch \in BranchIds
  /\ live' = live \cup {nextBranch}
  /\ parent' = [parent EXCEPT ![nextBranch] = b]
  /\ nextBranch' = nextBranch + 1
  /\ history' = [history EXCEPT ![nextBranch] = history[b]]

AppendTokens(b, tokens) ==
  /\ b \in live
  /\ history' = [history EXCEPT ![b] = @ \o tokens]
  /\ UNCHANGED <<live, parent, nextBranch>>

\* Only a leaf can be pruned; its id is never given out again.
Prune(b) ==
  /\ b \in live
  /\ \A c \in live \ {b} : parent[c] # b
  /\ live' = live \ {b}
  /\ parent' = [parent EXCEPT ![b] = b]
  /\ history' = [history EXCEPT ![b] = <<>>]
  /\ UNCHANGED nextBranch

Appends == UNION {[1 .. n -> Tokens] : n \in 1 .. MaxAppend}

Next ==
  \/ \E b \in BranchIds : Fork(b)
  \/ \E b \in BranchIds, tokens \in Appends : AppendTokens(b, tokens)
  \/ \E b \in BranchIds : Prune(b)

Spec == Init /\ [][Next]_vars
=============================================================================
