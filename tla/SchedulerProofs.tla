-------------------------- MODULE SchedulerProofs ---------------------------
(***************************************************************************)
(* Proofs about BranchScheduler, for every policy, configuration, driver   *)
(* and size of the arena.  In the first half: what is reserved is what the *)
(* driver was told to continue, a Continue can always be answered, and a   *)
(* deferred ending waits for its value.  In the second, on top of that     *)
(* invariant: the tree is whole between two events, a search that is over  *)
(* finalized a branch, and the commands alone rebuild the tree.            *)
(***************************************************************************)
EXTENDS BranchScheduler, SharedLemmas, SequenceTheorems, TLAPS

Admission == INSTANCE SharedLemmas WITH Op <- Admit
Killing == INSTANCE SharedLemmas WITH Op <- KillBranch
Reclaiming == INSTANCE SharedLemmas WITH Op <- Reclaim
Replaying == INSTANCE SharedLemmas WITH Op <- Replay

-----------------------------------------------------------------------------
(* The inductive invariant.                                                *)

Present(t) == {b \in Ids : t.state[b] # "absent"}

Trees ==
  [state : [Ids -> States], parent : [Ids -> Ids], depth : [Ids -> Nat],
   tokens : [Ids -> Nat], logprob : [Ids -> Int], value : [Ids -> Int],
   hasValue : [Ids -> BOOLEAN], visited : [Ids -> BOOLEAN]]

\* The branches are numbered without a gap, a parent before its children, and
\* a branch with children is no longer active.
TreeOK(t) ==
  /\ t \in Trees
  /\ \E n \in 1 .. MaxTotalBranches : Present(t) = 0 .. n - 1
  /\ \A c \in Ids \ {Root} : t.parent[c] < c
  /\ \A c \in Present(t) \ {Root} : t.state[t.parent[c]] \in {"expanded", "killed"}

CommandSet == [op : {"fork", "kill", "finalize", "continue"}, branch : Ids]

\* The functions from some branches to T.
Partly(T) == UNION {[D -> T] : D \in SUBSET Ids}

ContinuesIn(q) == {q[i].branch : i \in {j \in DOMAIN q : q[j].op = "continue"}}
ClosedBy(q) == {q[i].branch : i \in {j \in DOMAIN q : q[j].op # "continue"}}

TypeInv ==
  /\ TreeOK(tree)
  /\ consumed \in Nat
  /\ queue \in Seq(CommandSet)
  /\ outstanding \in SUBSET Ids
  /\ granted \in SUBSET Present(tree)
  /\ waits \in Partly(Int)
  /\ terminals \in Partly({"tree", "branch"})

\* Before the first token there is only the root, and nothing was asked for.
NothingAskedYet ==
  consumed = 0 =>
    /\ ActiveFrontier(tree) \subseteq {Root}
    /\ Continues = {} /\ DOMAIN waits = {}

\* What the scheduler counts on can be continued.
GrantsSound ==
  ~failed => \A b \in InForce \cup Continues :
    /\ b \in ActiveFrontier(tree) /\ b \notin DOMAIN waits
    /\ tree.tokens[b] < PerBranchBudget

IInv ==
  /\ config \in Configs
  /\ ~failed => TypeInv /\ NothingAskedYet
  /\ ReservationsExact
  /\ GrantsSound
  /\ DeferredEndingsAwaitAValue

-----------------------------------------------------------------------------
(* Sequences: sorting, and the folds of the scheduler step by step.        *)

\* Ascending lists a finite set of integers in order.
LEMMA AscendingListing ==
  ASSUME NEW S \in SUBSET Int, IsFiniteSet(S)
  PROVE  /\ Ascending(S) \in Seq(S) /\ {Ascending(S)[i] : i \in DOMAIN Ascending(S)} = S
         /\ \A i, j \in DOMAIN Ascending(S) : i < j => Ascending(S)[i] < Ascending(S)[j]
<1> DEFINE rank == [x \in S |-> Cardinality({y \in S : y < x})]
           q == [i \in 1 .. Cardinality(S) |-> CHOOSE x \in S : rank[x] = i - 1]
<1>1. Ascending(S) = q
  BY DEF Ascending, Sorted
<1>2. /\ q \in Seq(S) /\ {q[i] : i \in DOMAIN q} = S
      /\ \A i, j \in DOMAIN q : i < j => q[i] < q[j]
  <2>1. rank = SmallerIn(S) /\ q = ByRank(rank, S)
    BY DEF SmallerIn, ByRank
  <2> HIDE DEF rank, q
  <2> QED
    BY <2>1, AscendingOrder
<1> HIDE DEF q
<1> QED
  BY <1>1, <1>2

LEMMA IdsFinite == Ids \in SUBSET Nat /\ IsFiniteSet(Ids) /\ Root \in Ids
<1>1. 0 \in Int /\ MaxTotalBranches - 1 \in Int /\ MaxTotalBranches \in Nat \ {0}
  BY BranchTreeAssumption
<1> QED
  BY <1>1, FS_Interval DEF Ids, Root

\* The two ways the scheduler lists branches.
LEMMA ListsOfBranches ==
  ASSUME NEW S \in SUBSET Ids
  PROVE  /\ IsFiniteSet(S)
         /\ Ascending(S) \in Seq(Ids) /\ {Ascending(S)[i] : i \in DOMAIN Ascending(S)} = S
         /\ Descending(S) \in Seq(Ids) /\ {Descending(S)[i] : i \in DOMAIN Descending(S)} = S
<1>1. IsFiniteSet(S) /\ S \in SUBSET Int
  <2>1. Ids \in SUBSET Nat /\ IsFiniteSet(Ids)
    BY IdsFinite
  <2>2. S \in SUBSET Int
    BY <2>1
  <2> QED
    BY <2>1, <2>2, FS_Subset
<1> DEFINE q == Ascending(S)
<1>2. q \in Seq(S) /\ {q[i] : i \in DOMAIN q} = S
  BY <1>1, AscendingListing
<1> HIDE DEF q
<1>3. q \in Seq(Ids)
  BY <1>2
<1> DEFINE p == [i \in 1 .. Len(q) |-> q[(Len(q) - i) + 1]]
<1>4. Descending(S) = p
  BY DEF Descending, Reverse, q
<1>5. \A i \in 1 .. Len(q) : /\ (Len(q) - i) + 1 \in 1 .. Len(q)
                             /\ (Len(q) - ((Len(q) - i) + 1)) + 1 = i
  BY <1>3
<1>6. p \in Seq(Ids)
  <2>1. \A i \in 1 .. Len(q) : q[(Len(q) - i) + 1] \in Ids
    BY <1>3, <1>5
  <2>2. p \in [1 .. Len(q) -> Ids] /\ Len(q) \in Nat
    BY <1>3, <2>1
  <2> HIDE DEF p
  <2> QED
    BY <2>2, SeqDef
<1>7. {p[i] : i \in DOMAIN p} = S
  <2>1. DOMAIN q = 1 .. Len(q) /\ DOMAIN p = 1 .. Len(q)
    BY <1>3
  <2>2. \A i \in DOMAIN p : p[i] \in S
    BY <1>2, <1>5, <2>1
  <2>3. \A x \in S : \E i \in DOMAIN p : p[i] = x
    <3> TAKE x \in S
    <3>1. PICK j \in 1 .. Len(q) : q[j] = x
      BY <1>2, <2>1
    <3>2. p[(Len(q) - j) + 1] = x
      BY <1>5, <3>1
    <3> QED
      BY <1>5, <2>1, <3>2
  <2> HIDE DEF p
  <2> QED
    BY <2>2, <2>3
<1> HIDE DEF p
<1> QED
  BY <1>1, <1>2, <1>3, <1>4, <1>6, <1>7 DEF q

\* The commands admitted one after the other.
LEMMA EnqueueSteps ==
  ASSUME NEW s, NEW n \in Nat, DOMAIN s.emitted = 1 .. n
  PROVE  \E v : /\ v[0] = [s EXCEPT !.emitted = <<>>]
                /\ \A i \in 1 .. n : v[i] = Admit(v[i - 1], s.emitted[i])
                /\ Enqueue(s) = v[n]
<1>1. Enqueue(s) = Admission!Result([s EXCEPT !.emitted = <<>>], s.emitted)
  BY DEF Enqueue, FoldLeft, MapThenFoldSet, Max, Admission!Result, Admission!FoldLeft,
         Admission!MapThenFoldSet, Admission!Max
<1> QED
  BY <1>1, Admission!FoldSteps

\* The branches pruned one after the other.
LEMMA PruneSteps ==
  ASSUME NEW s, NEW q, q = Ascending(Hopeless(s.tree)), NEW n \in Nat, DOMAIN q = 1 .. n,
         KillMargin # NoMargin
  PROVE  \E v : /\ v[0] = s
                /\ \A i \in 1 .. n : v[i] = KillBranch(v[i - 1], q[i])
                /\ SpeculativePrune(s) = v[n]
<1>1. SpeculativePrune(s) = Killing!Result(s, Ascending(Hopeless(s.tree)))
  BY DEF SpeculativePrune, FoldLeft, MapThenFoldSet, Max, Killing!Result, Killing!FoldLeft,
         Killing!MapThenFoldSet, Killing!Max
<1> QED
  BY <1>1, Killing!FoldSteps

\* The ancestors of the killed branches reclaimed one after the other.
Deciding(s, d) == [s EXCEPT !.tree = d.tree, !.emitted = @ \o d.out, !.ok = d.ok]

LEMMA FollowSteps ==
  ASSUME NEW s, NEW d, NEW q, q = Ascending(Killed(d.out)), NEW n \in Nat, DOMAIN q = 1 .. n
  PROVE  \E v : /\ v[0] = Deciding(s, d)
                /\ \A i \in 1 .. n : v[i] = Reclaim(v[i - 1], q[i])
                /\ Follow(s, d) = v[n]
<1>1. Follow(s, d) = Reclaiming!Result(Deciding(s, d), Ascending(Killed(d.out)))
  BY DEF Follow, Deciding, FoldLeft, MapThenFoldSet, Max, Reclaiming!Result, Reclaiming!FoldLeft,
         Reclaiming!MapThenFoldSet, Reclaiming!Max
<1> QED
  BY <1>1, Reclaiming!FoldSteps

\* What appended commands continue and close.
LEMMA AppendedCommand ==
  ASSUME NEW q \in Seq(CommandSet), NEW c \in CommandSet
  PROVE  /\ Append(q, c) \in Seq(CommandSet)
         /\ ContinuesIn(Append(q, c)) =
              ContinuesIn(q) \cup (IF c.op = "continue" THEN {c.branch} ELSE {})
         /\ ClosedBy(Append(q, c)) =
              ClosedBy(q) \cup (IF c.op # "continue" THEN {c.branch} ELSE {})
<1> DEFINE p == Append(q, c)
<1>1. /\ p \in Seq(CommandSet) /\ DOMAIN q = 1 .. Len(q) /\ DOMAIN p = 1 .. Len(q) + 1
      /\ Len(q) \in Nat /\ p[Len(q) + 1] = c /\ \A i \in 1 .. Len(q) : p[i] = q[i]
  OBVIOUS
<1> HIDE DEF p
<1>2. \A i \in DOMAIN p : i \in DOMAIN q \/ i = Len(q) + 1
  BY <1>1
<1>3. DOMAIN q \subseteq DOMAIN p /\ Len(q) + 1 \in DOMAIN p
  BY <1>1
<1> QED
  BY <1>1, <1>2, <1>3 DEF ContinuesIn, ClosedBy, p

LEMMA ConcatenatedCommands ==
  ASSUME NEW q \in Seq(CommandSet), NEW p \in Seq(CommandSet)
  PROVE  /\ q \o p \in Seq(CommandSet)
         /\ ContinuesIn(q \o p) = ContinuesIn(q) \cup ContinuesIn(p)
         /\ ClosedBy(q \o p) = ClosedBy(q) \cup ClosedBy(p)
<1> DEFINE r == q \o p
<1>1. /\ r \in Seq(CommandSet) /\ DOMAIN q = 1 .. Len(q) /\ DOMAIN p = 1 .. Len(p)
      /\ DOMAIN r = 1 .. Len(q) + Len(p) /\ Len(q) \in Nat /\ Len(p) \in Nat
      /\ \A i \in 1 .. Len(q) + Len(p) :
           r[i] = IF i <= Len(q) THEN q[i] ELSE p[i - Len(q)]
  BY ConcatProperties
<1> HIDE DEF r
<1>2. \A i \in DOMAIN r : \/ i \in DOMAIN q /\ r[i] = q[i]
                          \/ i - Len(q) \in DOMAIN p /\ r[i] = p[i - Len(q)]
  <2> TAKE i \in DOMAIN r
  <2>1. i \in 1 .. Len(q) + Len(p) /\ r[i] = IF i <= Len(q) THEN q[i] ELSE p[i - Len(q)]
    BY <1>1
  <2>2. CASE i <= Len(q)
    <3>1. i \in DOMAIN q
      BY <1>1, <2>1, <2>2
    <3>2. r[i] = q[i]
      BY <2>1, <2>2
    <3> QED
      BY <3>1, <3>2
  <2>3. CASE ~(i <= Len(q))
    <3>1. i - Len(q) \in 1 .. Len(p)
      BY <1>1, <2>1, <2>3
    <3> QED
      BY <1>1, <2>1, <2>3, <3>1
  <2> QED
    BY <2>2, <2>3
<1>3. \A i \in DOMAIN q : i \in DOMAIN r /\ r[i] = q[i]
  BY <1>1
<1>4. \A i \in DOMAIN p : i + Len(q) \in DOMAIN r /\ r[i + Len(q)] = p[i]
  BY <1>1
<1>5. ContinuesIn(r) = ContinuesIn(q) \cup ContinuesIn(p)
  BY <1>2, <1>3, <1>4 DEF ContinuesIn
<1>6. ClosedBy(r) = ClosedBy(q) \cup ClosedBy(p)
  BY <1>2, <1>3, <1>4 DEF ClosedBy
<1> QED
  BY <1>1, <1>5, <1>6 DEF r

LEMMA CommandsOf ==
  ASSUME NEW op \in {"fork", "kill", "finalize", "continue"}, NEW bs \in Seq(Ids)
  PROVE  /\ Commands(op, bs) \in Seq(CommandSet)
         /\ ContinuesIn(Commands(op, bs)) =
              IF op = "continue" THEN {bs[i] : i \in DOMAIN bs} ELSE {}
         /\ ClosedBy(Commands(op, bs)) =
              IF op = "continue" THEN {} ELSE {bs[i] : i \in DOMAIN bs}
<1> DEFINE p == Commands(op, bs)
<1>1. DOMAIN p = DOMAIN bs /\ \A i \in DOMAIN bs : p[i].op = op /\ p[i].branch = bs[i]
  BY DEF Commands, Command
<1>2. p \in Seq(CommandSet)
  <2>1. \A i \in 1 .. Len(bs) : Command(op, bs[i]) \in CommandSet
    BY DEF Command, CommandSet
  <2>2. p = [i \in 1 .. Len(bs) |-> Command(op, bs[i])] /\ Len(bs) \in Nat
    BY DEF Commands
  <2> HIDE DEF p
  <2>3. p \in [1 .. Len(bs) -> CommandSet]
    BY <2>1, <2>2
  <2> QED
    BY <2>2, <2>3, SeqDef
<1> HIDE DEF p
<1> QED
  BY <1>1, <1>2 DEF ContinuesIn, ClosedBy, p

\* Withdrawing the Continues of b leaves the other commands in the queue.
LEMMA WithdrawnQueue ==
  ASSUME NEW q \in Seq(CommandSet), NEW b
  PROVE  /\ WithoutContinue(q, b) \in Seq(CommandSet)
         /\ ContinuesIn(WithoutContinue(q, b)) = ContinuesIn(q) \ {b}
<1> DEFINE K == {i \in DOMAIN q : q[i] # Command("continue", b)}
           k == Ascending(K)
           p == WithoutContinue(q, b)
<1>1. DOMAIN q = 1 .. Len(q) /\ Len(q) \in Nat /\ \A i \in DOMAIN q : q[i] \in CommandSet
  OBVIOUS
<1>2. IsFiniteSet(K) /\ K \in SUBSET Int
  <2>1. 1 \in Int /\ Len(q) \in Int
    BY <1>1
  <2>2. IsFiniteSet(1 .. Len(q))
    BY <2>1, FS_Interval
  <2> QED
    BY <1>1, <2>2, FS_Subset
<1>3. k \in Seq(K) /\ {k[i] : i \in DOMAIN k} = K
  <2> HIDE DEF K
  <2> QED
    BY <1>2, AscendingListing
<1>4. p = [i \in DOMAIN k |-> q[k[i]]]
  BY DEF WithoutContinue
<1> HIDE DEF k, p
<1>5. \A i \in DOMAIN k : k[i] \in DOMAIN q /\ q[k[i]] # Command("continue", b)
  BY <1>3
<1>6. \A j \in DOMAIN q : q[j] # Command("continue", b) => \E i \in DOMAIN k : k[i] = j
  BY <1>3
<1>7. DOMAIN k = 1 .. Len(k) /\ Len(k) \in Nat
  <2> HIDE DEF K
  <2> QED
    BY <1>3
<1>8. p \in Seq(CommandSet)
  <2>1. p \in [1 .. Len(k) -> CommandSet]
    BY <1>1, <1>4, <1>5, <1>7
  <2> QED
    BY <1>7, <2>1, SeqDef
<1>9. \A c \in CommandSet : c = Command("continue", b) <=> c.op = "continue" /\ c.branch = b
  BY DEF Command, CommandSet
<1>10. ContinuesIn(p) = ContinuesIn(q) \ {b}
  <2>1. DOMAIN p = DOMAIN k /\ \A i \in DOMAIN k : p[i] = q[k[i]]
    BY <1>4
  <2>2. \A i \in DOMAIN q : q[i].op = "continue" =>
          (q[i].branch = b <=> q[i] = Command("continue", b))
    BY <1>1, <1>9
  <2> HIDE DEF K
  <2> QED
    BY <2>1, <2>2, <1>5, <1>6 DEF ContinuesIn
<1> QED
  BY <1>8, <1>10 DEF p

-----------------------------------------------------------------------------
(* The branch tree: what its operations keep.                              *)

\* What becomes of the tree t when the branches of C are closed or forked:
\* these, and no others, leave the frontier, none that was not on it returns,
\* and the counters of every branch there was stay.
Evolves(t, u, C) ==
  /\ TreeOK(t) /\ TreeOK(u) /\ C \subseteq Present(u)
  /\ \A b \in Present(t) :
       /\ b \in Present(u) /\ u.tokens[b] = t.tokens[b] /\ u.hasValue[b] = t.hasValue[b]
       /\ u.state[b] = "active" => t.state[b] = "active"
  /\ \A b \in Ids : t.state[b] = "active" /\ u.state[b] # "active" => b \in C
  /\ \A b \in C : u.state[b] # "active"

LEMMA EvolvesOn ==
  ASSUME NEW t, NEW u, NEW w, NEW C, NEW D, Evolves(t, u, C), Evolves(u, w, D)
  PROVE  Evolves(t, w, C \cup D)
BY DEF Evolves, Present

LEMMA EvolvesNot ==
  ASSUME NEW t, TreeOK(t)
  PROVE  Evolves(t, t, {})
BY DEF Evolves, Present

LEMMA TreeFields ==
  ASSUME NEW t \in Trees
  PROVE  /\ t.state \in [Ids -> States] /\ t.parent \in [Ids -> Ids]
         /\ t.depth \in [Ids -> Nat] /\ t.tokens \in [Ids -> Nat]
         /\ t.logprob \in [Ids -> Int] /\ t.value \in [Ids -> Int]
         /\ t.hasValue \in [Ids -> BOOLEAN] /\ t.visited \in [Ids -> BOOLEAN]
BY DEF Trees

\* The recursive function behind Ancestors exists, as a parent's id is below
\* that of its children.
LEMMA AncestorsStep ==
  ASSUME NEW t, TreeOK(t)
  PROVE  \A c \in Ids :
           Ancestors(t, c) = IF c = Root THEN {} ELSE {t.parent[c]} \cup Ancestors(t, t.parent[c])
<1> DEFINE Above(f, c) == IF c = Root THEN {} ELSE {t.parent[c]} \cup f[t.parent[c]]
           Is(f, k) == f = [c \in 0 .. k |-> Above(f, c)]
           N == MaxTotalBranches - 1
           Good == {k \in 0 .. N : \E f : Is(f, k)}
<1>1. N \in Nat /\ Ids = 0 .. N
  BY BranchTreeAssumption DEF Ids
<1>2. \A c \in Ids \ {Root} : t.parent[c] \in Ids /\ t.parent[c] < c
  BY TreeFields DEF TreeOK
<1> HIDE DEF N
<1>3. 0 \in Good
  <2> DEFINE f == [c \in 0 .. 0 |-> {}]
  <2>1. f = [c \in 0 .. 0 |-> Above(f, c)]
    BY DEF Root
  <2> HIDE DEF f, Above
  <2> QED
    BY <1>1, <2>1
<1>4. ASSUME NEW k \in 0 .. N - 1, k \in Good PROVE k + 1 \in Good
  <2>1. PICK f : Is(f, k)
    BY <1>4
  <2>2. k \in Nat /\ k + 1 \in 0 .. N /\ \A c \in 0 .. k + 1 : c \in Ids
    BY <1>1
  <2> DEFINE g == [c \in 0 .. k + 1 |-> Above(f, c)]
  <2>3. \A c \in 0 .. k : f[c] = Above(f, c)
    <3> HIDE DEF Above
    <3> QED
      BY <2>1, Zenon
  <2>4. \A c \in 0 .. k : g[c] = f[c]
    <3>1. \A c \in 0 .. k : c \in 0 .. k + 1
      BY <2>2
    <3> HIDE DEF Above
    <3> QED
      BY <2>3, <3>1
  <2>5. \A c \in 0 .. k + 1 : Above(f, c) = Above(g, c)
    <3> TAKE c \in 0 .. k + 1
    <3>1. CASE c = Root
      BY <3>1
    <3>2. CASE c # Root
      <4>1. t.parent[c] \in 0 .. k
        BY <1>1, <1>2, <2>2, <3>2
      <4> HIDE DEF g
      <4> QED
        BY <2>4, <4>1
    <3> QED
      BY <3>1, <3>2
  <2>6. Is(g, k + 1)
    <3>1. \A h : (\A c \in 0 .. k + 1 : Above(f, c) = Above(h, c))
                 => [c \in 0 .. k + 1 |-> Above(f, c)] = [c \in 0 .. k + 1 |-> Above(h, c)]
      <4> HIDE DEF Above
      <4> QED
        BY Zenon
    <3>2. [c \in 0 .. k + 1 |-> Above(f, c)] = [c \in 0 .. k + 1 |-> Above(g, c)]
      <4> HIDE DEF Above, g
      <4> QED
        BY <2>5, <3>1
    <3> QED
      BY <3>2
  <2> HIDE DEF g, Is
  <2> QED
    BY <2>2, <2>6
<1> HIDE DEF Good
<1>5. N \in Good
  <2>1. 0 .. N \subseteq Good
    BY <1>1, <1>3, <1>4, IntervalInduction
  <2> QED
    BY <1>1, <2>1
<1> DEFINE above == CHOOSE f : Is(f, N)
<1>6. Is(above, N)
  <2>1. \E f : Is(f, N)
    BY <1>5 DEF Good
  <2> HIDE DEF Is
  <2> QED
    BY <2>1
<1>7. \A c \in Ids : Ancestors(t, c) = above[c]
  <2>1. 0 .. N = Ids
    BY <1>1
  <2>2. above = CHOOSE f : f = [c \in Ids |-> Above(f, c)]
    BY <2>1
  <2> QED
    BY <2>2 DEF Ancestors
<1>8. \A c \in Ids : above[c] = Above(above, c)
  <2> HIDE DEF above, Above
  <2> QED
    BY <1>1, <1>6, Zenon
<1> HIDE DEF above
<1> QED
  BY <1>2, <1>7, <1>8

\* The ancestors of a branch are older branches that have children.
LEMMA AncestorsAbove ==
  ASSUME NEW t, TreeOK(t), NEW b \in Present(t)
  PROVE  /\ Ancestors(t, b) \subseteq Present(t) /\ \A a \in Ancestors(t, b) : a < b
         /\ \A a \in Ancestors(t, b) : t.state[a] \in {"expanded", "killed"}
<1> DEFINE P(c) == c \in Present(t) =>
             /\ Ancestors(t, c) \subseteq Present(t) /\ \A a \in Ancestors(t, c) : a < c
             /\ \A a \in Ancestors(t, c) : t.state[a] \in {"expanded", "killed"}
           N == MaxTotalBranches - 1
           Good == {k \in Nat : \A c \in Ids : c <= k => P(c)}
<1>1. N \in Nat /\ Ids = 0 .. N /\ Root = 0
  BY BranchTreeAssumption DEF Ids, Root
<1> HIDE DEF N
<1>2. \A c \in Ids : Ancestors(t, c) =
        IF c = Root THEN {} ELSE {t.parent[c]} \cup Ancestors(t, t.parent[c])
  BY AncestorsStep
<1>3. \A c \in Present(t) \ {Root} :
        /\ t.parent[c] \in Present(t) /\ t.parent[c] < c
        /\ t.state[t.parent[c]] \in {"expanded", "killed"}
  BY TreeFields DEF TreeOK, Present
<1>4. P(Root)
  BY <1>1, <1>2
<1>5. 0 \in Good
  <2>1. \A c \in Ids : c <= 0 => c = Root
    BY <1>1
  <2> HIDE DEF P
  <2> QED
    BY <1>4, <2>1
<1>6. ASSUME NEW k \in Good PROVE k + 1 \in Good
  <2>1. k \in Nat /\ \A c \in Ids : c <= k => P(c)
    OBVIOUS
  <2>2. ASSUME NEW c \in Ids, c = k + 1 PROVE P(c)
    <3> SUFFICES ASSUME c \in Present(t)
                 PROVE  /\ Ancestors(t, c) \subseteq Present(t) /\ \A a \in Ancestors(t, c) : a < c
                        /\ \A a \in Ancestors(t, c) : t.state[a] \in {"expanded", "killed"}
      OBVIOUS
    <3>1. c # Root
      BY <1>1, <2>1, <2>2
    <3> DEFINE p == t.parent[c]
    <3>2. p \in Present(t) /\ p < c /\ t.state[p] \in {"expanded", "killed"} /\ p \in Ids
      BY <1>3, <3>1 DEF Present
    <3>3. p <= k
      BY <1>1, <2>1, <2>2, <3>2
    <3>4. Ancestors(t, c) = {p} \cup Ancestors(t, p)
      BY <1>2, <3>1
    <3>5. /\ Ancestors(t, p) \subseteq Present(t) /\ \A a \in Ancestors(t, p) : a < p
          /\ \A a \in Ancestors(t, p) : t.state[a] \in {"expanded", "killed"}
      BY <2>1, <3>2, <3>3
    <3>6. \A a \in Ancestors(t, p) : a < c
      <4> TAKE a \in Ancestors(t, p)
      <4>1. a \in Int /\ p \in Int /\ c \in Int /\ a < p /\ p < c
        BY <1>1, <3>2, <3>5 DEF Present
      <4> QED
        BY <4>1
    <3> HIDE DEF p
    <3> QED
      BY <3>2, <3>4, <3>5, <3>6
  <2> HIDE DEF P
  <2>3. \A c \in Ids : c <= k + 1 => P(c)
    <3> TAKE c \in Ids
    <3>1. c <= k + 1 => (c <= k \/ c = k + 1)
      BY <1>1, <2>1
    <3> QED
      BY <2>1, <2>2, <3>1
  <2> QED
    BY <2>1, <2>3
<1> HIDE DEF P
<1>7. Good = Nat
  <2>1. Good \in SUBSET Nat
    OBVIOUS
  <2> HIDE DEF Good
  <2> QED
    BY <1>5, <1>6, <2>1, NatSetInduction
<1>8. P(b)
  <2>1. b \in Ids /\ b \in Nat /\ b <= b
    BY <1>1 DEF Present
  <2> QED
    BY <1>7, <2>1
<1> QED
  BY <1>8 DEF P

\* Killing branches.
LEMMA KillFields ==
  ASSUME NEW t, TreeOK(t), NEW S
  PROVE  /\ Kill(t, S) \in Trees
         /\ \A b \in Ids : Kill(t, S).state[b] = IF b \in S THEN "killed" ELSE t.state[b]
         /\ Kill(t, S).parent = t.parent /\ Kill(t, S).tokens = t.tokens
         /\ Kill(t, S).depth = t.depth /\ Kill(t, S).logprob = t.logprob
         /\ Kill(t, S).value = t.value /\ Kill(t, S).hasValue = t.hasValue
<1>1. t \in Trees /\ t.state \in [Ids -> States]
  BY TreeFields DEF TreeOK
<1> DEFINE st == [b \in Ids |-> IF b \in S THEN "killed" ELSE t.state[b]]
<1>2. st \in [Ids -> States]
  BY <1>1 DEF States
<1>3. Kill(t, S) = [t EXCEPT !.state = st]
  BY DEF Kill
<1>4. \A b \in Ids : st[b] = IF b \in S THEN "killed" ELSE t.state[b]
  OBVIOUS
<1> HIDE DEF st
<1> QED
  BY <1>1, <1>2, <1>3, <1>4 DEF Trees

LEMMA KillEvolves ==
  ASSUME NEW t, TreeOK(t), NEW S, S \subseteq Present(t)
  PROVE  Evolves(t, Kill(t, S), S)
<1> DEFINE u == Kill(t, S)
<1>1. /\ u \in Trees /\ u.parent = t.parent /\ u.tokens = t.tokens /\ u.hasValue = t.hasValue
      /\ \A b \in Ids : u.state[b] = IF b \in S THEN "killed" ELSE t.state[b]
  BY KillFields
<1> HIDE DEF u
<1>2. t.parent \in [Ids -> Ids]
  BY TreeFields DEF TreeOK
<1>3. Present(u) = Present(t)
  BY <1>1 DEF Present
<1>4. TreeOK(u)
  BY <1>1, <1>2, <1>3 DEF TreeOK, Present
<1> QED
  BY <1>1, <1>3, <1>4 DEF Evolves, Present, u

\* Finalizing branches of the frontier, which have no children.
LEMMA FinalizeFields ==
  ASSUME NEW t, TreeOK(t), NEW S
  PROVE  /\ Finalize(t, S) \in Trees
         /\ \A b \in Ids : Finalize(t, S).state[b] = IF b \in S THEN "finalized" ELSE t.state[b]
         /\ Finalize(t, S).parent = t.parent /\ Finalize(t, S).tokens = t.tokens
         /\ Finalize(t, S).depth = t.depth /\ Finalize(t, S).logprob = t.logprob
         /\ Finalize(t, S).value = t.value /\ Finalize(t, S).hasValue = t.hasValue
<1>1. t \in Trees /\ t.state \in [Ids -> States]
  BY TreeFields DEF TreeOK
<1> DEFINE st == [b \in Ids |-> IF b \in S THEN "finalized" ELSE t.state[b]]
<1>2. st \in [Ids -> States]
  BY <1>1 DEF States
<1>3. Finalize(t, S) = [t EXCEPT !.state = st]
  BY DEF Finalize
<1>4. \A b \in Ids : st[b] = IF b \in S THEN "finalized" ELSE t.state[b]
  OBVIOUS
<1> HIDE DEF st
<1> QED
  BY <1>1, <1>2, <1>3, <1>4 DEF Trees

LEMMA FinalizeEvolves ==
  ASSUME NEW t, TreeOK(t), NEW S, S \subseteq ActiveFrontier(t)
  PROVE  Evolves(t, Finalize(t, S), S)
<1> DEFINE u == Finalize(t, S)
<1>1. /\ u \in Trees /\ u.parent = t.parent /\ u.tokens = t.tokens /\ u.hasValue = t.hasValue
      /\ \A b \in Ids : u.state[b] = IF b \in S THEN "finalized" ELSE t.state[b]
  BY FinalizeFields
<1> HIDE DEF u
<1>2. t.parent \in [Ids -> Ids]
  BY TreeFields DEF TreeOK
<1>3. Present(u) = Present(t)
  BY <1>1 DEF Present, ActiveFrontier
<1>4. \A c \in Present(t) \ {Root} : t.parent[c] \notin S
  BY DEF TreeOK, ActiveFrontier
<1>5. TreeOK(u)
  BY <1>1, <1>2, <1>3, <1>4 DEF TreeOK, Present
<1> QED
  BY <1>1, <1>3, <1>5 DEF Evolves, Present, ActiveFrontier, u

\* The branches are numbered without a gap.
LEMMA Numbered ==
  ASSUME NEW t, TreeOK(t)
  PROVE  /\ Size(t) \in 1 .. MaxTotalBranches /\ Present(t) = 0 .. Size(t) - 1
         /\ Root \in Present(t)
<1>1. PICK n \in 1 .. MaxTotalBranches : Present(t) = 0 .. n - 1
  BY DEF TreeOK
<1>2. n \in Nat \ {0} /\ 0 \in Int /\ n - 1 \in Int
  BY BranchTreeAssumption
<1>3. Cardinality(0 .. n - 1) = n
  BY <1>2, FS_Interval
<1>4. Size(t) = n
  BY <1>1, <1>3 DEF Size, Present
<1> QED
  BY <1>1, <1>2, <1>4 DEF Root

\* Forking branches of the frontier: the children are new, active, and start
\* with what their parents have.
LEMMA ForkFields ==
  ASSUME NEW t, TreeOK(t), NEW bs \in Seq(ActiveFrontier(t)), NEW width \in Nat \ {0},
         Size(t) + Len(bs) * width <= MaxTotalBranches
  PROVE  LET u == Fork(t, bs, width)
             first == Size(t)
             born == first .. first + Len(bs) * width - 1
         IN /\ u \in Trees /\ born \subseteq Ids
            /\ \A b \in Ids \ born :
                 /\ u.state[b] = IF \E i \in DOMAIN bs : bs[i] = b THEN "expanded" ELSE t.state[b]
                 /\ u.parent[b] = t.parent[b] /\ u.tokens[b] = t.tokens[b]
                 /\ u.depth[b] = t.depth[b] /\ u.logprob[b] = t.logprob[b]
            /\ u.hasValue = t.hasValue
            /\ \A b \in born :
                 /\ b \notin Present(t) /\ u.state[b] = "active"
                 /\ ((b - first) \div width) + 1 \in DOMAIN bs
                 /\ u.parent[b] = bs[((b - first) \div width) + 1]
                 /\ u.parent[b] \in ActiveFrontier(t) /\ u.parent[b] < b
                 /\ u.depth[b] = t.depth[u.parent[b]] + 1
            /\ Present(u) = Present(t) \cup born
<1> DEFINE u == Fork(t, bs, width)
           first == Size(t)
           n == Len(bs)
           born == first .. first + n * width - 1
           source(c) == bs[((c - first) \div width) + 1]
           state == [b \in Ids |-> IF b \in born THEN "active"
                                   ELSE IF b \in Range(bs) THEN "expanded" ELSE t.state[b]]
           parent == [b \in Ids |-> IF b \in born THEN source(b) ELSE t.parent[b]]
           depth == [b \in Ids |-> IF b \in born THEN t.depth[source(b)] + 1 ELSE t.depth[b]]
           inherit(f) == [b \in Ids |-> IF b \in born THEN f[source(b)] ELSE f[b]]
<1>1. /\ first \in 1 .. MaxTotalBranches /\ Present(t) = 0 .. first - 1 /\ n \in Nat
      /\ DOMAIN bs = 1 .. n /\ MaxTotalBranches \in Nat /\ Ids = 0 .. MaxTotalBranches - 1
      /\ first + n * width <= MaxTotalBranches
  BY Numbered, BranchTreeAssumption DEF Ids
<1>2. u = [state |-> state, parent |-> parent, depth |-> depth, tokens |-> inherit(t.tokens),
           logprob |-> inherit(t.logprob), value |-> inherit(t.value),
           hasValue |-> t.hasValue, visited |-> t.visited]
  BY DEF Fork
<1>3. t \in Trees /\ t.state \in [Ids -> States] /\ t.parent \in [Ids -> Ids]
      /\ t.depth \in [Ids -> Nat] /\ t.tokens \in [Ids -> Nat] /\ t.logprob \in [Ids -> Int]
      /\ t.value \in [Ids -> Int] /\ t.hasValue \in [Ids -> BOOLEAN]
      /\ t.visited \in [Ids -> BOOLEAN]
  BY TreeFields DEF TreeOK
<1> HIDE DEF first, n, u
<1>4. n * width \in Nat
  BY <1>1
<1>5. \A b \in born : b \in Ids /\ b \notin Present(t)
  BY <1>1, <1>4
<1>6. \A b \in born : ((b - first) \div width) + 1 \in DOMAIN bs
  <2> TAKE b \in born
  <2> DEFINE m == b - first
             Q == m \div width
  <2>1. m \in Nat /\ m < n * width
    BY <1>1, <1>4
  <2> HIDE DEF m
  <2>2. Q \in Nat /\ m % width \in 0 .. width - 1 /\ m = width * Q + (m % width)
    BY <2>1, DivMod
  <2> HIDE DEF Q
  <2>3. Q < n
    <3> SUFFICES ASSUME n <= Q PROVE FALSE
      BY <1>1, <2>2
    <3>1. width * n <= width * Q
      BY <1>1, <2>2, MulMono
    <3>2. width * n = n * width /\ width * Q \in Int /\ m % width \in Nat
      BY <1>1, <2>2
    <3> QED
      BY <1>4, <2>1, <2>2, <3>1, <3>2
  <2>4. Q + 1 \in 1 .. n
    BY <1>1, <2>2, <2>3
  <2> QED
    BY <1>1, <2>4 DEF Q, m
<1>7. \A b \in born : source(b) \in ActiveFrontier(t) /\ source(b) \in Ids /\ source(b) < b
  <2> TAKE b \in born
  <2>1. source(b) \in ActiveFrontier(t)
    BY <1>1, <1>6
  <2>2. source(b) \in Present(t)
    BY <2>1 DEF ActiveFrontier, Present
  <2> HIDE DEF source
  <2> QED
    BY <1>1, <1>4, <2>1, <2>2
<1>8. \A b \in Ids : b \in Range(bs) <=> \E i \in DOMAIN bs : bs[i] = b
  BY DEF Range
<1>9. \A i \in DOMAIN bs : bs[i] \in ActiveFrontier(t) /\ bs[i] \in Present(t)
  BY DEF ActiveFrontier, Present
<1> HIDE DEF source, born
<1>10. /\ state \in [Ids -> States] /\ parent \in [Ids -> Ids] /\ depth \in [Ids -> Nat]
       /\ inherit(t.tokens) \in [Ids -> Nat] /\ inherit(t.logprob) \in [Ids -> Int]
       /\ inherit(t.value) \in [Ids -> Int]
  BY <1>3, <1>7 DEF States
<1>11. /\ \A b \in Ids : state[b] = IF b \in born THEN "active"
                                   ELSE IF b \in Range(bs) THEN "expanded" ELSE t.state[b]
       /\ \A b \in Ids : parent[b] = IF b \in born THEN source(b) ELSE t.parent[b]
       /\ \A b \in born : depth[b] = t.depth[source(b)] + 1
       /\ \A b \in Ids \ born : /\ inherit(t.tokens)[b] = t.tokens[b]
                                /\ inherit(t.logprob)[b] = t.logprob[b]
                                /\ depth[b] = t.depth[b]
  BY <1>5
<1> HIDE DEF state, parent, depth, inherit
<1>12. /\ u \in Trees /\ u.state = state /\ u.parent = parent /\ u.depth = depth
       /\ u.tokens = inherit(t.tokens) /\ u.logprob = inherit(t.logprob) /\ u.hasValue = t.hasValue
  BY <1>2, <1>3, <1>10 DEF Trees
<1>13. Present(u) = Present(t) \cup born
  <2>1. \A b \in Ids : u.state[b] # "absent" <=> (b \in born \/ t.state[b] # "absent")
    BY <1>8, <1>9, <1>11, <1>12 DEF Present
  <2> QED
    BY <1>5, <2>1 DEF Present
<1>14. /\ \A b \in Ids \ born :
            /\ u.state[b] = IF \E i \in DOMAIN bs : bs[i] = b THEN "expanded" ELSE t.state[b]
            /\ u.parent[b] = t.parent[b] /\ u.tokens[b] = t.tokens[b]
            /\ u.depth[b] = t.depth[b] /\ u.logprob[b] = t.logprob[b]
  BY <1>8, <1>11, <1>12
<1>15. \A b \in born : /\ u.state[b] = "active" /\ u.parent[b] = source(b)
                        /\ u.depth[b] = t.depth[source(b)] + 1
  BY <1>5, <1>11, <1>12
<1>16. /\ u \in Trees /\ born \subseteq Ids
       /\ \A b \in Ids \ born :
            /\ u.state[b] = IF \E i \in DOMAIN bs : bs[i] = b THEN "expanded" ELSE t.state[b]
            /\ u.parent[b] = t.parent[b] /\ u.tokens[b] = t.tokens[b]
            /\ u.depth[b] = t.depth[b] /\ u.logprob[b] = t.logprob[b]
       /\ u.hasValue = t.hasValue
       /\ \A b \in born :
            /\ b \notin Present(t) /\ u.state[b] = "active"
            /\ ((b - first) \div width) + 1 \in DOMAIN bs
            /\ u.parent[b] = bs[((b - first) \div width) + 1]
            /\ u.parent[b] \in ActiveFrontier(t) /\ u.parent[b] < b
            /\ u.depth[b] = t.depth[u.parent[b]] + 1
       /\ Present(u) = Present(t) \cup born
  BY <1>5, <1>6, <1>7, <1>12, <1>13, <1>14, <1>15 DEF source
<1> QED
  BY <1>16 DEF u, first, n, born

LEMMA ForkEvolves ==
  ASSUME NEW t, TreeOK(t), NEW bs \in Seq(ActiveFrontier(t)), NEW width \in Nat \ {0},
         Size(t) + Len(bs) * width <= MaxTotalBranches
  PROVE  Evolves(t, Fork(t, bs, width), {bs[i] : i \in DOMAIN bs})
<1> DEFINE u == Fork(t, bs, width)
           first == Size(t)
           n == Len(bs)
           born == first .. first + n * width - 1
<1>1. /\ u \in Trees /\ born \subseteq Ids
      /\ \A b \in Ids \ born :
           /\ u.state[b] = IF \E i \in DOMAIN bs : bs[i] = b THEN "expanded" ELSE t.state[b]
           /\ u.parent[b] = t.parent[b] /\ u.tokens[b] = t.tokens[b]
      /\ u.hasValue = t.hasValue
      /\ \A b \in born :
           /\ b \notin Present(t) /\ u.state[b] = "active"
           /\ u.parent[b] \in ActiveFrontier(t) /\ u.parent[b] < b
           /\ \E i \in DOMAIN bs : u.parent[b] = bs[i]
      /\ Present(u) = Present(t) \cup born
  BY ForkFields
<1>2. /\ first \in 1 .. MaxTotalBranches /\ Present(t) = 0 .. first - 1 /\ n \in Nat
      /\ first + n * width <= MaxTotalBranches /\ MaxTotalBranches \in Nat /\ n * width \in Nat
  BY Numbered, BranchTreeAssumption
<1>3. \A i \in DOMAIN bs : bs[i] \in Ids /\ t.state[bs[i]] = "active" /\ bs[i] \in Present(t)
  BY DEF ActiveFrontier, Present
<1> DEFINE total == first + n * width
<1>4. total \in 1 .. MaxTotalBranches /\ Present(u) = 0 .. total - 1
  <2>1. (0 .. first - 1) \cup (first .. first + n * width - 1) = 0 .. first + n * width - 1
    <3> DEFINE m == n * width
    <3>1. m \in Nat /\ first \in Nat \ {0}
      BY <1>2
    <3> HIDE DEF m, first
    <3>2. (0 .. first - 1) \cup (first .. first + m - 1) = 0 .. first + m - 1
      BY <3>1
    <3> QED
      BY <3>2 DEF m
  <2> HIDE DEF u, first
  <2> QED
    BY <1>1, <1>2, <2>1
<1> HIDE DEF u, born, first, total
<1>5. \A c \in Present(u) \ {Root} : u.state[u.parent[c]] \in {"expanded", "killed"}
  <2> TAKE c \in Present(u) \ {Root}
  <2>1. CASE c \in born
    <3>1. PICK i \in DOMAIN bs : u.parent[c] = bs[i]
      BY <1>1, <2>1
    <3>2. bs[i] \notin born /\ bs[i] \in Ids
      BY <1>1, <1>3
    <3> QED
      BY <1>1, <3>1, <3>2
  <2>2. CASE c \notin born
    <3>1. c \in Present(t) \ {Root} /\ c \in Ids
      BY <1>1, <2>2 DEF Present
    <3>2. u.parent[c] = t.parent[c] /\ t.state[t.parent[c]] \in {"expanded", "killed"}
      BY <1>1, <2>2, <3>1 DEF TreeOK
    <3>3. t.parent[c] \in Ids
      BY <3>1, TreeFields DEF TreeOK
    <3>4. t.parent[c] \in Present(t)
      BY <3>2, <3>3 DEF Present
    <3>5. t.parent[c] \notin born
      BY <1>1, <3>4
    <3> QED
      BY <1>1, <3>2, <3>3, <3>5
  <2> QED
    BY <2>1, <2>2
<1>6. \A c \in Ids \ {Root} : u.parent[c] < c
  BY <1>1 DEF TreeOK
<1>7. TreeOK(u)
  BY <1>1, <1>4, <1>5, <1>6 DEF TreeOK
<1>8. \A b \in Present(t) : b \in Ids \ born /\ b \in Present(u)
  BY <1>1 DEF Present
<1>9. \A b \in {bs[i] : i \in DOMAIN bs} : b \in Present(u) /\ u.state[b] # "active"
  BY <1>1, <1>3, <1>8
<1>10. \A b \in Present(t) :
         /\ b \in Present(u) /\ u.tokens[b] = t.tokens[b] /\ u.hasValue[b] = t.hasValue[b]
         /\ u.state[b] = "active" => t.state[b] = "active"
  BY <1>1, <1>3, <1>8
<1>11. \A b \in Ids : t.state[b] = "active" /\ u.state[b] # "active"
                      => b \in {bs[i] : i \in DOMAIN bs}
  BY <1>1
<1> QED
  BY <1>7, <1>9, <1>10, <1>11 DEF Evolves, u

-----------------------------------------------------------------------------
(* The scheduler while it handles an event.                                *)

Handlers ==
  [tree : Trees, consumed : Nat, queue : Seq(CommandSet), outstanding : SUBSET Ids,
   waits : Partly(Int), terminals : Partly({"tree", "branch"}), emitted : Seq(CommandSet),
   ok : BOOLEAN]

Handler(s) == s \in Handlers /\ TreeOK(s.tree)

LEMMA HandlerFields ==
  ASSUME NEW s \in Handlers
  PROVE  /\ s.tree \in Trees /\ s.consumed \in Nat /\ s.queue \in Seq(CommandSet)
         /\ s.outstanding \in SUBSET Ids /\ s.waits \in Partly(Int)
         /\ s.terminals \in Partly({"tree", "branch"}) /\ s.emitted \in Seq(CommandSet)
         /\ s.ok \in BOOLEAN
BY DEF Handlers

LEMMA PartlyRestricted ==
  ASSUME NEW T, NEW f \in Partly(T), NEW D, D \subseteq DOMAIN f
  PROVE  /\ Restrict(f, D) \in Partly(T) /\ DOMAIN Restrict(f, D) = D
         /\ \A b \in D : Restrict(f, D)[b] = f[b]
<1>1. PICK E \in SUBSET Ids : f \in [E -> T]
  BY DEF Partly
<1>2. D \in SUBSET Ids /\ \A b \in D : f[b] \in T
  BY <1>1
<1> DEFINE g == [b \in D |-> f[b]]
<1>3. g \in [D -> T] /\ DOMAIN g = D /\ \A b \in D : g[b] = f[b]
  BY <1>2
<1>4. Restrict(f, D) = g
  BY DEF Restrict
<1> HIDE DEF g
<1>5. g \in Partly(T)
  BY <1>2, <1>3 DEF Partly
<1> QED
  BY <1>3, <1>4, <1>5

LEMMA PartlyPut ==
  ASSUME NEW T, NEW f \in Partly(T), NEW b \in Ids, NEW v \in T
  PROVE  /\ Put(f, b, v) \in Partly(T) /\ DOMAIN Put(f, b, v) = DOMAIN f \cup {b}
         /\ Put(f, b, v)[b] = v /\ \A x \in DOMAIN f \ {b} : Put(f, b, v)[x] = f[x]
<1>1. PICK E \in SUBSET Ids : f \in [E -> T]
  BY DEF Partly
<1> DEFINE D == DOMAIN f \cup {b}
           g == [x \in D |-> IF x = b THEN v ELSE f[x]]
<1>2. D \in SUBSET Ids /\ \A x \in DOMAIN f : f[x] \in T
  BY <1>1
<1>3. g \in [D -> T] /\ DOMAIN g = D /\ g[b] = v /\ \A x \in DOMAIN f \ {b} : g[x] = f[x]
  BY <1>2
<1>4. Put(f, b, v) = g
  BY DEF Put
<1> HIDE DEF g
<1>5. g \in Partly(T)
  BY <1>2, <1>3 DEF Partly
<1> QED
  BY <1>3, <1>4, <1>5

LEMMA PartlyEmpty ==
  ASSUME NEW T
  PROVE  /\ <<>> \in Partly(T) /\ DOMAIN <<>> = {}
         /\ \A f \in Partly(T) : DOMAIN f \in SUBSET Ids /\ (f = <<>> <=> DOMAIN f = {})
<1>1. DOMAIN <<>> = {} /\ <<>> \in [{} -> T]
  <2>1. <<>> = [x \in {} |-> x]
    OBVIOUS
  <2> QED
    BY <2>1
<1>2. <<>> \in Partly(T)
  BY <1>1 DEF Partly
<1>3. ASSUME NEW f \in Partly(T) PROVE DOMAIN f \in SUBSET Ids /\ (f = <<>> <=> DOMAIN f = {})
  <2>1. PICK E \in SUBSET Ids : f \in [E -> T]
    BY DEF Partly
  <2>2. DOMAIN f = {} => f = <<>>
    <3>1. f = [x \in DOMAIN f |-> f[x]]
      BY <2>1
    <3>2. \A g : g = [x \in DOMAIN g |-> g[x]] /\ DOMAIN g = {} => g = <<>>
      OBVIOUS
    <3> QED
      BY <3>1, <3>2
  <2> QED
    BY <1>1, <2>1, <2>2
<1> QED
  BY <1>1, <1>2, <1>3

\* What withdrawing a Continue, retaining the live branches and forgetting
\* what is pending make of the scheduler.
LEMMA WithdrawFields ==
  ASSUME NEW s, Handler(s), NEW b
  PROVE  LET r == Withdraw(s, b)
         IN /\ Handler(r) /\ r.tree = s.tree /\ r.consumed = s.consumed /\ r.waits = s.waits
            /\ r.terminals = s.terminals /\ r.emitted = s.emitted /\ r.ok = s.ok
            /\ r.outstanding = s.outstanding \ {b}
            /\ r.queue = WithoutContinue(s.queue, b)
            /\ ContinuesIn(r.queue) = ContinuesIn(s.queue) \ {b}
<1>1. s \in Handlers /\ s.queue \in Seq(CommandSet) /\ s.outstanding \in SUBSET Ids
  BY HandlerFields DEF Handler
<1>2. WithoutContinue(s.queue, b) \in Seq(CommandSet)
      /\ ContinuesIn(WithoutContinue(s.queue, b)) = ContinuesIn(s.queue) \ {b}
  BY <1>1, WithdrawnQueue
<1> DEFINE o == s.outstanding \ {b}
           q == WithoutContinue(s.queue, b)
           r == [s EXCEPT !.outstanding = o, !.queue = q]
<1>3. o \in SUBSET Ids
  BY <1>1
<1>4. Withdraw(s, b) = r
  BY DEF Withdraw
<1>5. /\ r \in Handlers /\ r.tree = s.tree /\ r.consumed = s.consumed /\ r.waits = s.waits
      /\ r.terminals = s.terminals /\ r.emitted = s.emitted /\ r.ok = s.ok
      /\ r.outstanding = o /\ r.queue = q
  <2> HIDE DEF o, q
  <2> QED
    BY <1>1, <1>2, <1>3 DEF Handlers, q
<1> HIDE DEF r
<1> QED
  BY <1>2, <1>4, <1>5 DEF Handler

LEMMA RetainFields ==
  ASSUME NEW s, Handler(s)
  PROVE  LET r == RetainLive(s)
         IN /\ Handler(r) /\ r.tree = s.tree /\ r.consumed = s.consumed /\ r.queue = s.queue
            /\ r.outstanding = s.outstanding /\ r.emitted = s.emitted /\ r.ok = s.ok
            /\ DOMAIN r.waits = {b \in DOMAIN s.waits : IsLive(s.tree, b)}
            /\ DOMAIN r.terminals = {b \in DOMAIN s.terminals : IsLive(s.tree, b)}
<1>1. s \in Handlers /\ s.waits \in Partly(Int) /\ s.terminals \in Partly({"tree", "branch"})
  BY HandlerFields DEF Handler
<1> DEFINE W == {b \in DOMAIN s.waits : IsLive(s.tree, b)}
           T == {b \in DOMAIN s.terminals : IsLive(s.tree, b)}
           w == Restrict(s.waits, W)
           m == Restrict(s.terminals, T)
           r == [s EXCEPT !.waits = w, !.terminals = m]
<1>2. w \in Partly(Int) /\ DOMAIN w = W /\ m \in Partly({"tree", "branch"}) /\ DOMAIN m = T
  BY <1>1, PartlyRestricted
<1>3. RetainLive(s) = r
  BY DEF RetainLive
<1>4. /\ r \in Handlers /\ r.tree = s.tree /\ r.consumed = s.consumed /\ r.queue = s.queue
      /\ r.outstanding = s.outstanding /\ r.emitted = s.emitted /\ r.ok = s.ok
      /\ r.waits = w /\ r.terminals = m
  <2> HIDE DEF w, m
  <2> QED
    BY <1>1, <1>2 DEF Handlers
<1> HIDE DEF r, w, m
<1> QED
  BY <1>2, <1>3, <1>4 DEF Handler

LEMMA ForgetFields ==
  ASSUME NEW s, Handler(s)
  PROVE  LET r == ForgetPending(s)
         IN /\ Handler(r) /\ r.tree = s.tree /\ r.consumed = s.consumed /\ r.queue = s.queue
            /\ r.outstanding = s.outstanding /\ r.emitted = s.emitted /\ r.ok = s.ok
            /\ DOMAIN r.waits = {} /\ DOMAIN r.terminals = {}
<1>1. <<>> \in Partly(Int) /\ <<>> \in Partly({"tree", "branch"}) /\ DOMAIN <<>> = {}
  BY PartlyEmpty
<1> QED
  BY <1>1 DEF ForgetPending, Handler, Handlers
\* r follows from s by closing and forking branches, each with a command.
Handling(s, r) ==
  /\ Handler(s) /\ Handler(r)
  /\ r.consumed = s.consumed /\ r.queue = s.queue /\ r.outstanding = s.outstanding
  /\ r.waits = s.waits /\ r.terminals = s.terminals
  /\ \E C \in SUBSET Ids :
       Evolves(s.tree, r.tree, C) /\ ClosedBy(r.emitted) = ClosedBy(s.emitted) \cup C

LEMMA HandlingOn ==
  ASSUME NEW s, NEW r, NEW q, Handling(s, r), Handling(r, q)
  PROVE  Handling(s, q)
<1>1. PICK C \in SUBSET Ids :
        Evolves(s.tree, r.tree, C) /\ ClosedBy(r.emitted) = ClosedBy(s.emitted) \cup C
  BY DEF Handling
<1>2. PICK D \in SUBSET Ids :
        Evolves(r.tree, q.tree, D) /\ ClosedBy(q.emitted) = ClosedBy(r.emitted) \cup D
  BY DEF Handling
<1>3. Evolves(s.tree, q.tree, C \cup D)
  BY <1>1, <1>2, EvolvesOn
<1>4. C \cup D \in SUBSET Ids /\ ClosedBy(q.emitted) = ClosedBy(s.emitted) \cup (C \cup D)
  BY <1>1, <1>2
<1> QED
  BY <1>3, <1>4 DEF Handling

LEMMA HandlingNot ==
  ASSUME NEW s, Handler(s)
  PROVE  Handling(s, s)
<1>1. Evolves(s.tree, s.tree, {})
  BY EvolvesNot DEF Handler
<1> QED
  BY <1>1 DEF Handling

\* A new tree, and commands emitted for what was done to it.
Emitting(s, u, es) == [s EXCEPT !.tree = u, !.emitted = @ \o es]

LEMMA EmittingFields ==
  ASSUME NEW s, Handler(s), NEW u, TreeOK(u), NEW es \in Seq(CommandSet)
  PROVE  LET r == Emitting(s, u, es)
         IN /\ Handler(r) /\ r.tree = u /\ r.emitted = s.emitted \o es /\ r.ok = s.ok
            /\ r.consumed = s.consumed /\ r.queue = s.queue /\ r.outstanding = s.outstanding
            /\ r.waits = s.waits /\ r.terminals = s.terminals
            /\ ClosedBy(r.emitted) = ClosedBy(s.emitted) \cup ClosedBy(es)
<1> DEFINE e == s.emitted \o es
           r == [s EXCEPT !.tree = u, !.emitted = e]
<1>1. s \in Handlers /\ s.emitted \in Seq(CommandSet) /\ u \in Trees
  BY HandlerFields DEF Handler, TreeOK
<1>2. e \in Seq(CommandSet) /\ ClosedBy(e) = ClosedBy(s.emitted) \cup ClosedBy(es)
  BY <1>1, ConcatenatedCommands
<1>3. /\ r \in Handlers /\ r.tree = u /\ r.emitted = e /\ r.ok = s.ok
      /\ r.consumed = s.consumed /\ r.queue = s.queue /\ r.outstanding = s.outstanding
      /\ r.waits = s.waits /\ r.terminals = s.terminals
  <2> HIDE DEF e
  <2> QED
    BY <1>1, <1>2 DEF Handlers
<1>4. Emitting(s, u, es) = r
  BY DEF Emitting
<1> HIDE DEF r
<1> QED
  BY <1>2, <1>3, <1>4 DEF Handler

LEMMA EmittingSteps ==
  ASSUME NEW s, Handler(s), NEW u, NEW es \in Seq(CommandSet),
         Evolves(s.tree, u, ClosedBy(es))
  PROVE  Handling(s, Emitting(s, u, es))
<1>1. TreeOK(u) /\ ClosedBy(es) \in SUBSET Ids
  BY DEF Evolves, Present
<1> QED
  BY <1>1, EmittingFields DEF Handling

\* Appending one command is emitting a sequence of one.
LEMMA AppendingOne ==
  ASSUME NEW s, Handler(s), NEW u, NEW c \in CommandSet, c.op # "continue"
  PROVE  /\ <<c>> \in Seq(CommandSet) /\ ClosedBy(<<c>>) = {c.branch}
         /\ [s EXCEPT !.tree = u, !.emitted = Append(@, c)]
              = Emitting(s, u, <<c>>)
<1>1. s.emitted \in Seq(CommandSet)
  BY HandlerFields DEF Handler
<1>2. Append(s.emitted, c) = s.emitted \o <<c>>
  BY <1>1
<1>3. <<c>> \in Seq(CommandSet) /\ DOMAIN <<c>> = {1} /\ <<c>>[1] = c
  OBVIOUS
<1>4. ClosedBy(<<c>>) = {c.branch}
  BY <1>3 DEF ClosedBy
<1> QED
  BY <1>2, <1>3, <1>4 DEF Emitting

LEMMA ReclaimSteps ==
  ASSUME NEW s, Handler(s), NEW b \in Present(s.tree)
  PROVE  /\ Handling(s, Reclaim(s, b)) /\ Reclaim(s, b).ok = s.ok
         /\ ActiveFrontier(Reclaim(s, b).tree) = ActiveFrontier(s.tree)
<1> DEFINE dead == Reclaimed(s.tree, b)
           u == Kill(s.tree, dead)
           es == Commands("kill", Descending(dead))
<1>1. dead \subseteq Ancestors(s.tree, b) /\ TreeOK(s.tree)
  BY DEF Reclaimed, Handler
<1>2. dead \subseteq Present(s.tree) /\ \A a \in dead : s.tree.state[a] # "active"
  BY <1>1, AncestorsAbove
<1> HIDE DEF dead
<1>3. dead \in SUBSET Ids
  BY <1>2 DEF Present
<1>4. es \in Seq(CommandSet) /\ ClosedBy(es) = dead
  BY <1>3, ListsOfBranches, CommandsOf, ZenonT(60)
<1>5. Evolves(s.tree, u, ClosedBy(es))
  BY <1>1, <1>2, <1>4, KillEvolves
<1>6. Reclaim(s, b) = Emitting(s, u, es)
  BY DEF Reclaim, Emitting, dead
<1>7. TreeOK(u)
  BY <1>5 DEF Evolves
<1>8. Reclaim(s, b).tree = u /\ Reclaim(s, b).ok = s.ok
  <2> HIDE DEF es, u
  <2> QED
    BY <1>4, <1>6, <1>7, EmittingFields
<1>9. ActiveFrontier(u) = ActiveFrontier(s.tree)
  BY <1>1, <1>2, KillFields DEF ActiveFrontier
<1>10. Handling(s, Reclaim(s, b))
  <2> HIDE DEF es, u
  <2> QED
    BY <1>4, <1>5, <1>6, EmittingSteps
<1> QED
  BY <1>8, <1>9, <1>10

LEMMA KillSteps ==
  ASSUME NEW s, Handler(s), NEW b \in Present(s.tree)
  PROVE  /\ Handling(s, KillBranch(s, b)) /\ KillBranch(s, b).ok = s.ok
         /\ ActiveFrontier(KillBranch(s, b).tree) = ActiveFrontier(s.tree) \ {b}
<1> DEFINE c == Command("kill", b)
           u == Kill(s.tree, {b})
           r == [s EXCEPT !.tree = u, !.emitted = Append(@, c)]
<1>1. c \in CommandSet /\ c.op # "continue" /\ c.branch = b
  BY DEF Command, CommandSet, Present
<1>2. TreeOK(s.tree) /\ {b} \subseteq Present(s.tree)
  BY DEF Handler
<1>3. Evolves(s.tree, u, {b}) /\ TreeOK(u)
  BY <1>2, KillEvolves DEF Evolves
<1>4. ActiveFrontier(u) = ActiveFrontier(s.tree) \ {b} /\ b \in Present(u)
  BY <1>2, KillFields DEF ActiveFrontier, Present
<1>5. KillBranch(s, b) = Reclaim(r, b)
  BY DEF KillBranch
<1> HIDE DEF u, c
<1>6. r = Emitting(s, u, <<c>>)
  BY <1>1, AppendingOne
<1>7. <<c>> \in Seq(CommandSet) /\ ClosedBy(<<c>>) = {b}
  BY <1>1, AppendingOne
<1> HIDE DEF r
<1>8. Handling(s, r) /\ r.tree = u /\ r.ok = s.ok /\ Handler(r)
  <2>1. Evolves(s.tree, u, ClosedBy(<<c>>))
    BY <1>3, <1>7
  <2> DEFINE es == <<c>>
  <2>2. es \in Seq(CommandSet)
    BY <1>7
  <2>3. Evolves(s.tree, u, ClosedBy(es)) /\ r = Emitting(s, u, es)
    BY <1>6, <2>1
  <2> HIDE DEF es
  <2>4. Handling(s, r)
    BY <2>2, <2>3, EmittingSteps
  <2> QED
    BY <1>3, <2>2, <2>3, <2>4, EmittingFields
<1> QED
  BY <1>4, <1>5, <1>8, ReclaimSteps, HandlingOn

LEMMA FinalizeSteps ==
  ASSUME NEW s, Handler(s), NEW b \in ActiveFrontier(s.tree)
  PROVE  /\ Handling(s, FinalizeBranch(s, b)) /\ FinalizeBranch(s, b).ok = s.ok
         /\ ActiveFrontier(FinalizeBranch(s, b).tree) = ActiveFrontier(s.tree) \ {b}
<1> DEFINE c == Command("finalize", b)
           u == Finalize(s.tree, {b})
           r == [s EXCEPT !.tree = u, !.emitted = Append(@, c)]
<1>1. c \in CommandSet /\ c.op # "continue" /\ c.branch = b
  BY DEF Command, CommandSet, ActiveFrontier
<1>2. TreeOK(s.tree) /\ {b} \subseteq ActiveFrontier(s.tree)
  BY DEF Handler
<1>3. Evolves(s.tree, u, {b}) /\ TreeOK(u)
  BY <1>2, FinalizeEvolves DEF Evolves
<1>4. ActiveFrontier(u) = ActiveFrontier(s.tree) \ {b} /\ b \in Present(u)
  BY <1>2, FinalizeFields DEF ActiveFrontier, Present
<1>5. FinalizeBranch(s, b) = Reclaim(r, b)
  BY DEF FinalizeBranch
<1> HIDE DEF u, c
<1>6. r = Emitting(s, u, <<c>>)
  BY <1>1, AppendingOne
<1>7. <<c>> \in Seq(CommandSet) /\ ClosedBy(<<c>>) = {b}
  BY <1>1, AppendingOne
<1> HIDE DEF r
<1>8. Handling(s, r) /\ r.tree = u /\ r.ok = s.ok /\ Handler(r)
  <2>1. Evolves(s.tree, u, ClosedBy(<<c>>))
    BY <1>3, <1>7
  <2> DEFINE es == <<c>>
  <2>2. es \in Seq(CommandSet)
    BY <1>7
  <2>3. Evolves(s.tree, u, ClosedBy(es)) /\ r = Emitting(s, u, es)
    BY <1>6, <2>1
  <2> HIDE DEF es
  <2>4. Handling(s, r)
    BY <2>2, <2>3, EmittingSteps
  <2> QED
    BY <1>3, <2>2, <2>3, <2>4, EmittingFields
<1> QED
  BY <1>4, <1>5, <1>8, ReclaimSteps, HandlingOn

\* A speculative prune kills the hopeless branches.
LEMMA PruneHandling ==
  ASSUME NEW s, Handler(s)
  PROVE  LET r == SpeculativePrune(s)
         IN /\ Handling(s, r) /\ r.ok = s.ok
            /\ ActiveFrontier(r.tree) \subseteq ActiveFrontier(s.tree)
            /\ \A b \in ActiveFrontier(s.tree) :
                 ~s.tree.hasValue[b] => b \in ActiveFrontier(r.tree)
<1>1. CASE KillMargin = NoMargin
  <2>1. SpeculativePrune(s) = s
    BY <1>1 DEF SpeculativePrune
  <2> QED
    BY <2>1, HandlingNot
<1>2. CASE KillMargin # NoMargin
  <2> DEFINE H == Hopeless(s.tree)
             q == Ascending(H)
             n == Len(q)
  <2>1. H \subseteq ActiveFrontier(s.tree) /\ \A b \in H : s.tree.hasValue[b]
    BY DEF Hopeless
  <2> HIDE DEF H
  <2>2. H \in SUBSET Ids /\ H \subseteq Present(s.tree)
    BY <2>1 DEF ActiveFrontier, Present
  <2>3. q \in Seq(Ids) /\ {q[i] : i \in DOMAIN q} = H
    BY <2>2, ListsOfBranches
  <2> HIDE DEF q
  <2>4. n \in Nat /\ DOMAIN q = 1 .. n /\ \A i \in 1 .. n : q[i] \in H
    BY <2>3
  <2> HIDE DEF n
  <2>5. PICK v : /\ v[0] = s
                 /\ \A i \in 1 .. n : v[i] = KillBranch(v[i - 1], q[i])
                 /\ SpeculativePrune(s) = v[n]
    <3>1. q = Ascending(Hopeless(s.tree))
      BY DEF q, H
    <3> QED
      BY <1>2, <2>4, <3>1, PruneSteps
  <2> DEFINE P(i) == /\ Handling(s, v[i]) /\ v[i].ok = s.ok
                     /\ ActiveFrontier(v[i].tree) \subseteq ActiveFrontier(s.tree)
                     /\ \A b \in ActiveFrontier(s.tree) \ H : b \in ActiveFrontier(v[i].tree)
             Good == {i \in 0 .. n : P(i)}
  <2>6. 0 \in Good
    <3>1. P(0)
      BY <2>5, HandlingNot
    <3> HIDE DEF P
    <3> QED
      BY <2>4, <3>1
  <2>7. \A i \in 0 .. n - 1 : i \in Good => i + 1 \in Good
    <3> SUFFICES ASSUME NEW i \in 0 .. n - 1, P(i) PROVE i + 1 \in 0 .. n /\ P(i + 1)
      OBVIOUS
    <3>1. i + 1 \in 1 .. n /\ (i + 1) - 1 = i /\ i + 1 \in 0 .. n
      BY <2>4
    <3>2. v[i + 1] = KillBranch(v[i], q[i + 1])
      BY <2>5, <3>1
    <3>3. q[i + 1] \in H
      BY <2>4, <3>1
    <3>4. Handler(v[i]) /\ q[i + 1] \in Present(v[i].tree)
      BY <2>2, <3>3 DEF Handling, Evolves
    <3>5. /\ Handling(v[i], v[i + 1]) /\ v[i + 1].ok = v[i].ok
          /\ ActiveFrontier(v[i + 1].tree) = ActiveFrontier(v[i].tree) \ {q[i + 1]}
      BY <3>2, <3>4, KillSteps
    <3>6. Handling(s, v[i + 1])
      BY <3>5, HandlingOn
    <3> QED
      BY <3>1, <3>3, <3>5, <3>6
  <2>8. P(n)
    <3>1. 0 .. n \subseteq Good
      <4> HIDE DEF Good
      <4> QED
        BY <2>4, <2>6, <2>7, IntervalInduction
    <3>2. n \in 0 .. n
      BY <2>4
    <3> HIDE DEF P
    <3> QED
      BY <3>1, <3>2
  <2> QED
    BY <2>1, <2>5, <2>8
<1> QED
  BY <1>1, <1>2

\* Following a decision that was carried through.
LEMMA FollowHandling ==
  ASSUME NEW s, Handler(s), NEW d, d.ok, d.out \in Seq(CommandSet), d.ok \in BOOLEAN,
         Evolves(s.tree, d.tree, ClosedBy(d.out))
  PROVE  LET r == Follow(s, d)
         IN /\ Handling(s, r) /\ r.ok
            /\ ActiveFrontier(r.tree) = ActiveFrontier(d.tree)
<1> DEFINE first == Emitting(s, d.tree, d.out)
           start == [first EXCEPT !.ok = TRUE]
           K == Killed(d.out)
           q == Ascending(K)
           n == Len(q)
<1>1. Handling(s, first) /\ first.tree = d.tree
  <2>1. TreeOK(d.tree)
    BY DEF Evolves
  <2> QED
    BY <2>1, EmittingSteps, EmittingFields
<1> HIDE DEF first
<1>2. /\ start.tree = first.tree /\ start.ok = TRUE /\ start \in Handlers
      /\ start.consumed = first.consumed /\ start.queue = first.queue
      /\ start.outstanding = first.outstanding /\ start.waits = first.waits
      /\ start.terminals = first.terminals /\ start.emitted = first.emitted
  <2>1. first \in Handlers
    BY <1>1 DEF Handling, Handler
  <2> QED
    BY <2>1 DEF Handlers
<1>3. Deciding(s, d) = start
  <2>1. d.ok = TRUE
    OBVIOUS
  <2> QED
    BY <2>1, Zenon DEF first, Emitting, Deciding
<1> HIDE DEF start
<1>4. Handling(s, start)
  BY <1>1, <1>2 DEF Handling, Handler
<1>5. K \subseteq ClosedBy(d.out)
  BY DEF Killed, ClosedBy
<1>6. K \subseteq Present(d.tree) /\ K \in SUBSET Ids
  BY <1>5 DEF Evolves, Present
<1> HIDE DEF K
<1>7. q \in Seq(Ids) /\ {q[i] : i \in DOMAIN q} = K
  BY <1>6, ListsOfBranches
<1> HIDE DEF q
<1>8. n \in Nat /\ DOMAIN q = 1 .. n /\ \A i \in 1 .. n : q[i] \in K
  BY <1>7
<1> HIDE DEF n
<1>9. PICK v : /\ v[0] = start
               /\ \A i \in 1 .. n : v[i] = Reclaim(v[i - 1], q[i])
               /\ Follow(s, d) = v[n]
  <2>1. q = Ascending(Killed(d.out))
    BY DEF q, K
  <2> QED
    BY <1>3, <1>8, <2>1, FollowSteps
<1> DEFINE P(i) == /\ Handling(start, v[i]) /\ v[i].ok
                   /\ ActiveFrontier(v[i].tree) = ActiveFrontier(d.tree)
           Good == {i \in 0 .. n : P(i)}
<1>10. 0 \in Good
  <2>1. P(0)
    BY <1>1, <1>2, <1>4, <1>9, HandlingNot DEF Handling
  <2> HIDE DEF P
  <2> QED
    BY <1>8, <2>1
<1>11. \A i \in 0 .. n - 1 : i \in Good => i + 1 \in Good
  <2> SUFFICES ASSUME NEW i \in 0 .. n - 1, P(i) PROVE i + 1 \in 0 .. n /\ P(i + 1)
    OBVIOUS
  <2>1. i + 1 \in 1 .. n /\ (i + 1) - 1 = i /\ i + 1 \in 0 .. n
    BY <1>8
  <2>2. v[i + 1] = Reclaim(v[i], q[i + 1])
    BY <1>9, <2>1
  <2>3. q[i + 1] \in Present(start.tree)
    BY <1>1, <1>2, <1>6, <1>8, <2>1
  <2>4. Handler(v[i]) /\ q[i + 1] \in Present(v[i].tree)
    BY <2>3 DEF Handling, Evolves
  <2>5. /\ Handling(v[i], v[i + 1]) /\ v[i + 1].ok = v[i].ok
        /\ ActiveFrontier(v[i + 1].tree) = ActiveFrontier(v[i].tree)
    BY <2>2, <2>4, ReclaimSteps
  <2>6. Handling(start, v[i + 1])
    BY <2>5, HandlingOn
  <2> QED
    BY <2>1, <2>5, <2>6
<1>12. P(n)
  <2>1. 0 .. n \subseteq Good
    <3> HIDE DEF Good
    <3> QED
      BY <1>8, <1>10, <1>11, IntervalInduction
  <2>2. n \in 0 .. n
    BY <1>8
  <2> HIDE DEF P
  <2> QED
    BY <2>1, <2>2
<1> QED
  BY <1>4, <1>9, <1>12, HandlingOn

\* A decision that was not carried through is remembered as failed.
LEMMA FollowFailed ==
  ASSUME NEW s, Handler(s), NEW d, d.ok = FALSE, d.out = <<>>
  PROVE  LET r == Finish(Follow(s, d))
         IN {"ok", "tree"} \subseteq DOMAIN r /\ r.ok = FALSE /\ r.tree = d.tree
<1> DEFINE K == Killed(d.out)
           q == Ascending(K)
           start == Deciding(s, d)
<1>1. K = {}
  <2>1. DOMAIN d.out = {}
    BY PartlyEmpty
  <2> QED
    BY <2>1 DEF Killed
<1> HIDE DEF K
<1>2. q \in Seq(Ids) /\ {q[i] : i \in DOMAIN q} = {}
  BY <1>1, ListsOfBranches
<1> HIDE DEF q
<1>3. DOMAIN q = 1 .. 0
  <2>1. DOMAIN q = 1 .. Len(q) /\ Len(q) \in Nat
    BY <1>2
  <2>2. 1 \notin DOMAIN q
    BY <1>2
  <2> QED
    BY <2>1, <2>2
<1>4. q = Ascending(Killed(d.out))
  BY DEF q, K
<1>5. Follow(s, d) = start
  <2> HIDE DEF start
  <2>1. 0 \in Nat
    OBVIOUS
  <2>2. PICK v : v[0] = Deciding(s, d) /\ Follow(s, d) = v[0]
    BY <1>3, <1>4, <2>1, FollowSteps
  <2> QED
    BY <2>2 DEF start
<1>6. s \in Handlers
  BY DEF Handler
<1>7. start.ok = FALSE /\ "ok" \in DOMAIN start /\ "tree" \in DOMAIN start /\ start.tree = d.tree
  BY <1>6 DEF Handlers, Deciding
<1> DEFINE r == [start EXCEPT !.emitted = <<>>]
<1>8. Finish(Follow(s, d)) = r
  BY <1>5, <1>7 DEF Finish
<1>9. {"ok", "tree"} \subseteq DOMAIN r /\ r.ok = FALSE /\ r.tree = d.tree
  <2> HIDE DEF start
  <2> QED
    BY <1>7
<1> HIDE DEF r
<1> QED
  BY <1>8, <1>9

-----------------------------------------------------------------------------
(* The policies.                                                           *)

\* What a policy's decision d about the tree t has to be.
Sensible(t, d) ==
  /\ d.ok \in BOOLEAN
  /\ d.ok = FALSE => d.out = <<>>
  /\ d.ok => /\ d.out \in Seq(CommandSet) /\ Evolves(t, d.tree, ClosedBy(d.out))
             /\ ActiveFrontier(t) = {} => ActiveFrontier(d.tree) = {}

LEMMA ConfigFacts ==
  ASSUME config \in Configs
  PROVE  /\ Policy \in {"beam", "best_first", "mcts"} /\ ExternalValues \in BOOLEAN
         /\ {MaxPending, TotalBudget, PerBranchBudget, BeamWidth, ForkWidth, MaxDepth}
              \subseteq Nat \ {0}
BY SchedulerCoreAssumption DEF Policy, ExternalValues, MaxPending, TotalBudget,
   PerBranchBudget, BeamWidth, ForkWidth, MaxDepth

\* Continuing branches changes no tree.
LEMMA ContinueSensible ==
  ASSUME NEW t, TreeOK(t), NEW u, Evolves(t, u, {}), ActiveFrontier(u) = ActiveFrontier(t),
         NEW bs \in Seq(Ids)
  PROVE  Sensible(t, Decision(u, Commands("continue", bs)))
<1> DEFINE out == Commands("continue", bs)
           d == Decision(u, out)
<1>1. out \in Seq(CommandSet) /\ ClosedBy(out) = {}
  BY CommandsOf
<1>2. d.tree = u /\ d.out = out /\ d.ok = TRUE
  BY DEF Decision
<1> HIDE DEF d, out
<1> QED
  BY <1>1, <1>2 DEF Sensible, d, out

LEMMA NothingSensible ==
  ASSUME NEW t, TreeOK(t), NEW u, Evolves(t, u, {}), ActiveFrontier(u) = ActiveFrontier(t)
  PROVE  Sensible(t, Decision(u, <<>>))
<1>1. <<>> \in Seq(CommandSet) /\ DOMAIN <<>> = {}
  BY PartlyEmpty
<1>2. ClosedBy(<<>>) = {}
  BY <1>1 DEF ClosedBy
<1> QED
  BY <1>1, <1>2 DEF Sensible, Decision

\* Expanding a branch of the frontier.
LEMMA ExpandSensible ==
  ASSUME NEW t, TreeOK(t), NEW u, Evolves(t, u, {}), ActiveFrontier(u) = ActiveFrontier(t),
         Size(u) = Size(t), config \in Configs,
         NEW b \in ActiveFrontier(t), NEW pick, pick \subseteq Born(t)
  PROVE  Sensible(t, Expand(u, b, pick))
<1> DEFINE full == Size(u) + ForkWidth > MaxTotalBranches
<1>1. TreeOK(u) /\ ForkWidth \in Nat \ {0}
  BY ConfigFacts DEF Evolves
<1>2. CASE full
  <2>1. Expand(u, b, pick) = [tree |-> u, out |-> <<>>, ok |-> FALSE]
    BY <1>2 DEF Expand
  <2> QED
    BY <2>1 DEF Sensible
<1>3. CASE ~full
  <2> DEFINE w == Fork(u, <<b>>, ForkWidth)
             c == Command("fork", b)
             cs == Commands("continue", Ascending(pick))
             out == <<c>> \o cs
             bs == <<b>>
  <2>1. Expand(u, b, pick) = Decision(w, out)
    BY <1>3 DEF Expand
  <2>2. Size(t) \in 1 .. MaxTotalBranches /\ MaxTotalBranches \in Nat
        /\ Size(t) + ForkWidth <= MaxTotalBranches /\ Ids = 0 .. MaxTotalBranches - 1
    BY <1>1, <1>3, Numbered, BranchTreeAssumption DEF Ids
  <2>3. pick \in SUBSET Ids
    BY <1>1, <2>2 DEF Born
  <2>4. cs \in Seq(CommandSet) /\ ClosedBy(cs) = {}
    BY <2>3, ListsOfBranches, CommandsOf
  <2>5. c \in CommandSet /\ c.op # "continue" /\ c.branch = b
    BY DEF Command, CommandSet, ActiveFrontier
  <2> HIDE DEF c
  <2>6. <<c>> \in Seq(CommandSet) /\ DOMAIN <<c>> = {1} /\ <<c>>[1] = c
    BY <2>5
  <2>7. ClosedBy(<<c>>) = {b}
    BY <2>5, <2>6 DEF ClosedBy
  <2> HIDE DEF cs
  <2>8. out \in Seq(CommandSet) /\ ClosedBy(out) = {b}
    BY <2>4, <2>6, <2>7, ConcatenatedCommands
  <2>9. bs \in Seq(ActiveFrontier(u)) /\ Len(bs) = 1 /\ {bs[i] : i \in DOMAIN bs} = {b}
    OBVIOUS
  <2>10. Evolves(u, w, {b})
    <3>1. Size(u) + Len(bs) * ForkWidth <= MaxTotalBranches
      BY <1>1, <2>2, <2>9
    <3>2. w = Fork(u, bs, ForkWidth)
      OBVIOUS
    <3> HIDE DEF bs, w
    <3>3. Evolves(u, w, {bs[i] : i \in DOMAIN bs})
      BY <1>1, <2>9, <3>1, <3>2, ForkEvolves
    <3> QED
      BY <2>9, <3>3
  <2>11. Evolves(t, w, {b})
    <3>1. Evolves(t, w, {} \cup {b})
      BY <2>10, EvolvesOn
    <3>2. {} \cup {b} = {b}
      OBVIOUS
    <3> QED
      BY <3>1, <3>2
  <2> DEFINE d == Decision(w, out)
  <2>12. d.tree = w /\ d.out = out /\ d.ok = TRUE /\ ActiveFrontier(t) # {}
    BY DEF Decision
  <2> HIDE DEF w, out, d
  <2>13. Sensible(t, d)
    BY <2>8, <2>11, <2>12 DEF Sensible
  <2> QED
    BY <2>1, <2>13 DEF d
<1> QED
  BY <1>2, <1>3

LEMMA MinOfTwo ==
  ASSUME NEW a \in Int, NEW b \in Int
  PROVE  Min({a, b}) \in {a, b} /\ Min({a, b}) <= a /\ Min({a, b}) <= b
<1>1. \E x \in {a, b} : \A y \in {a, b} : x <= y
  OBVIOUS
<1>2. Min({a, b}) \in {a, b} /\ \A y \in {a, b} : Min({a, b}) <= y
  BY <1>1, Zenon DEF Min
<1> QED
  BY <1>2

\* As many forks as fit, a prefix of bs, do fit.
LEMMA ForksFit ==
  ASSUME NEW t, TreeOK(t), NEW bs \in Seq(Ids), NEW width \in Nat \ {0}
  PROVE  LET fs == ForksThatFit(t, bs, width)
         IN /\ \E m \in 0 .. Len(bs) : fs = SubSeq(bs, 1, m) /\ Len(fs) = m
            /\ Size(t) + Len(fs) * width <= MaxTotalBranches
<1> DEFINE room == MaxTotalBranches - Size(t)
           q == room \div width
           m == Min({Len(bs), q})
<1>1. room \in Nat /\ Size(t) \in Nat /\ MaxTotalBranches \in Nat
  BY Numbered, BranchTreeAssumption
<1>2. q \in Nat /\ room % width \in 0 .. width - 1 /\ room = width * q + (room % width)
  <2> HIDE DEF room
  <2> QED
    BY <1>1, DivMod
<1>3. ForksThatFit(t, bs, width) = SubSeq(bs, 1, m)
  BY DEF ForksThatFit
<1> HIDE DEF q
<1>4. m \in Int /\ m <= Len(bs) /\ m <= q /\ m >= 0
  <2> DEFINE l == Len(bs)
  <2>1. l \in Nat /\ q \in Nat
    BY <1>2
  <2> HIDE DEF l
  <2>2. m \in {l, q} /\ m <= l /\ m <= q
    <3>1. Min({l, q}) \in {l, q} /\ Min({l, q}) <= l /\ Min({l, q}) <= q
      <4>1. l \in Int /\ q \in Int
        BY <2>1
      <4> QED
        BY <4>1, MinOfTwo, Zenon
    <3> QED
      BY <3>1 DEF m, l
  <2>3. m \in Int /\ m <= l /\ m <= q /\ m >= 0
    <3> HIDE DEF m
    <3> QED
      BY <2>1, <2>2
  <2> QED
    BY <2>3 DEF l
<1> HIDE DEF m
<1>5. Len(SubSeq(bs, 1, m)) = m /\ m \in 0 .. Len(bs)
  BY <1>4, SubSeqProperties
<1>6. width * m <= width * q
  <2>1. CASE m = q
    <3>1. width * q \in Int
      BY <1>2
    <3> QED
      BY <2>1, <3>1
  <2>2. CASE m # q
    <3>1. width * m + width <= width * q
      BY <1>2, <1>4, <2>2, MulMono
    <3> QED
      BY <1>2, <1>4, <3>1
  <2> QED
    BY <2>1, <2>2
<1>7. m * width = width * m /\ width * m \in Int /\ width * q \in Int
  BY <1>2, <1>4
<1>8. m * width <= room
  <2> HIDE DEF room
  <2> QED
    BY <1>1, <1>2, <1>6, <1>7
<1> QED
  BY <1>1, <1>3, <1>5, <1>7, <1>8

LEMMA AllForksFit ==
  ASSUME NEW t, TreeOK(t), NEW bs \in Seq(Ids), NEW width \in Nat \ {0},
         ForksThatFit(t, bs, width) = bs
  PROVE  Size(t) + Len(bs) * width <= MaxTotalBranches
BY ForksFit

\* The beam policy's order of the frontier.
LEMMA BeamOrder ==
  ASSUME NEW t \in Trees
  PROVE  BeamRanked(t) \in Seq(Ids) /\ BeamRanked(t) \in Seq(BeamBehind(t))
<1> DEFINE S == BeamBehind(t)
           R == {p \in S \X S : BeamBetter(t, p[1], p[2])}
           rank == [x \in S |-> Cardinality(Below(R, S, x))]
           at(i) == CHOOSE x \in S : rank[x] = i - 1
           q == [i \in 1 .. Cardinality(S) |-> at(i)]
<1>0. S \in SUBSET Ids
  BY DEF BeamBehind, ActiveFrontier
<1> HIDE DEF S
<1>1. \A x, y \in S : <<x, y>> \in R <=> BeamBetter(t, x, y)
  OBVIOUS
<1>2. \A x \in S : Below(R, S, x) = {y \in S : BeamBetter(t, y, x)}
  <2> HIDE DEF R
  <2> QED
    BY <1>1 DEF Below
<1>3. StrictOrder(R, S)
  <2> HIDE DEF R
  <2>1. \A x \in S : x \in Int /\ t.logprob[x] \in Int
    BY <1>0, TreeFields, IdsFinite
  <2> QED
    BY <1>1, <2>1 DEF StrictOrder, BeamBetter
<1>4. BeamRanked(t) = q
  <2>1. rank = [x \in S |-> Cardinality({y \in S : BeamBetter(t, y, x)})]
    <3> HIDE DEF R
    <3> QED
      BY <1>2
  <2> HIDE DEF rank
  <2> QED
    BY <2>1 DEF BeamRanked, Sorted, S
<1>5. Lists(q, S, R)
  <2>1. IsRank(rank, R, S)
    BY DEF IsRank
  <2>2. ListedBy(q, rank, S)
    <3>1. \A i \in 1 .. Cardinality(S) :
            (\E x \in S : rank[x] = i - 1) => q[i] \in S /\ rank[q[i]] = i - 1
      <4> HIDE DEF rank
      <4> QED
        OBVIOUS
    <3> HIDE DEF at, rank
    <3> QED
      BY <3>1 DEF ListedBy
  <2>3. IsFiniteSet(S)
    BY <1>0, ListsOfBranches
  <2> HIDE DEF q, rank, R, at
  <2> QED
    BY <1>3, <2>1, <2>2, <2>3, RankedListing
<1> HIDE DEF q
<1> QED
  BY <1>0, <1>4, <1>5 DEF Lists, S

\* The beam policy forks branches of the frontier, in order.
LEMMA BeamForksListed ==
  ASSUME NEW t, NEW e
  PROVE  LET q == BeamForks(t, e)
         IN /\ q \in Seq(ActiveFrontier(t)) /\ q \in Seq(Ids)
            /\ {q[i] : i \in DOMAIN q} \subseteq ActiveFrontier(t)
            /\ \A i, j \in DOMAIN q : i < j => q[i] < q[j]
<1> DEFINE A == ActiveFrontier(t)
           f == BeamForks(t, e)
           q == Ascending(A)
<1>1. A \in SUBSET Ids /\ A \in SUBSET Int
  <2>1. A \in SUBSET Ids
    BY DEF ActiveFrontier
  <2>2. Ids \in SUBSET Nat
    BY IdsFinite
  <2> HIDE DEF A
  <2> QED
    BY <2>1, <2>2
<1> HIDE DEF A
<1>2. IsFiniteSet(A)
  BY <1>1, ListsOfBranches
<1>3. q \in Seq(A) /\ {q[i] : i \in DOMAIN q} = A /\ \A i, j \in DOMAIN q : i < j => q[i] < q[j]
  BY <1>1, <1>2, AscendingListing
<1>4. <<>> \in Seq(A) /\ DOMAIN <<>> = {}
  BY PartlyEmpty
<1>5. f = q \/ f = <<>>
  BY DEF BeamForks, q, A
<1> HIDE DEF q, f
<1>6. f \in Seq(A) /\ {f[i] : i \in DOMAIN f} \subseteq A
      /\ \A i, j \in DOMAIN f : i < j => f[i] < f[j]
  BY <1>3, <1>4, <1>5
<1>7. f \in Seq(Ids)
  <2>1. A \in SUBSET Ids /\ f \in Seq(A)
    BY <1>1, <1>6
  <2> QED
    BY <2>1
<1> QED
  BY <1>6, <1>7 DEF A, f

LEMMA BeamSensible ==
  ASSUME NEW t, TreeOK(t), config \in Configs, NEW e, NEW d \in Beam(t, e)
  PROVE  Sensible(t, d)
<1> DEFINE forks == BeamForks(t, e)
           fitting == ForksThatFit(t, forks, ForkWidth)
           grown == Fork(t, fitting, ForkWidth)
           pruned == BeamPruned(grown)
           kept == Kill(grown, pruned)
           f == Commands("fork", forks)
           k == Commands("kill", Ascending(pruned))
           c == Commands("continue", BeamRanked(kept))
<1>1. CASE fitting # forks
  <2>1. d = [tree |-> grown, out |-> <<>>, ok |-> FALSE]
    BY <1>1 DEF Beam
  <2> HIDE DEF grown
  <2> QED
    BY <2>1 DEF Sensible
<1>2. CASE fitting = forks
  <2>1. d = Decision(kept, f \o k \o c)
    BY <1>2 DEF Beam
  <2>2. forks \in Seq(ActiveFrontier(t)) /\ forks \in Seq(Ids)
        /\ {forks[i] : i \in DOMAIN forks} \subseteq ActiveFrontier(t)
    BY BeamForksListed
  <2> DEFINE F == {forks[i] : i \in DOMAIN forks}
  <2> HIDE DEF forks
  <2>3. ForkWidth \in Nat \ {0}
    BY ConfigFacts
  <2>4. Size(t) + Len(forks) * ForkWidth <= MaxTotalBranches
    BY <1>2, <2>2, <2>3, AllForksFit
  <2>5. grown = Fork(t, forks, ForkWidth)
    BY <1>2
  <2> HIDE DEF grown
  <2>6. Evolves(t, grown, F)
    BY <2>2, <2>3, <2>4, <2>5, ForkEvolves
  <2>7. ActiveFrontier(t) = {} => ActiveFrontier(grown) = {}
    <3> DEFINE first == Size(t)
               born == first .. first + Len(forks) * ForkWidth - 1
    <3>1. /\ \A b \in Ids \ born :
               grown.state[b] = IF \E i \in DOMAIN forks : forks[i] = b
                                THEN "expanded" ELSE t.state[b]
          /\ \A b \in born : grown.parent[b] \in ActiveFrontier(t)
      BY <2>2, <2>3, <2>4, <2>5, ForkFields
    <3> HIDE DEF born
    <3> QED
      BY <3>1 DEF ActiveFrontier
  <2>8. TreeOK(grown) /\ grown \in Trees
    BY <2>6 DEF Evolves, TreeOK
  <2>9. pruned \subseteq ActiveFrontier(grown) /\ pruned \subseteq Present(grown)
    BY DEF BeamPruned, ActiveFrontier, Present
  <2> HIDE DEF pruned
  <2>10. pruned \in SUBSET Ids
    BY <2>9 DEF Present
  <2>11. Evolves(grown, kept, pruned) /\ kept \in Trees
    BY <2>8, <2>9, KillEvolves, KillFields
  <2>12. ActiveFrontier(grown) = {} => ActiveFrontier(kept) = {}
    BY <2>8, KillFields DEF ActiveFrontier
  <2> HIDE DEF kept
  <2>13. f \in Seq(CommandSet) /\ ClosedBy(f) = F
    BY <2>2, CommandsOf
  <2>14. k \in Seq(CommandSet) /\ ClosedBy(k) = pruned
    BY <2>10, ListsOfBranches, CommandsOf, ZenonT(60)
  <2>15. c \in Seq(CommandSet) /\ ClosedBy(c) = {}
    BY <2>11, BeamOrder, CommandsOf
  <2> HIDE DEF f, k, c
  <2>16. f \o k \in Seq(CommandSet) /\ ClosedBy(f \o k) = F \cup pruned
    BY <2>13, <2>14, ConcatenatedCommands
  <2> DEFINE fk == f \o k
             out == fk \o c
  <2> HIDE DEF fk
  <2>17. fk \in Seq(CommandSet) /\ ClosedBy(fk) = F \cup pruned
    BY <2>16 DEF fk
  <2>18. out \in Seq(CommandSet) /\ ClosedBy(out) = F \cup pruned
    BY <2>15, <2>17, ConcatenatedCommands
  <2> HIDE DEF out
  <2>19. Evolves(t, kept, ClosedBy(out))
    <3>1. Evolves(t, kept, F \cup pruned)
      BY <2>6, <2>11, EvolvesOn
    <3> QED
      BY <2>18, <3>1
  <2>20. d.tree = kept /\ d.out = out /\ d.ok = TRUE
    BY <2>1 DEF Decision, out, fk
  <2> QED
    BY <2>7, <2>12, <2>18, <2>19, <2>20 DEF Sensible
<1> QED
  BY <1>1, <1>2

\* The branches of u are those of t, as far as the tree goes.
SameTree(t, u) ==
  /\ u \in Trees /\ u.state = t.state /\ u.parent = t.parent /\ u.depth = t.depth
  /\ u.tokens = t.tokens /\ u.hasValue = t.hasValue

\* The other two policies do nothing, continue a branch or expand one.
Stepwise(t, u, d) ==
  \/ d = Decision(t, <<>>) \/ d = Decision(u, <<>>)
  \/ \E b \in ActiveFrontier(t) : d = Decision(u, Commands("continue", <<b>>))
  \/ \E b \in ActiveFrontier(t), pick \in SUBSET Born(t) : d = Expand(u, b, pick)

LEMMA SameTreeEvolves ==
  ASSUME NEW t, TreeOK(t), NEW u, SameTree(t, u)
  PROVE  Evolves(t, u, {}) /\ ActiveFrontier(u) = ActiveFrontier(t) /\ Size(u) = Size(t)
<1>1. TreeOK(u) /\ ActiveFrontier(u) = ActiveFrontier(t) /\ Size(u) = Size(t)
      /\ Present(u) = Present(t)
  BY DEF SameTree, TreeOK, Present, ActiveFrontier, Size
<1> QED
  BY <1>1 DEF Evolves, SameTree

LEMMA StepwiseSensible ==
  ASSUME NEW t, TreeOK(t), config \in Configs, NEW u, SameTree(t, u), NEW d, Stepwise(t, u, d)
  PROVE  Sensible(t, d)
<1>1. /\ Evolves(t, u, {}) /\ ActiveFrontier(u) = ActiveFrontier(t) /\ Size(u) = Size(t)
      /\ Evolves(t, t, {})
  BY SameTreeEvolves, EvolvesNot
<1>2. CASE d = Decision(t, <<>>)
  BY <1>1, <1>2, NothingSensible
<1>3. CASE d = Decision(u, <<>>)
  BY <1>1, <1>3, NothingSensible
<1>4. ASSUME NEW b \in ActiveFrontier(t), d = Decision(u, Commands("continue", <<b>>))
      PROVE  Sensible(t, d)
  <2> DEFINE bs == <<b>>
  <2>1. bs \in Seq(Ids)
    BY DEF ActiveFrontier
  <2> HIDE DEF bs
  <2>2. Sensible(t, Decision(u, Commands("continue", bs)))
    BY <1>1, <2>1, ContinueSensible
  <2> QED
    BY <1>4, <2>2 DEF bs
<1>5. ASSUME NEW b \in ActiveFrontier(t), NEW pick \in SUBSET Born(t), d = Expand(u, b, pick)
      PROVE  Sensible(t, d)
  BY <1>1, <1>5, ExpandSensible
<1> QED
  BY <1>2, <1>3, <1>4, <1>5 DEF Stepwise

LEMMA BestFirstStepwise ==
  ASSUME NEW t, TreeOK(t), NEW d \in BestFirst(t)
  PROVE  SameTree(t, t) /\ Stepwise(t, t, d)
<1> DEFINE better(a, b) ==
             \/ t.value[a] > t.value[b]
             \/ t.value[a] = t.value[b] /\ BeamBetter(t, a, b)
           scored == {b \in ActiveFrontier(t) : t.hasValue[b]}
           best == {b \in scored : \A c \in scored \ {b} : better(b, c)}
<1>1. best \subseteq ActiveFrontier(t)
  OBVIOUS
<1>2. d \in IF best = {} THEN {Decision(t, <<>>)}
            ELSE {IF t.depth[b] >= MaxDepth THEN Decision(t, Commands("continue", <<b>>))
                  ELSE Expand(t, b, Born(t)) : b \in best}
  BY Zenon DEF BestFirst
<1> HIDE DEF best
<1>3. \/ d = Decision(t, <<>>)
      \/ \E b \in ActiveFrontier(t) : d = Decision(t, Commands("continue", <<b>>))
      \/ \E b \in ActiveFrontier(t) : d = Expand(t, b, Born(t))
  BY <1>1, <1>2
<1>4. Born(t) \in SUBSET Born(t)
  OBVIOUS
<1> QED
  BY <1>3, <1>4 DEF Stepwise, SameTree, TreeOK

LEMMA BackpropagateSame ==
  ASSUME NEW t, TreeOK(t), NEW b
  PROVE  SameTree(t, Backpropagate(t, b))
<1> DEFINE v == [c \in Ids |-> t.visited[c] \/ c \in {b} \cup Ancestors(t, b)]
           u == [t EXCEPT !.visited = v]
<1>1. t \in Trees /\ v \in [Ids -> BOOLEAN]
  BY TreeFields DEF TreeOK
<1>2. Backpropagate(t, b) = u
  BY DEF Backpropagate
<1>3. SameTree(t, u)
  <2> HIDE DEF v
  <2> QED
    BY <1>1 DEF Trees, SameTree
<1> HIDE DEF u
<1> QED
  BY <1>2, <1>3

LEMMA MctsStepwise ==
  ASSUME NEW t, TreeOK(t), NEW e, NEW d \in Mcts(t, e)
  PROVE  \E u : SameTree(t, u) /\ Stepwise(t, u, d)
<1> DEFINE u == IF e.kind \in {"token", "value"} THEN Backpropagate(t, e.branch) ELSE t
<1>1. SameTree(t, u)
  BY BackpropagateSame DEF SameTree, TreeOK
<1>2. Born(u) = Born(t) /\ ActiveFrontier(u) = ActiveFrontier(t)
  BY <1>1, SameTreeEvolves DEF Born
<1>3. \/ d = Decision(t, <<>>)
      \/ d = Decision(u, <<>>)
      \/ \E b \in ActiveFrontier(t) : d = Decision(u, Commands("continue", <<b>>))
      \/ \E b \in ActiveFrontier(t), c \in Born(t) : d = Expand(u, b, {c})
  <2> DEFINE leaves == MctsLeaves(u)
             options(b) == IF t.depth[b] < MaxDepth
                           THEN {Expand(u, b, {c}) : c \in Born(t)}
                           ELSE {Decision(u, Commands("continue", <<b>>))}
             out == (e.kind \in {"token", "value"}) /\ ~t.hasValue[e.branch]
  <2>1. leaves \subseteq ActiveFrontier(t)
    BY <1>2 DEF MctsLeaves
  <2>2. d \in IF out THEN {Decision(t, <<>>)}
              ELSE IF leaves = {} THEN {Decision(u, <<>>)}
              ELSE UNION {options(b) : b \in leaves}
    BY Zenon DEF Mcts
  <2> HIDE DEF leaves, u, out
  <2>3. ASSUME NEW b \in leaves, d \in options(b)
        PROVE  \/ d = Decision(u, Commands("continue", <<b>>))
               \/ \E c \in Born(t) : d = Expand(u, b, {c})
    BY <2>3
  <2> HIDE DEF options
  <2>4. CASE out
    BY <2>2, <2>4
  <2>5. CASE ~out /\ leaves = {}
    BY <2>2, <2>5
  <2>6. CASE ~out /\ leaves # {}
    <3>1. PICK b \in leaves : d \in options(b)
      BY <2>2, <2>6
    <3> QED
      BY <2>1, <2>3, <3>1
  <2> QED
    BY <2>4, <2>5, <2>6
<1> HIDE DEF u
<1>4. \A c \in Born(t) : {c} \in SUBSET Born(t)
  OBVIOUS
<1>5. Stepwise(t, u, d)
  BY <1>3, <1>4 DEF Stepwise
<1> QED
  BY <1>1, <1>5

LEMMA DecisionsSensible ==
  ASSUME NEW t, TreeOK(t), config \in Configs, NEW e, NEW d \in Decisions(t, e)
  PROVE  Sensible(t, d)
BY ConfigFacts, BeamSensible, BestFirstStepwise, MctsStepwise, StepwiseSensible DEF Decisions

-----------------------------------------------------------------------------
(* Terminating the tree.                                                   *)

\* The order expanded branches die in: by rounds, a branch's round being the
\* height of the expanded branches below it.
Expanded(t) == {b \in Ids : t.state[b] = "expanded"}

Heights(t, b) ==
  {0} \cup {t.depth[c] - t.depth[b] : c \in {x \in Expanded(t) : b \in Ancestors(t, x)}}

Rounds(t) == [b \in Expanded(t) |-> Max(Heights(t, b))]

Earlier(t, a, b) ==
  \/ Rounds(t)[a] < Rounds(t)[b]
  \/ Rounds(t)[a] = Rounds(t)[b] /\ t.depth[a] > t.depth[b]
  \/ Rounds(t)[a] = Rounds(t)[b] /\ t.depth[a] = t.depth[b] /\ a > b

LEMMA RoundIsHighest ==
  ASSUME NEW t, TreeOK(t), NEW b \in Expanded(t)
  PROVE  /\ Rounds(t)[b] \in Int /\ Rounds(t)[b] \in Heights(t, b)
         /\ \A h \in Heights(t, b) : h \in Int /\ Rounds(t)[b] >= h
<1> DEFINE S == Expanded(t)
           D == {x \in S : b \in Ancestors(t, x)}
           Im == {t.depth[c] - t.depth[b] : c \in D}
           T == Heights(t, b)
<1>1. S \in SUBSET Ids /\ IsFiniteSet(S) /\ t.depth \in [Ids -> Nat] /\ b \in S
  <2>1. S \in SUBSET Ids
    BY DEF Expanded
  <2> HIDE DEF S
  <2> QED
    BY <2>1, ListsOfBranches, TreeFields DEF TreeOK, S
<1>2. T = {0} \cup Im /\ Rounds(t)[b] = Max(T)
  BY DEF Heights, Rounds
<1> HIDE DEF S, T
<1>3. IsFiniteSet(D) /\ D \subseteq S
  BY <1>1, FS_Subset
<1> HIDE DEF D
<1>4. IsFiniteSet(Im)
  <2> DEFINE f == [c \in D |-> t.depth[c] - t.depth[b]]
  <2>1. f \in Surjection(D, Im)
    BY DEF Surjection
  <2> HIDE DEF f, Im
  <2> QED
    BY <1>3, <2>1, FS_Surjection
<1>5. Im \in SUBSET Int
  BY <1>1, <1>3
<1> HIDE DEF Im
<1>6. IsFiniteSet(T) /\ T \in SUBSET Int /\ T # {}
  <2>1. IsFiniteSet({0})
    BY FS_Singleton
  <2> DEFINE Z == {0}
  <2>2. IsFiniteSet(Z) /\ T = Z \cup Im
    BY <1>2, <2>1
  <2> HIDE DEF Z
  <2>3. IsFiniteSet(T)
    BY <1>4, <2>2, FS_Union
  <2> QED
    BY <1>2, <1>5, <2>3
<1>7. \E x \in T : \A y \in T : x >= y
  BY <1>6, MaxExists
<1>8. Max(T) \in T /\ \A y \in T : Max(T) >= y
  BY <1>7, Zenon DEF Max
<1> QED
  BY <1>2, <1>6, <1>8 DEF T

\* The expanded branches, each once, in the order they are killed in.
LEMMA TerminationListing ==
  ASSUME NEW t, TreeOK(t)
  PROVE  LET q == TerminationOrder(t)
         IN /\ q \in Seq(Ids)
            /\ {q[i] : i \in DOMAIN q} = {b \in Ids : t.state[b] = "expanded"}
            /\ \A i, j \in DOMAIN q : i < j => Earlier(t, q[i], q[j])
<1> DEFINE S == Expanded(t)
           R == {p \in S \X S : Earlier(t, p[1], p[2])}
           rank == [x \in S |-> Cardinality(Below(R, S, x))]
           at(i) == CHOOSE x \in S : rank[x] = i - 1
           q == [i \in 1 .. Cardinality(S) |-> at(i)]
<1>1. S \in SUBSET Ids /\ IsFiniteSet(S) /\ t.depth \in [Ids -> Nat]
  <2>1. S \in SUBSET Ids
    BY DEF Expanded
  <2> HIDE DEF S
  <2> QED
    BY <2>1, ListsOfBranches, TreeFields DEF TreeOK
<1>2. \A b \in S : Rounds(t)[b] \in Int
  BY RoundIsHighest
<1> HIDE DEF S
<1>3. \A x, y \in S : <<x, y>> \in R <=> Earlier(t, x, y)
  OBVIOUS
<1>4. \A x \in S : Below(R, S, x) = {y \in S : Earlier(t, y, x)}
  <2> HIDE DEF R
  <2> QED
    BY <1>3 DEF Below
<1>5. StrictOrder(R, S)
  <2> DEFINE round == Rounds(t)
  <2>1. \A x \in S : x \in Int /\ t.depth[x] \in Int /\ round[x] \in Int
    BY <1>1, <1>2, IdsFinite
  <2>2. \A x, y \in S : <<x, y>> \in R <=>
          (\/ round[x] < round[y]
           \/ round[x] = round[y] /\ t.depth[x] > t.depth[y]
           \/ round[x] = round[y] /\ t.depth[x] = t.depth[y] /\ x > y)
    BY <1>3 DEF Earlier
  <2> HIDE DEF R, round
  <2> QED
    BY <2>1, <2>2 DEF StrictOrder
<1>6. TerminationOrder(t) = q
  <2>1. rank = [x \in S |-> Cardinality({y \in S : Earlier(t, y, x)})]
    <3> HIDE DEF R
    <3> QED
      BY <1>4
  <2> HIDE DEF rank
  <2> QED
    BY <2>1 DEF TerminationOrder, Sorted, S, Expanded, Earlier, Rounds, Heights
<1>7. Lists(q, S, R)
  <2>1. IsRank(rank, R, S)
    BY DEF IsRank
  <2>2. ListedBy(q, rank, S)
    <3>1. \A i \in 1 .. Cardinality(S) :
            (\E x \in S : rank[x] = i - 1) => q[i] \in S /\ rank[q[i]] = i - 1
      <4> HIDE DEF rank
      <4> QED
        OBVIOUS
    <3> HIDE DEF at, rank
    <3> QED
      BY <3>1 DEF ListedBy
  <2> HIDE DEF q, rank, R, at
  <2> QED
    BY <1>1, <1>5, <2>1, <2>2, RankedListing
<1> HIDE DEF q
<1>8. \A i, j \in DOMAIN q : i < j => Earlier(t, q[i], q[j])
  BY <1>7 DEF Lists
<1> HIDE DEF R
<1> QED
  BY <1>1, <1>6, <1>7, <1>8 DEF Lists, S, Expanded

\* A terminated tree has no active branch, and every close is emitted.
LEMMA TerminateHandling ==
  ASSUME NEW s, Handler(s)
  PROVE  LET r == Terminate(s)
         IN Handling(s, r) /\ r.ok = s.ok /\ ActiveFrontier(r.tree) = {}
<1> DEFINE t == s.tree
           A == ActiveFrontier(t)
           score(b) == IF t.hasValue[b] THEN t.value[b] ELSE t.logprob[b]
           better(a, b) ==
             \/ t.hasValue[a] /\ ~t.hasValue[b]
             \/ t.hasValue[a] = t.hasValue[b] /\ score(a) > score(b)
             \/ t.hasValue[a] = t.hasValue[b] /\ score(a) = score(b) /\ a < b
           best == {b \in A : \A c \in A \ {b} : better(b, c)}
           thinned == Kill(t, A \ best)
           closed == Finalize(thinned, best)
           order == TerminationOrder(closed)
           u == Kill(closed, Range(order))
           K == Commands("kill", Ascending(A \ best))
           F == Commands("finalize", Ascending(best))
           E == Commands("kill", order)
           e == s.emitted \o K \o F \o E
           r == [s EXCEPT !.tree = u, !.emitted = e]
<1>1. Terminate(s) = r
  BY Zenon DEF Terminate
<1>2. best \subseteq A /\ A \in SUBSET Ids
  BY DEF ActiveFrontier
<1> HIDE DEF best
<1>3. s \in Handlers /\ TreeOK(t) /\ s.emitted \in Seq(CommandSet)
  BY HandlerFields DEF Handler
<1>4. A \subseteq Present(t)
  BY DEF ActiveFrontier, Present
<1>5. Evolves(t, thinned, A \ best) /\ TreeOK(thinned) /\ best \subseteq ActiveFrontier(thinned)
  <2>1. A \ best \subseteq Present(t)
    BY <1>4
  <2>2. Evolves(t, thinned, A \ best)
    BY <1>3, <2>1, KillEvolves
  <2>3. TreeOK(thinned)
    BY <2>2 DEF Evolves
  <2>4. \A b \in Ids : thinned.state[b] = IF b \in A \ best THEN "killed" ELSE t.state[b]
    BY <1>3, KillFields
  <2>5. best \subseteq ActiveFrontier(thinned)
    BY <1>2, <2>4 DEF ActiveFrontier
  <2> QED
    BY <2>2, <2>3, <2>5
<1>6. ActiveFrontier(thinned) = best
  BY <1>2, <1>3, KillFields DEF ActiveFrontier
<1> HIDE DEF thinned
<1>7. Evolves(thinned, closed, best) /\ TreeOK(closed)
  BY <1>5, FinalizeEvolves DEF Evolves
<1>8. ActiveFrontier(closed) = {}
  BY <1>2, <1>5, <1>6, FinalizeFields DEF ActiveFrontier
<1> HIDE DEF closed
<1> DEFINE X == {order[i] : i \in DOMAIN order}
<1>9. order \in Seq(Ids) /\ X = {b \in Ids : closed.state[b] = "expanded"}
  BY <1>7, TerminationListing
<1> HIDE DEF order
<1>10. Range(order) = X
  BY DEF Range
<1> HIDE DEF X
<1>11. Evolves(closed, u, X) /\ X \subseteq Present(closed)
  <2>1. X \subseteq Present(closed)
    BY <1>9 DEF Present
  <2> QED
    BY <1>7, <1>10, <2>1, KillEvolves
<1>12. ActiveFrontier(u) = {}
  BY <1>7, <1>8, <1>10, KillFields DEF ActiveFrontier
<1> HIDE DEF u
<1> DEFINE C == ((A \ best) \cup best) \cup X
<1>13. Evolves(t, u, C) /\ TreeOK(u) /\ C \in SUBSET Ids
  <2>1. Evolves(t, closed, (A \ best) \cup best)
    BY <1>5, <1>7, EvolvesOn
  <2>2. Evolves(t, u, C)
    BY <1>11, <2>1, EvolvesOn
  <2> QED
    BY <2>2 DEF Evolves, Present
<1> DEFINE e1 == s.emitted \o K
           e2 == e1 \o F
<1>14. K \in Seq(CommandSet) /\ ClosedBy(K) = A \ best
  <2> DEFINE D == A \ best
             q == Ascending(D)
  <2>1. D \in SUBSET Ids
    BY <1>2
  <2> HIDE DEF D
  <2>2. q \in Seq(Ids) /\ {q[i] : i \in DOMAIN q} = D
    BY <2>1, ListsOfBranches
  <2> HIDE DEF q
  <2>3. Commands("kill", q) \in Seq(CommandSet) /\ ClosedBy(Commands("kill", q)) = D
    BY <2>2, CommandsOf
  <2> QED
    BY <2>3 DEF D, q
<1>15. F \in Seq(CommandSet) /\ ClosedBy(F) = best
  <2>1. best \in SUBSET Ids
    BY <1>2
  <2> QED
    BY <2>1, ListsOfBranches, CommandsOf, ZenonT(60)
<1>16. E \in Seq(CommandSet) /\ ClosedBy(E) = X
  BY <1>9, CommandsOf DEF X
<1> HIDE DEF A, K, F, E
<1>17. e1 \in Seq(CommandSet) /\ ClosedBy(e1) = ClosedBy(s.emitted) \cup (A \ best)
  BY <1>3, <1>14, ConcatenatedCommands
<1> HIDE DEF e1
<1>18. e2 \in Seq(CommandSet) /\ ClosedBy(e2) = ClosedBy(s.emitted) \cup (A \ best) \cup best
  BY <1>15, <1>17, ConcatenatedCommands
<1> HIDE DEF e2
<1>19. e = e2 \o E
  BY DEF e1, e2
<1>20. e \in Seq(CommandSet) /\ ClosedBy(e) = ClosedBy(s.emitted) \cup C
  <2>1. e \in Seq(CommandSet) /\ ClosedBy(e) = ClosedBy(e2) \cup X
    <3> HIDE DEF e
    <3> QED
      BY <1>16, <1>18, <1>19, ConcatenatedCommands
  <2> HIDE DEF e
  <2> QED
    BY <1>18, <2>1
<1> HIDE DEF e
<1>21. /\ r \in Handlers /\ r.tree = u /\ r.emitted = e /\ r.ok = s.ok
       /\ r.consumed = s.consumed /\ r.queue = s.queue /\ r.outstanding = s.outstanding
       /\ r.waits = s.waits /\ r.terminals = s.terminals
  <2>1. u \in Trees
    BY <1>13 DEF TreeOK
  <2> QED
    BY <1>3, <1>20, <2>1 DEF Handlers
<1> HIDE DEF r, C
<1>22. Handling(s, r)
  BY <1>13, <1>20, <1>21 DEF Handling, Handler
<1> QED
  BY <1>1, <1>12, <1>21, <1>22

-----------------------------------------------------------------------------
(* Enqueueing the emitted commands.                                        *)

LEMMA AdmitFields ==
  ASSUME NEW s, Handler(s), NEW c \in CommandSet
  PROVE  LET r == Admit(s, c)
             b == c.branch
         IN /\ Handler(r) /\ r.tree = s.tree /\ r.consumed = s.consumed /\ r.waits = s.waits
            /\ r.terminals = s.terminals /\ r.ok = s.ok /\ r.emitted = s.emitted
            /\ \/ /\ c.op # "continue"
                  /\ r.outstanding = s.outstanding \ {b}
                  /\ ContinuesIn(r.queue) = ContinuesIn(s.queue) \ {b}
               \/ /\ c.op = "continue" /\ CanContinue(s, b)
                  /\ r.outstanding = s.outstanding \cup {b}
                  /\ ContinuesIn(r.queue) = ContinuesIn(s.queue) \cup {b}
               \/ c.op = "continue" /\ r = s
<1> DEFINE b == c.branch
           w == Withdraw(s, b)
<1>1. s \in Handlers /\ s.queue \in Seq(CommandSet) /\ s.outstanding \in SUBSET Ids /\ b \in Ids
      /\ TreeOK(s.tree)
  BY HandlerFields DEF Handler, CommandSet
<1>2. CASE c.op # "continue"
  <2>1. /\ Handler(w) /\ w.tree = s.tree /\ w.consumed = s.consumed /\ w.waits = s.waits
        /\ w.terminals = s.terminals /\ w.emitted = s.emitted /\ w.ok = s.ok
        /\ w.outstanding = s.outstanding \ {b}
        /\ ContinuesIn(w.queue) = ContinuesIn(s.queue) \ {b}
    BY WithdrawFields
  <2> HIDE DEF w
  <2> DEFINE q == Append(w.queue, c)
             r == [w EXCEPT !.queue = q]
  <2>2. w \in Handlers /\ w.queue \in Seq(CommandSet)
    BY <2>1, HandlerFields DEF Handler
  <2>3. q \in Seq(CommandSet) /\ ContinuesIn(q) = ContinuesIn(w.queue)
    BY <1>2, <2>2, AppendedCommand
  <2> HIDE DEF q
  <2>4. /\ r \in Handlers /\ r.tree = w.tree /\ r.consumed = w.consumed /\ r.waits = w.waits
        /\ r.terminals = w.terminals /\ r.emitted = w.emitted /\ r.ok = w.ok
        /\ r.outstanding = w.outstanding /\ r.queue = q
    BY <2>2, <2>3 DEF Handlers
  <2>5. Admit(s, c) = r
    BY <1>2 DEF Admit, w, q
  <2> HIDE DEF r
  <2> QED
    BY <1>1, <1>2, <2>1, <2>3, <2>4, <2>5 DEF Handler
<1>3. CASE c.op = "continue" /\ CanContinue(s, b)
  <2> DEFINE q == Append(s.queue, c)
             o == s.outstanding \cup {b}
             r == [s EXCEPT !.outstanding = o, !.queue = q]
  <2>1. q \in Seq(CommandSet) /\ ContinuesIn(q) = ContinuesIn(s.queue) \cup {b}
    BY <1>1, <1>3, AppendedCommand
  <2>2. o \in SUBSET Ids
    BY <1>1
  <2>3. Admit(s, c) = r
    BY <1>3 DEF Admit
  <2> HIDE DEF q
  <2>4. /\ r \in Handlers /\ r.tree = s.tree /\ r.consumed = s.consumed /\ r.waits = s.waits
        /\ r.terminals = s.terminals /\ r.emitted = s.emitted /\ r.ok = s.ok
        /\ r.outstanding = o /\ r.queue = q
    <3> HIDE DEF o
    <3> QED
      BY <1>1, <2>1, <2>2 DEF Handlers
  <2> HIDE DEF r
  <2> QED
    BY <1>1, <1>3, <2>1, <2>3, <2>4 DEF Handler
<1>4. CASE c.op = "continue" /\ ~CanContinue(s, b)
  BY <1>1, <1>4 DEF Admit, Handler
<1> QED
  BY <1>2, <1>3, <1>4

\* The branches some command of q after the i-th closes.
ClosedAfter(q, i) == {q[j].branch : j \in {k \in DOMAIN q : k > i /\ q[k].op # "continue"}}
ClosedUpTo(q, i) == {q[j].branch : j \in {k \in DOMAIN q : k <= i /\ q[k].op # "continue"}}

LEMMA ClosedSplit ==
  ASSUME NEW q \in Seq(CommandSet)
  PROVE  /\ ClosedUpTo(q, 0) = {} /\ ClosedAfter(q, 0) = ClosedBy(q)
         /\ ClosedUpTo(q, Len(q)) = ClosedBy(q) /\ ClosedAfter(q, Len(q)) = {}
         /\ \A i \in 0 .. Len(q) - 1 :
              LET here == IF q[i + 1].op # "continue" THEN {q[i + 1].branch} ELSE {}
              IN /\ ClosedUpTo(q, i + 1) = ClosedUpTo(q, i) \cup here
                 /\ ClosedAfter(q, i) = ClosedAfter(q, i + 1) \cup here
<1>1. DOMAIN q = 1 .. Len(q) /\ Len(q) \in Nat
  OBVIOUS
<1>2. \A k \in DOMAIN q : k > 0 /\ ~(k <= 0) /\ k <= Len(q) /\ ~(k > Len(q))
  BY <1>1
<1>3. /\ ClosedUpTo(q, 0) = {} /\ ClosedAfter(q, 0) = ClosedBy(q)
      /\ ClosedUpTo(q, Len(q)) = ClosedBy(q) /\ ClosedAfter(q, Len(q)) = {}
  BY <1>2 DEF ClosedUpTo, ClosedAfter, ClosedBy
<1>4. ASSUME NEW i \in 0 .. Len(q) - 1
      PROVE  LET here == IF q[i + 1].op # "continue" THEN {q[i + 1].branch} ELSE {}
             IN /\ ClosedUpTo(q, i + 1) = ClosedUpTo(q, i) \cup here
                /\ ClosedAfter(q, i) = ClosedAfter(q, i + 1) \cup here
  <2>1. i + 1 \in DOMAIN q /\ ~(i + 1 <= i) /\ i + 1 > i /\ i + 1 <= i + 1
    BY <1>1
  <2>2. \A k \in DOMAIN q : /\ k <= i + 1 <=> (k <= i \/ k = i + 1)
                            /\ k > i <=> (k > i + 1 \/ k = i + 1)
    BY <1>1
  <2> QED
    BY <2>1, <2>2 DEF ClosedUpTo, ClosedAfter
<1> QED
  BY <1>3, <1>4

\* The branches a reservation may be held for: they can be sampled.
Continuable(s, b) ==
  b \notin DOMAIN s.waits /\ s.tree.tokens[b] < PerBranchBudget

\* Enqueueing keeps what is reserved in step with what the driver holds (the
\* branches of G) or will poll, and within the budget.
LEMMA EnqueueReserves ==
  ASSUME config \in Configs, NEW s, Handler(s), NEW G,
         s.outstanding \subseteq ContinuesIn(s.queue) \cup G,
         ContinuesIn(s.queue) \cup G \subseteq s.outstanding \cup ClosedBy(s.emitted),
         s.consumed + Cardinality(s.outstanding) <= TotalBudget,
         \A b \in s.outstanding :
           /\ Continuable(s, b)
           /\ b \in ActiveFrontier(s.tree) \/ b \in ClosedBy(s.emitted),
         \A b \in ClosedBy(s.emitted) : b \notin ActiveFrontier(s.tree)
  PROVE  LET r == Enqueue(s)
         IN /\ Handler(r) /\ r.tree = s.tree /\ r.consumed = s.consumed /\ r.waits = s.waits
            /\ r.terminals = s.terminals /\ r.ok = s.ok
            /\ r.outstanding = ContinuesIn(r.queue) \cup (G \ ClosedBy(s.emitted))
            /\ r.consumed + Cardinality(r.outstanding) <= TotalBudget
            /\ \A b \in r.outstanding : Continuable(r, b) /\ b \in ActiveFrontier(r.tree)
<1> DEFINE es == s.emitted
           n == Len(es)
           start == [s EXCEPT !.emitted = <<>>]
<1>1. s \in Handlers /\ es \in Seq(CommandSet) /\ s.outstanding \in SUBSET Ids
  BY HandlerFields DEF Handler
<1>2. n \in Nat /\ DOMAIN es = 1 .. n /\ \A i \in 1 .. n : es[i] \in CommandSet
  BY <1>1
<1>3. PICK v : /\ v[0] = start
               /\ \A i \in 1 .. n : v[i] = Admit(v[i - 1], es[i])
               /\ Enqueue(s) = v[n]
  <2>1. DOMAIN s.emitted = 1 .. n
    BY <1>2
  <2> QED
    BY <1>2, <2>1, EnqueueSteps, Zenon
<1>4. /\ Handler(start) /\ start.tree = s.tree /\ start.consumed = s.consumed
      /\ start.waits = s.waits /\ start.terminals = s.terminals /\ start.ok = s.ok
      /\ start.outstanding = s.outstanding /\ start.queue = s.queue
  <2>1. <<>> \in Seq(CommandSet)
    OBVIOUS
  <2> QED
    BY <1>1, <2>1 DEF Handler, Handlers
<1> HIDE DEF start
<1> DEFINE Same(r) == /\ Handler(r) /\ r.tree = s.tree /\ r.consumed = s.consumed
                      /\ r.waits = s.waits /\ r.terminals = s.terminals /\ r.ok = s.ok
           P(i) ==
             /\ Same(v[i])
             /\ v[i].outstanding \subseteq ContinuesIn(v[i].queue) \cup (G \ ClosedUpTo(es, i))
             /\ ContinuesIn(v[i].queue) \cup (G \ ClosedUpTo(es, i))
                  \subseteq v[i].outstanding \cup ClosedAfter(es, i)
             /\ s.consumed + Cardinality(v[i].outstanding) <= TotalBudget
             /\ \A b \in v[i].outstanding :
                  Continuable(s, b) /\ (b \in ActiveFrontier(s.tree) \/ b \in ClosedAfter(es, i))
           Good == {i \in 0 .. n : P(i)}
<1>5. /\ ClosedUpTo(es, 0) = {} /\ ClosedAfter(es, 0) = ClosedBy(es)
      /\ ClosedUpTo(es, n) = ClosedBy(es) /\ ClosedAfter(es, n) = {}
      /\ \A i \in 0 .. n - 1 :
           /\ ClosedUpTo(es, i + 1) = ClosedUpTo(es, i) \cup
                (IF es[i + 1].op # "continue" THEN {es[i + 1].branch} ELSE {})
           /\ ClosedAfter(es, i) = ClosedAfter(es, i + 1) \cup
                (IF es[i + 1].op # "continue" THEN {es[i + 1].branch} ELSE {})
  BY <1>1, ClosedSplit
<1>6. 0 \in Good
  <2>1. P(0)
    BY <1>3, <1>4, <1>5
  <2> HIDE DEF P
  <2> QED
    BY <1>2, <2>1
<1>7. TotalBudget \in Nat /\ s.consumed \in Nat
  BY <1>1, ConfigFacts, HandlerFields
<1>8. \A i \in 0 .. n - 1 : i \in Good => i + 1 \in Good
  <2> SUFFICES ASSUME NEW i \in 0 .. n - 1, P(i) PROVE i + 1 \in 0 .. n /\ P(i + 1)
    OBVIOUS
  <2> DEFINE p == v[i]
             r == v[i + 1]
             c == es[i + 1]
             b == c.branch
  <2>1. i + 1 \in 1 .. n /\ (i + 1) - 1 = i /\ i + 1 \in 0 .. n
    BY <1>2
  <2>2. r = Admit(p, c) /\ c \in CommandSet
    BY <1>2, <1>3, <2>1
  <2>3. /\ Same(p)
        /\ p.outstanding \subseteq ContinuesIn(p.queue) \cup (G \ ClosedUpTo(es, i))
        /\ ContinuesIn(p.queue) \cup (G \ ClosedUpTo(es, i))
             \subseteq p.outstanding \cup ClosedAfter(es, i)
        /\ s.consumed + Cardinality(p.outstanding) <= TotalBudget
        /\ \A x \in p.outstanding :
             Continuable(s, x) /\ (x \in ActiveFrontier(s.tree) \/ x \in ClosedAfter(es, i))
    OBVIOUS
  <2> HIDE DEF P, p, r, c
  <2>4. Same(r) /\ \/ /\ c.op # "continue"
                      /\ r.outstanding = p.outstanding \ {b}
                      /\ ContinuesIn(r.queue) = ContinuesIn(p.queue) \ {b}
                   \/ /\ c.op = "continue" /\ CanContinue(p, b)
                      /\ r.outstanding = p.outstanding \cup {b}
                      /\ ContinuesIn(r.queue) = ContinuesIn(p.queue) \cup {b}
                   \/ c.op = "continue" /\ r = p
    <3>1. Handler(p)
      BY <2>3
    <3>2. /\ Handler(r) /\ r.tree = p.tree /\ r.consumed = p.consumed /\ r.waits = p.waits
          /\ r.terminals = p.terminals /\ r.ok = p.ok
          /\ \/ /\ c.op # "continue"
                /\ r.outstanding = p.outstanding \ {b}
                /\ ContinuesIn(r.queue) = ContinuesIn(p.queue) \ {b}
             \/ /\ c.op = "continue" /\ CanContinue(p, b)
                /\ r.outstanding = p.outstanding \cup {b}
                /\ ContinuesIn(r.queue) = ContinuesIn(p.queue) \cup {b}
             \/ c.op = "continue" /\ r = p
      BY <2>2, <3>1, AdmitFields
    <3>3. Same(r)
      BY <2>3, <3>2
    <3> HIDE DEF Same
    <3> QED
      BY <3>2, <3>3
  <2>5. p.outstanding \in SUBSET Ids
    BY <2>3, HandlerFields DEF Handler
  <2>6. IsFiniteSet(p.outstanding) /\ Cardinality(p.outstanding) \in Nat
    BY <2>5, ListsOfBranches, FS_CardinalityType
  <2> DEFINE here == IF c.op # "continue" THEN {b} ELSE {}
  <2>7. /\ ClosedUpTo(es, i + 1) = ClosedUpTo(es, i) \cup here
        /\ ClosedAfter(es, i) = ClosedAfter(es, i + 1) \cup here
    BY <1>5 DEF c
  <2> DEFINE U == ClosedUpTo(es, i)
             U1 == ClosedUpTo(es, i + 1)
             A == ClosedAfter(es, i)
             A1 == ClosedAfter(es, i + 1)
  <2> HIDE DEF U, U1, A, A1
  <2>8. U1 = U \cup here /\ A = A1 \cup here
    BY <2>7 DEF U, U1, A, A1
  <2>9. /\ p.outstanding \subseteq ContinuesIn(p.queue) \cup (G \ U)
        /\ ContinuesIn(p.queue) \cup (G \ U) \subseteq p.outstanding \cup A
        /\ \A x \in p.outstanding : Continuable(s, x) /\ (x \in ActiveFrontier(s.tree) \/ x \in A)
    BY <2>3 DEF U, A
  <2>10. /\ r.outstanding \subseteq ContinuesIn(r.queue) \cup (G \ U1)
         /\ ContinuesIn(r.queue) \cup (G \ U1) \subseteq r.outstanding \cup A1
         /\ s.consumed + Cardinality(r.outstanding) <= TotalBudget
         /\ \A x \in r.outstanding :
              Continuable(s, x) /\ (x \in ActiveFrontier(s.tree) \/ x \in A1)
    <3>1. CASE /\ c.op # "continue"
               /\ r.outstanding = p.outstanding \ {b}
               /\ ContinuesIn(r.queue) = ContinuesIn(p.queue) \ {b}
      <4>1. Cardinality(r.outstanding) <= Cardinality(p.outstanding)
            /\ Cardinality(r.outstanding) \in Nat
        <5>1. r.outstanding \subseteq p.outstanding
          BY <3>1
        <5> QED
          BY <2>6, <5>1, FS_Subset, FS_CardinalityType
      <4>2. s.consumed + Cardinality(r.outstanding) <= TotalBudget
        BY <1>7, <2>3, <2>6, <4>1
      <4> QED
        BY <2>8, <2>9, <3>1, <4>2
    <3>2. CASE /\ c.op = "continue" /\ CanContinue(p, b)
               /\ r.outstanding = p.outstanding \cup {b}
               /\ ContinuesIn(r.queue) = ContinuesIn(p.queue) \cup {b}
      <4>1. /\ b \in ActiveFrontier(s.tree) /\ Continuable(s, b) /\ b \notin p.outstanding
            /\ Cardinality(p.outstanding) < TotalBudget - s.consumed
        BY <2>3, <3>2 DEF CanContinue, Continuable
      <4>2. Cardinality(r.outstanding) = Cardinality(p.outstanding) + 1
        BY <2>6, <3>2, <4>1, FS_AddElement
      <4>3. s.consumed + Cardinality(r.outstanding) <= TotalBudget
        BY <1>7, <2>6, <4>1, <4>2
      <4> QED
        BY <2>8, <2>9, <3>2, <4>1, <4>3
    <3>3. CASE c.op = "continue" /\ r = p
      BY <2>3, <2>8, <2>9, <3>3
    <3> QED
      BY <2>4, <3>1, <3>2, <3>3
  <2> QED
    BY <2>1, <2>4, <2>10 DEF P, r, U1, A1
<1>9. P(n)
  <2>1. 0 .. n \subseteq Good
    <3> HIDE DEF Good
    <3> QED
      BY <1>2, <1>6, <1>8, IntervalInduction
  <2>2. n \in 0 .. n
    BY <1>2
  <2> HIDE DEF P
  <2> QED
    BY <2>1, <2>2
<1>10. \A b : Continuable(s, b) <=> Continuable(v[n], b)
  BY <1>9 DEF Continuable
<1> QED
  BY <1>3, <1>5, <1>9, <1>10

-----------------------------------------------------------------------------
(* What one event makes of the scheduler.                                  *)

\* A reservation for each branch the driver holds (those of G) or will poll a
\* Continue of, unless its close is among the commands emitted.
Accounted(s, G) ==
  /\ Handler(s)
  /\ s.outstanding = ContinuesIn(s.queue) \cup G
  /\ s.consumed + Cardinality(s.outstanding) <= TotalBudget
  /\ \A b \in s.outstanding :
       Continuable(s, b) /\ (b \in ActiveFrontier(s.tree) \/ b \in ClosedBy(s.emitted))
  /\ \A b \in ClosedBy(s.emitted) : b \in Present(s.tree) /\ b \notin ActiveFrontier(s.tree)

\* Branches whose ending is deferred are active and wait for their value.
Deferred(s) ==
  \A b \in DOMAIN s.terminals :
    b \in DOMAIN s.waits /\ b \in ActiveFrontier(s.tree) /\ ~s.tree.hasValue[b]

\* A branch that was closed is not active again, nor is any when none was.
Onward(t, u) ==
  /\ Present(t) \subseteq Present(u)
  /\ \A b \in Present(t) : b \in ActiveFrontier(u) => b \in ActiveFrontier(t)
  /\ ActiveFrontier(t) = {} => ActiveFrontier(u) = {}

\* What handling an event that was recorded in s may leave behind.
Settled(s, r, G) ==
  /\ "ok" \in DOMAIN r /\ r.ok \in BOOLEAN
  /\ r.ok =>
       /\ Handler(r) /\ r.consumed = s.consumed /\ DOMAIN r.waits \subseteq DOMAIN s.waits
       /\ r.outstanding = ContinuesIn(r.queue) \cup (G \cap ActiveFrontier(r.tree))
       /\ r.consumed + Cardinality(r.outstanding) <= TotalBudget
       /\ \A b \in r.outstanding : Continuable(r, b) /\ b \in ActiveFrontier(r.tree)
       /\ Deferred(r)
       /\ Onward(s.tree, r.tree)

LEMMA AccountedOn ==
  ASSUME NEW s, NEW r, NEW G, Accounted(s, G), Handling(s, r)
  PROVE  Accounted(r, G)
<1>1. PICK C \in SUBSET Ids :
        Evolves(s.tree, r.tree, C) /\ ClosedBy(r.emitted) = ClosedBy(s.emitted) \cup C
  BY DEF Handling
<1>2. \A b \in s.outstanding : b \in Present(s.tree)
  BY DEF Accounted, ActiveFrontier, Present
<1>3. \A b \in Present(s.tree) :
        /\ b \in Present(r.tree) /\ r.tree.tokens[b] = s.tree.tokens[b]
        /\ b \in ActiveFrontier(s.tree) => b \in ActiveFrontier(r.tree) \/ b \in C
        /\ b \in ActiveFrontier(r.tree) => b \in ActiveFrontier(s.tree)
  BY <1>1 DEF Evolves, ActiveFrontier, Present
<1>4. \A b \in C : b \in Present(r.tree) /\ b \notin ActiveFrontier(r.tree)
  BY <1>1 DEF Evolves, ActiveFrontier
<1>5. r.waits = s.waits /\ r.outstanding = s.outstanding /\ r.queue = s.queue
      /\ r.consumed = s.consumed /\ Handler(r)
  BY DEF Handling
<1>6. \A b \in r.outstanding :
        Continuable(r, b) /\ (b \in ActiveFrontier(r.tree) \/ b \in ClosedBy(r.emitted))
  BY <1>1, <1>2, <1>3, <1>5 DEF Accounted, Continuable
<1>7. \A b \in ClosedBy(r.emitted) : b \in Present(r.tree) /\ b \notin ActiveFrontier(r.tree)
  BY <1>1, <1>3, <1>4 DEF Accounted
<1> QED
  BY <1>5, <1>6, <1>7 DEF Accounted

\* Branches that were closed stay closed.
LEMMA HandlingOnward ==
  ASSUME NEW s, NEW r, Handling(s, r), ActiveFrontier(s.tree) = {} => ActiveFrontier(r.tree) = {}
  PROVE  Onward(s.tree, r.tree)
BY DEF Handling, Evolves, Onward, ActiveFrontier

\* So it is when fewer branches wait.
LEMMA AccountedFewer ==
  ASSUME NEW s, NEW r, NEW G, Accounted(s, G), Handler(r),
         r.tree = s.tree, r.consumed = s.consumed, r.queue = s.queue,
         r.outstanding = s.outstanding, r.emitted = s.emitted,
         DOMAIN r.waits \subseteq DOMAIN s.waits
  PROVE  Accounted(r, G)
BY DEF Accounted, Continuable

LEMMA EnqueueSettles ==
  ASSUME config \in Configs, NEW s, NEW G, Accounted(s, G), Deferred(s), NEW s0,
         s.consumed = s0.consumed, DOMAIN s.waits \subseteq DOMAIN s0.waits, s.ok \in BOOLEAN,
         Onward(s0.tree, s.tree)
  PROVE  Settled(s0, Enqueue(s), G)
<1> DEFINE r == Enqueue(s)
<1>1. /\ Handler(r) /\ r.tree = s.tree /\ r.consumed = s.consumed /\ r.waits = s.waits
      /\ r.terminals = s.terminals /\ r.ok = s.ok
      /\ r.outstanding = ContinuesIn(r.queue) \cup (G \ ClosedBy(s.emitted))
      /\ r.consumed + Cardinality(r.outstanding) <= TotalBudget
      /\ \A b \in r.outstanding : Continuable(r, b) /\ b \in ActiveFrontier(r.tree)
  BY EnqueueReserves DEF Accounted
<1> HIDE DEF r
<1>2. G \ ClosedBy(s.emitted) = G \cap ActiveFrontier(r.tree)
  BY <1>1 DEF Accounted
<1>3. "ok" \in DOMAIN r
  BY <1>1 DEF Handler, Handlers
<1>4. Deferred(r)
  BY <1>1 DEF Deferred
<1> QED
  BY <1>1, <1>2, <1>3, <1>4 DEF Settled, r

LEMMA FinishSettles ==
  ASSUME config \in Configs, NEW s, NEW G, Accounted(s, G), Deferred(s), NEW s0,
         s.consumed = s0.consumed, DOMAIN s.waits \subseteq DOMAIN s0.waits, s.ok,
         s.ok \in BOOLEAN,
         Onward(s0.tree, s.tree)
  PROVE  Settled(s0, Finish(s), G)
<1> DEFINE r == RetainLive(s)
<1>1. /\ Handler(r) /\ r.tree = s.tree /\ r.consumed = s.consumed /\ r.queue = s.queue
      /\ r.outstanding = s.outstanding /\ r.emitted = s.emitted /\ r.ok = s.ok
      /\ DOMAIN r.waits = {b \in DOMAIN s.waits : IsLive(s.tree, b)}
      /\ DOMAIN r.terminals = {b \in DOMAIN s.terminals : IsLive(s.tree, b)}
  BY RetainFields DEF Accounted
<1>2. Finish(s) = Enqueue(r)
  BY DEF Finish
<1> HIDE DEF r
<1>3. Accounted(r, G)
  BY <1>1, AccountedFewer
<1>4. Deferred(r)
  BY <1>1 DEF Deferred, ActiveFrontier, IsLive
<1>5. Settled(s0, Enqueue(r), G)
  BY <1>1, <1>3, <1>4, EnqueueSettles
<1> QED
  BY <1>2, <1>5

\* An event e recorded in s.
Recorded(s, e, G) ==
  s.ok = TRUE /\ Accounted(s, G) /\ Deferred(s) /\ e.treeOut \in BOOLEAN /\ e.eos \in BOOLEAN

\* Every outcome of an event.
LEMMA OutcomesSettled ==
  ASSUME config \in Configs, NEW s, NEW e, NEW G, Recorded(s, e, G), NEW r \in Outcomes(s, e)
  PROVE  /\ Settled(s, r, G)
         /\ e.treeOut => r.ok /\ ActiveFrontier(r.tree) = {}
<1>0. s.ok = TRUE /\ Accounted(s, G) /\ Deferred(s) /\ e.treeOut \in BOOLEAN /\ e.eos \in BOOLEAN
  BY DEF Recorded
<1>1. Handler(s)
  BY <1>0 DEF Accounted
<1>2. CASE e.treeOut
  <2> DEFINE x == Terminate(s)
             y == ForgetPending(x)
  <2>1. Handling(s, x) /\ x.ok = TRUE /\ ActiveFrontier(x.tree) = {}
    BY <1>0, <1>1, TerminateHandling
  <2> HIDE DEF x
  <2>2. Accounted(x, G) /\ Handler(x) /\ x.consumed = s.consumed
    BY <1>0, <2>1, AccountedOn DEF Handling
  <2>3. /\ Handler(y) /\ y.tree = x.tree /\ y.consumed = x.consumed /\ y.queue = x.queue
        /\ y.outstanding = x.outstanding /\ y.emitted = x.emitted /\ y.ok = x.ok
        /\ DOMAIN y.waits = {} /\ DOMAIN y.terminals = {}
    BY <2>2, ForgetFields
  <2> HIDE DEF y
  <2>4. Accounted(y, G) /\ Deferred(y)
    BY <2>2, <2>3, AccountedFewer DEF Deferred
  <2>5. r = Enqueue(y)
    BY <1>2 DEF Outcomes, x, y
  <2>6. Settled(s, Enqueue(y), G)
    <3>1. Onward(s.tree, y.tree)
      BY <2>1, <2>3, HandlingOnward
    <3>2. DOMAIN y.waits \subseteq DOMAIN s.waits /\ y.consumed = s.consumed /\ y.ok \in BOOLEAN
      BY <2>1, <2>2, <2>3
    <3> QED
      BY <2>4, <3>1, <3>2, EnqueueSettles
  <2>7. Enqueue(y).tree = y.tree /\ Enqueue(y).ok = y.ok
    BY <2>4, EnqueueReserves DEF Accounted
  <2> QED
    BY <2>1, <2>3, <2>5, <2>6, <2>7
<1> DEFINE s1 == RetainLive(s)
<1>3. /\ Handler(s1) /\ s1.tree = s.tree /\ s1.consumed = s.consumed /\ s1.queue = s.queue
      /\ s1.outstanding = s.outstanding /\ s1.emitted = s.emitted /\ s1.ok = s.ok
      /\ DOMAIN s1.waits = {b \in DOMAIN s.waits : IsLive(s.tree, b)}
      /\ DOMAIN s1.terminals = {b \in DOMAIN s.terminals : IsLive(s.tree, b)}
  BY <1>0, <1>1, RetainFields
<1> HIDE DEF s1
<1>4. Accounted(s1, G) /\ Deferred(s1)
  <2>1. Accounted(s1, G)
    BY <1>0, <1>3, AccountedFewer
  <2>2. Deferred(s1)
    BY <1>0, <1>3 DEF Deferred, ActiveFrontier, IsLive
  <2> QED
    BY <2>1, <2>2
<1>5. CASE ~e.treeOut /\ e.eos
  <2>1. r = Enqueue(s1)
    BY <1>5 DEF Outcomes, s1
  <2>2. Settled(s, Enqueue(s1), G)
    <3>1. Onward(s.tree, s1.tree)
      BY <1>3 DEF Onward
    <3> QED
      BY <1>0, <1>3, <1>4, <3>1, EnqueueSettles
  <2> QED
    BY <1>5, <2>1, <2>2
<1>6. CASE ~e.treeOut /\ ~e.eos
  <2> DEFINE s2 == SpeculativePrune(s1)
  <2>1. /\ Handling(s1, s2) /\ s2.ok = TRUE
        /\ ActiveFrontier(s2.tree) \subseteq ActiveFrontier(s1.tree)
        /\ \A b \in ActiveFrontier(s1.tree) :
             ~s1.tree.hasValue[b] => b \in ActiveFrontier(s2.tree)
    BY <1>0, <1>3, PruneHandling
  <2>2. PICK d \in Decide(s2, e) : r = Finish(d)
    BY <1>6 DEF Outcomes, s1
  <2> HIDE DEF s2
  <2>3. Accounted(s2, G) /\ Handler(s2) /\ s2.waits = s1.waits /\ s2.terminals = s1.terminals
        /\ s2.consumed = s.consumed
    BY <1>3, <1>4, <2>1, AccountedOn DEF Handling
  <2>4. Deferred(s2)
    <3>1. \A b \in Present(s1.tree) : s2.tree.hasValue[b] = s1.tree.hasValue[b]
      BY <2>1 DEF Handling, Evolves
    <3> QED
      BY <1>4, <2>1, <2>3, <3>1 DEF Deferred, ActiveFrontier, Present
  <2>5. DOMAIN s2.waits \subseteq DOMAIN s.waits /\ Onward(s.tree, s2.tree)
    BY <1>3, <2>1, <2>3, HandlingOnward
  <2>6. CASE s2.terminals # <<>>
    <3>1. d = s2
      BY <2>2, <2>6 DEF Decide
    <3>2. Settled(s, Finish(s2), G)
      BY <1>3, <2>1, <2>3, <2>4, <2>5, FinishSettles
    <3> QED
      BY <1>6, <2>2, <3>1, <3>2
  <2>7. CASE s2.terminals = <<>>
    <3>1. PICK c \in Decisions(s2.tree, e) : d = Follow(s2, c)
      BY <2>2, <2>7 DEF Decide
    <3>2. Sensible(s2.tree, c)
      BY <2>3, DecisionsSensible DEF Handler
    <3>3. CASE c.ok = FALSE
      <4>1. "ok" \in DOMAIN r /\ r.ok = FALSE
        BY <2>2, <2>3, <3>1, <3>2, <3>3, FollowFailed DEF Sensible
      <4> QED
        BY <1>6, <4>1 DEF Settled
    <3>4. CASE c.ok = TRUE
      <4>1. Handling(s2, d) /\ d.ok /\ ActiveFrontier(d.tree) = ActiveFrontier(c.tree)
        <5>1. /\ c.ok \in BOOLEAN /\ c.ok /\ c.out \in Seq(CommandSet)
              /\ Evolves(s2.tree, c.tree, ClosedBy(c.out))
          BY <3>2, <3>4 DEF Sensible
        <5> QED
          BY <2>3, <3>1, <5>1, FollowHandling
      <4>2. Accounted(d, G) /\ d.waits = s2.waits /\ d.terminals = s2.terminals
            /\ d.consumed = s2.consumed /\ d.ok \in BOOLEAN
        BY <2>3, <4>1, AccountedOn, HandlerFields DEF Handling, Handler
      <4>3. Deferred(d)
        BY <2>7, <4>2, PartlyEmpty DEF Deferred
      <4>4. Onward(s.tree, d.tree)
        <5>1. Handling(s1, d)
          BY <2>1, <4>1, HandlingOn
        <5>2. ActiveFrontier(s1.tree) = {} => ActiveFrontier(d.tree) = {}
          BY <2>1, <3>2, <3>4, <4>1 DEF Sensible
        <5> QED
          BY <1>3, <5>1, <5>2, HandlingOnward
      <4>5. Settled(s, Finish(d), G)
        BY <2>3, <2>5, <4>1, <4>2, <4>3, <4>4, FinishSettles
      <4> QED
        BY <1>6, <2>2, <4>5
    <3> QED
      BY <3>2, <3>3, <3>4 DEF Sensible
  <2> QED
    BY <2>6, <2>7
<1> QED
  BY <1>0, <1>2, <1>5, <1>6

\* Closing a branch that the event ends.
LEMMA FinalizeAccounts ==
  ASSUME NEW s, s.ok = TRUE, NEW G, Accounted(s, G), Deferred(s),
         NEW b \in ActiveFrontier(s.tree), b \notin DOMAIN s.terminals
  PROVE  LET r == FinalizeBranch(s, b)
         IN /\ r.ok = TRUE /\ Accounted(r, G) /\ Deferred(r) /\ r.consumed = s.consumed
            /\ r.waits = s.waits
            /\ ActiveFrontier(r.tree) = ActiveFrontier(s.tree) \ {b} /\ b \in Present(r.tree)
<1> DEFINE r == FinalizeBranch(s, b)
<1>1. /\ Handling(s, r) /\ r.ok = s.ok
      /\ ActiveFrontier(r.tree) = ActiveFrontier(s.tree) \ {b}
  BY FinalizeSteps DEF Accounted
<1> HIDE DEF r
<1>2. Accounted(r, G)
  BY <1>1, AccountedOn
<1>3. r.waits = s.waits /\ r.terminals = s.terminals /\ r.consumed = s.consumed
      /\ \A c \in Present(s.tree) : c \in Present(r.tree) /\ r.tree.hasValue[c] = s.tree.hasValue[c]
  BY <1>1 DEF Handling, Evolves
<1>4. Deferred(r) /\ b \in Present(r.tree)
  BY <1>1, <1>3 DEF Deferred, ActiveFrontier, Present
<1> QED
  BY <1>1, <1>2, <1>3, <1>4 DEF r

\* What is recorded of an event leaves the shape of the tree alone.
LEMMA SameShape ==
  ASSUME NEW t, TreeOK(t), NEW u \in Trees, u.state = t.state, u.parent = t.parent
  PROVE  TreeOK(u) /\ Present(u) = Present(t) /\ ActiveFrontier(u) = ActiveFrontier(t)
BY DEF TreeOK, Present, ActiveFrontier

LEMMA RecordTokenFields ==
  ASSUME NEW t, TreeOK(t), NEW b \in Ids, NEW l \in Int
  PROVE  LET u == RecordToken(t, b, l)
         IN /\ u \in Trees /\ u.state = t.state /\ u.parent = t.parent /\ u.depth = t.depth
            /\ u.hasValue = t.hasValue /\ \A c \in Ids \ {b} : u.tokens[c] = t.tokens[c]
            /\ u.logprob[b] \in Int
<1>1. t \in Trees /\ t.tokens \in [Ids -> Nat] /\ t.logprob \in [Ids -> Int]
  BY TreeFields DEF TreeOK
<1> DEFINE k == [t.tokens EXCEPT ![b] = @ + 1]
           p == [t.logprob EXCEPT ![b] = @ + l]
           u == [t EXCEPT !.tokens = k, !.logprob = p]
<1>2. k \in [Ids -> Nat] /\ p \in [Ids -> Int] /\ \A c \in Ids \ {b} : k[c] = t.tokens[c]
  BY <1>1
<1>3. RecordToken(t, b, l) = u
  BY <1>1, Zenon DEF RecordToken, Trees
<1> HIDE DEF k, p
<1>4. u \in Trees /\ u.state = t.state /\ u.parent = t.parent /\ u.depth = t.depth
      /\ u.hasValue = t.hasValue /\ u.tokens = k
      /\ u.logprob = p
  BY <1>1, <1>2 DEF Trees
<1> HIDE DEF u
<1> QED
  BY <1>2, <1>3, <1>4

LEMMA RecordValueFields ==
  ASSUME NEW t, TreeOK(t), NEW b \in Ids, NEW l \in Int
  PROVE  LET u == RecordValue(t, b, l)
         IN /\ u \in Trees /\ u.state = t.state /\ u.parent = t.parent /\ u.depth = t.depth
            /\ u.tokens = t.tokens
            /\ \A c \in Ids \ {b} : u.hasValue[c] = t.hasValue[c]
<1>1. t \in Trees /\ t.value \in [Ids -> Int] /\ t.hasValue \in [Ids -> BOOLEAN]
  BY TreeFields DEF TreeOK
<1> DEFINE k == [t.value EXCEPT ![b] = l]
           p == [t.hasValue EXCEPT ![b] = TRUE]
           u == [t EXCEPT !.value = k, !.hasValue = p]
<1>2. k \in [Ids -> Int] /\ p \in [Ids -> BOOLEAN] /\ \A c \in Ids \ {b} : p[c] = t.hasValue[c]
  BY <1>1
<1>3. RecordValue(t, b, l) = u
  BY <1>1, Zenon DEF RecordValue, Trees
<1> HIDE DEF k, p
<1>4. u \in Trees /\ u.state = t.state /\ u.parent = t.parent /\ u.depth = t.depth
      /\ u.tokens = t.tokens /\ u.hasValue = p
  BY <1>1, <1>2 DEF Trees
<1> HIDE DEF u
<1> QED
  BY <1>2, <1>3, <1>4

LEMMA MarkPendingFields ==
  ASSUME NEW t, TreeOK(t), NEW b \in Ids
  PROVE  LET u == MarkValuePending(t, b)
         IN /\ u \in Trees /\ u.state = t.state /\ u.parent = t.parent /\ u.depth = t.depth
            /\ u.tokens = t.tokens
            /\ u.hasValue[b] = FALSE /\ \A c \in Ids \ {b} : u.hasValue[c] = t.hasValue[c]
<1>1. t \in Trees /\ t.hasValue \in [Ids -> BOOLEAN]
  BY TreeFields DEF TreeOK
<1> DEFINE p == [t.hasValue EXCEPT ![b] = FALSE]
           u == [t EXCEPT !.hasValue = p]
<1>2. p \in [Ids -> BOOLEAN] /\ p[b] = FALSE /\ \A c \in Ids \ {b} : p[c] = t.hasValue[c]
  BY <1>1
<1>3. MarkValuePending(t, b) = u
  BY <1>1, Zenon DEF MarkValuePending, Trees
<1> HIDE DEF p
<1>4. u \in Trees /\ u.state = t.state /\ u.parent = t.parent /\ u.depth = t.depth
      /\ u.tokens = t.tokens /\ u.hasValue = p
  BY <1>1, <1>2 DEF Trees
<1> HIDE DEF u
<1> QED
  BY <1>2, <1>3, <1>4

-----------------------------------------------------------------------------
(* The inductive invariant holds initially, and each action keeps it.      *)

LEMMA NewTreeOK == TreeOK(NewTree) /\ ActiveFrontier(NewTree) = {Root}
<1> DEFINE t == NewTree
<1>1. Root \in Ids /\ Ids = 0 .. MaxTotalBranches - 1 /\ MaxTotalBranches \in Nat \ {0}
      /\ 0 \in Nat /\ 0 \in Int
  BY IdsFinite, BranchTreeAssumption DEF Ids
<1>2. /\ t.state = [b \in Ids |-> IF b = Root THEN "active" ELSE "absent"]
      /\ t.parent = [b \in Ids |-> Root]
      /\ t \in Trees
  BY <1>1 DEF NewTree, Trees, States
<1> HIDE DEF t
<1>3. Present(t) = {Root} /\ ActiveFrontier(t) = {Root}
  BY <1>1, <1>2 DEF Present, ActiveFrontier
<1>4. Present(t) = 0 .. 1 - 1 /\ 1 \in 1 .. MaxTotalBranches
  BY <1>1, <1>3 DEF Root
<1>5. \A c \in Ids \ {Root} : t.parent[c] < c
  BY <1>1, <1>2 DEF Root
<1>6. TreeOK(t)
  BY <1>2, <1>3, <1>4, <1>5 DEF TreeOK
<1> QED
  BY <1>3, <1>6 DEF t

LEMMA InitIInv == Init => IInv
<1> SUFFICES ASSUME Init PROVE IInv
  OBVIOUS
<1>1. /\ config \in Configs /\ tree = NewTree /\ consumed = 0 /\ queue = <<>>
      /\ outstanding = {} /\ waits = <<>> /\ terminals = <<>> /\ granted = {Root}
  BY DEF Init, NewScheduler
<1>2. TreeOK(tree) /\ ActiveFrontier(tree) = {Root}
  BY <1>1, NewTreeOK
<1>3. DOMAIN <<>> = {} /\ <<>> \in Partly(Int) /\ <<>> \in Partly({"tree", "branch"})
      /\ <<>> \in Seq(CommandSet)
  BY PartlyEmpty
<1>4. TypeInv
  <2>1. {Root} \in SUBSET Present(tree)
    BY <1>2 DEF ActiveFrontier, Present
  <2> QED
    BY <1>1, <1>2, <1>3, <2>1 DEF TypeInv
<1>5. Continues = {}
  BY <1>1, <1>3 DEF Continues
<1>6. NothingAskedYet
  BY <1>1, <1>2, <1>3, <1>5 DEF NothingAskedYet
<1>7. TotalBudget \in Nat \ {0} /\ PerBranchBudget \in Nat \ {0}
  BY <1>1, ConfigFacts
<1>8. ReservationsExact
  <2>1. Cardinality({}) = 0
    BY FS_EmptySet
  <2> QED
    BY <1>1, <1>5, <1>7, <2>1 DEF ReservationsExact
<1>9. GrantsSound
  <2>1. tree.tokens[Root] = 0
    BY <1>1, IdsFinite DEF NewTree
  <2> QED
    BY <1>1, <1>2, <1>3, <1>5, <1>7, <2>1 DEF GrantsSound, InForce
<1>10. DeferredEndingsAwaitAValue
  BY <1>1, <1>3 DEF DeferredEndingsAwaitAValue
<1> QED
  BY <1>1, <1>4, <1>6, <1>8, <1>9, <1>10 DEF IInv

\* The scheduler between two events.
LEMMA CurrentFields ==
  ASSUME TypeInv
  PROVE  /\ Handler(Current) /\ Current.tree = tree /\ Current.consumed = consumed
         /\ Current.queue = queue /\ Current.outstanding = outstanding
         /\ Current.waits = waits /\ Current.terminals = terminals /\ Current.emitted = <<>>
         /\ Current.ok = TRUE
<1>1. tree \in Trees /\ <<>> \in Seq(CommandSet)
  BY DEF TypeInv, TreeOK
<1> QED
  BY <1>1 DEF TypeInv, Current, Handler, Handlers

\* The branches the driver holds a reservation of.
Held == IF consumed = 0 THEN {} ELSE InForce

\* Between two events.
Quiet == IInv /\ ~failed

\* What an event of branch b, recorded as e in q, starts from: nothing but
\* the counters of b changed, and b was finalized if that is what it came to.
Starts(q, b) ==
  \E s :
    /\ Handler(s) /\ s.emitted = <<>> /\ s.queue \in {queue, WithoutContinue(queue, b)}
    /\ s.tree.state = tree.state /\ s.tree.parent = tree.parent /\ s.tree.depth = tree.depth
    /\ q = s \/ (b \in ActiveFrontier(s.tree) /\ q = FinalizeBranch(s, b))

\* G are the grants the event leaves.
Begins(q, e, b, G) ==
  /\ Starts(q, b) /\ Recorded(q, e, G)
  /\ q.consumed = 0 => ActiveFrontier(q.tree) = {} /\ DOMAIN q.waits = {}

LEMMA QuietFacts ==
  ASSUME Quiet
  PROVE  /\ config \in Configs /\ TypeInv /\ NothingAskedYet
         /\ outstanding = Continues \cup Held /\ consumed + Cardinality(outstanding) <= TotalBudget
         /\ \A b \in InForce \cup Continues :
              /\ b \in ActiveFrontier(tree) /\ b \notin DOMAIN waits
              /\ tree.tokens[b] < PerBranchBudget
         /\ \A b \in DOMAIN terminals :
              b \in DOMAIN waits /\ b \in ActiveFrontier(tree) /\ ~tree.hasValue[b]
         /\ Continues = ContinuesIn(queue)
<1>1. \A b \in DOMAIN terminals : b \in Ids
  BY PartlyEmpty DEF Quiet, IInv, TypeInv
<1> QED
  BY <1>1 DEF Quiet, IInv, ReservationsExact, GrantsSound, DeferredEndingsAwaitAValue,
     ActiveFrontier, Held, Continues, ContinuesIn

\* A later deadline for every branch that waits changes nothing else.
LEMMA TickFields ==
  ASSUME NEW s, Handler(s)
  PROVE  LET r == Tick(s)
         IN /\ Handler(r) /\ r.tree = s.tree /\ r.consumed = s.consumed /\ r.queue = s.queue
            /\ r.outstanding = s.outstanding /\ r.emitted = s.emitted /\ r.ok = s.ok
            /\ r.terminals = s.terminals /\ DOMAIN r.waits = DOMAIN s.waits
<1>1. s \in Handlers /\ s.waits \in Partly(Int)
  BY HandlerFields DEF Handler
<1> DEFINE w == [b \in DOMAIN s.waits |-> s.waits[b] - 1]
           r == [s EXCEPT !.waits = w]
<1>2. w \in Partly(Int) /\ DOMAIN w = DOMAIN s.waits
  <2>1. PICK E \in SUBSET Ids : s.waits \in [E -> Int]
    BY <1>1 DEF Partly
  <2>2. w \in [E -> Int]
    BY <2>1
  <2> HIDE DEF w
  <2> QED
    BY <2>1, <2>2 DEF Partly
<1>3. Tick(s) = r
  BY DEF Tick
<1> HIDE DEF w
<1>4. /\ r \in Handlers /\ r.tree = s.tree /\ r.consumed = s.consumed /\ r.queue = s.queue
      /\ r.outstanding = s.outstanding /\ r.emitted = s.emitted /\ r.ok = s.ok
      /\ r.terminals = s.terminals /\ r.waits = w
  BY <1>1, <1>2 DEF Handlers
<1> HIDE DEF r
<1> QED
  BY <1>2, <1>3, <1>4 DEF Handler

LEMMA TickFailed ==
  ASSUME NEW s, "ok" \in DOMAIN s
  PROVE  Tick(s).ok = s.ok
<1> DEFINE w == [b \in DOMAIN s.waits |-> s.waits[b] - 1]
<1>1. Tick(s) = [s EXCEPT !.waits = w]
  BY DEF Tick
<1> HIDE DEF w
<1> QED
  BY <1>1

\* Installing what an event settled keeps the invariant.
LEMMA InstallKeeps ==
  ASSUME config \in Configs, NEW s, NEW G, NEW r, Settled(s, r, G),
         s.consumed = 0 => ActiveFrontier(s.tree) = {} /\ DOMAIN s.waits = {},
         NEW x, x = r \/ x = Tick(r), Install(x),
         r.ok => /\ granted' \subseteq Present(tree')
                 /\ ActiveFrontier(r.tree) \cap G = ActiveFrontier(tree') \cap granted'
  PROVE  IInv'
<1>1. config' \in Configs
  BY DEF Install
<1>2. CASE ~r.ok
  <2>1. x.ok = r.ok
    BY TickFailed DEF Settled
  <2>2. failed'
    BY <1>2, <2>1 DEF Install
  <2> QED
    BY <1>1, <2>2 DEF IInv, ReservationsExact, GrantsSound, DeferredEndingsAwaitAValue
<1>3. CASE r.ok
  <2>1. /\ Handler(r) /\ r.consumed = s.consumed /\ DOMAIN r.waits \subseteq DOMAIN s.waits
        /\ r.outstanding = ContinuesIn(r.queue) \cup (G \cap ActiveFrontier(r.tree))
        /\ r.consumed + Cardinality(r.outstanding) <= TotalBudget
        /\ \A b \in r.outstanding : Continuable(r, b) /\ b \in ActiveFrontier(r.tree)
        /\ Deferred(r) /\ (ActiveFrontier(s.tree) = {} => ActiveFrontier(r.tree) = {})
    BY <1>3 DEF Settled, Onward
  <2>2. /\ Handler(x) /\ x.tree = r.tree /\ x.consumed = r.consumed /\ x.queue = r.queue
        /\ x.outstanding = r.outstanding /\ x.ok = r.ok /\ x.terminals = r.terminals
        /\ DOMAIN x.waits = DOMAIN r.waits
    BY <2>1, TickFields
  <2>3. /\ tree' = r.tree /\ consumed' = r.consumed /\ queue' = r.queue
        /\ outstanding' = r.outstanding /\ terminals' = r.terminals /\ waits' = x.waits
        /\ DOMAIN waits' = DOMAIN r.waits
    BY <2>2 DEF Install
  <2>4. InForce' = G \cap ActiveFrontier(r.tree)
    <3>1. InForce' = ActiveFrontier(tree') \cap granted'
      BY DEF InForce, ActiveFrontier
    <3> QED
      BY <1>3, <2>3, <3>1
  <2>5. Continues' = ContinuesIn(r.queue)
    BY <2>3 DEF Continues, ContinuesIn
  <2>6. outstanding' = Continues' \cup InForce'
    BY <2>1, <2>3, <2>4, <2>5
  <2>7. TypeInv'
    <3>1. x \in Handlers /\ TreeOK(x.tree)
      BY <2>2 DEF Handler
    <3>2. TreeOK(tree')
      BY <2>2, <2>3, <3>1
    <3>3. (granted \in SUBSET Present(tree))'
      BY <1>3 DEF Present
    <3>4. (TreeOK(tree))'
      BY <3>2 DEF TreeOK, Present
    <3>5. /\ consumed' \in Nat /\ queue' \in Seq(CommandSet) /\ outstanding' \in SUBSET Ids
          /\ waits' \in Partly(Int) /\ terminals' \in Partly({"tree", "branch"})
      BY <2>2, <2>3, <3>1, HandlerFields
    <3> QED
      BY <3>3, <3>4, <3>5 DEF TypeInv
  <2>8. NothingAskedYet'
    <3> SUFFICES ASSUME consumed' = 0
                 PROVE  /\ ActiveFrontier(tree') \subseteq {Root}
                        /\ Continues' = {} /\ DOMAIN waits' = {}
      BY DEF NothingAskedYet
    <3>1. ActiveFrontier(r.tree) = {} /\ DOMAIN r.waits = {}
      BY <2>1, <2>3
    <3> QED
      BY <2>1, <2>3, <2>4, <2>5, <3>1
  <2>9. ReservationsExact'
    <3>1. consumed' = 0 => InForce' = {}
      BY <2>1, <2>3, <2>4
    <3>2. TotalBudget' = TotalBudget
      BY DEF TotalBudget, Install
    <3> QED
      BY <2>1, <2>3, <2>6, <3>1, <3>2 DEF ReservationsExact
  <2>10. GrantsSound'
    <3>1. PerBranchBudget' = PerBranchBudget
      BY DEF PerBranchBudget, Install
    <3>2. \A b \in InForce' \cup Continues' :
            Continuable(r, b) /\ b \in ActiveFrontier(r.tree)
      BY <2>1, <2>3, <2>6
    <3> QED
      BY <2>3, <3>1, <3>2 DEF GrantsSound, Continuable, ActiveFrontier
  <2>11. DeferredEndingsAwaitAValue'
    BY <2>1, <2>3 DEF DeferredEndingsAwaitAValue, Deferred, ActiveFrontier
  <2> QED
    BY <1>1, <2>7, <2>8, <2>9, <2>10, <2>11 DEF IInv
<1> QED
  BY <1>2, <1>3 DEF Settled

\* A sampled token.
LEMMA TokenBegins ==
  ASSUME Quiet, NEW b \in Ids, NEW logprob \in Logprobs, NEW eos \in {FALSE, StopPossible},
         MaySample(b), NEW r \in Sampled(b, logprob, eos)
  PROVE  \E q, e : Begins(q, e, b, InForce \ {b}) /\ r \in Outcomes(q, e)
<1> DEFINE t == RecordToken(tree, b, logprob)
           awaits == ExternalValues /\ ~eos
           treeOut == consumed + 1 = TotalBudget
           branchOut == t.tokens[b] = PerBranchBudget
           T == IF awaits THEN MarkValuePending(t, b)
                ELSE IF ExternalValues THEN t ELSE RecordValue(t, b, t.logprob[b])
           W == IF awaits THEN Put(waits, b, Deadline) ELSE waits
           M == IF awaits /\ (treeOut \/ branchOut)
                THEN Put(terminals, b, IF treeOut THEN "tree" ELSE "branch") ELSE terminals
           p == [Current EXCEPT !.consumed = consumed + 1, !.tree = T, !.waits = W,
                                !.terminals = M]
           s == Withdraw(p, b)
           closes == eos \/ (branchOut /\ ~treeOut /\ ~awaits)
           e == [kind |-> "token", branch |-> b, eos |-> eos, treeOut |-> treeOut /\ ~awaits]
           G == Held \ {b}
           q == IF closes THEN FinalizeBranch(s, b) ELSE s
<1>1. /\ config \in Configs /\ TypeInv /\ NothingAskedYet
      /\ outstanding = Continues \cup Held /\ consumed + Cardinality(outstanding) <= TotalBudget
      /\ \A c \in InForce \cup Continues :
           /\ c \in ActiveFrontier(tree) /\ c \notin DOMAIN waits
           /\ tree.tokens[c] < PerBranchBudget
      /\ \A c \in DOMAIN terminals :
           c \in DOMAIN waits /\ c \in ActiveFrontier(tree) /\ ~tree.hasValue[c]
      /\ Continues = ContinuesIn(queue)
  BY QuietFacts
<1>2. /\ b \in InForce /\ b \in ActiveFrontier(tree) /\ b \notin DOMAIN waits
      /\ b \notin DOMAIN terminals /\ consumed < TotalBudget
  BY <1>1 DEF MaySample, AcceptsToken, InForce, ActiveFrontier
<1>3. /\ consumed \in Nat /\ TreeOK(tree) /\ waits \in Partly(Int) /\ outstanding \in SUBSET Ids
      /\ terminals \in Partly({"tree", "branch"}) /\ queue \in Seq(CommandSet)
  BY <1>1 DEF TypeInv
<1>4. logprob \in Int /\ eos \in BOOLEAN /\ Deadline \in Int /\ TotalBudget \in Nat \ {0}
      /\ ExternalValues \in BOOLEAN
  <2>1. MaxPending \in Nat /\ TotalBudget \in Nat \ {0} /\ ExternalValues \in BOOLEAN
    BY <1>1, ConfigFacts
  <2>2. Deadline \in Int
    BY <2>1 DEF Deadline
  <2>3. config.stops \in BOOLEAN /\ config.logprobs \subseteq Int
    BY <1>1, BranchSchedulerAssumption
  <2>4. logprob \in Int
    BY <2>3 DEF Logprobs
  <2>5. eos \in BOOLEAN
    BY <2>3 DEF StopPossible
  <2> QED
    BY <2>1, <2>2, <2>4, <2>5
<1>5. /\ t \in Trees /\ t.state = tree.state /\ t.parent = tree.parent
      /\ t.depth = tree.depth
      /\ t.hasValue = tree.hasValue /\ \A c \in Ids \ {b} : t.tokens[c] = tree.tokens[c]
      /\ t.logprob[b] \in Int /\ TreeOK(t)
  <2>1. /\ t \in Trees /\ t.state = tree.state /\ t.parent = tree.parent
        /\ t.depth = tree.depth
        /\ t.hasValue = tree.hasValue /\ \A c \in Ids \ {b} : t.tokens[c] = tree.tokens[c]
        /\ t.logprob[b] \in Int
    BY <1>3, <1>4, RecordTokenFields
  <2> HIDE DEF t
  <2>2. TreeOK(t)
    BY <1>3, <2>1, SameShape
  <2> QED
    BY <2>1, <2>2
<1> HIDE DEF t
<1>6. /\ T \in Trees /\ T.state = tree.state /\ T.parent = tree.parent /\ T.depth = tree.depth
      /\ \A c \in Ids \ {b} : T.tokens[c] = tree.tokens[c] /\ T.hasValue[c] = tree.hasValue[c]
      /\ awaits => ~T.hasValue[b]
  <2>1. CASE awaits
    <3>1. T = MarkValuePending(t, b)
      BY <2>1
    <3> HIDE DEF T
    <3>2. /\ T \in Trees /\ T.state = t.state /\ T.parent = t.parent /\ T.depth = t.depth
          /\ T.tokens = t.tokens
          /\ T.hasValue[b] = FALSE /\ \A c \in Ids \ {b} : T.hasValue[c] = t.hasValue[c]
      BY <1>5, <3>1, MarkPendingFields
    <3> QED
      BY <1>5, <3>2
  <2>2. CASE ~awaits /\ ExternalValues
    BY <1>5, <2>2
  <2>3. CASE ~awaits /\ ~ExternalValues
    <3> DEFINE l == t.logprob[b]
    <3>1. T = RecordValue(t, b, l)
      BY <2>3
    <3>2. l \in Int
      BY <1>5
    <3> HIDE DEF l, T
    <3>3. /\ T \in Trees /\ T.state = t.state /\ T.parent = t.parent /\ T.depth = t.depth
          /\ T.tokens = t.tokens
          /\ \A c \in Ids \ {b} : T.hasValue[c] = t.hasValue[c]
      BY <1>5, <3>1, <3>2, RecordValueFields
    <3> QED
      BY <1>5, <2>3, <3>3
  <2> QED
    BY <2>1, <2>2, <2>3
<1>7. TreeOK(T) /\ ActiveFrontier(T) = ActiveFrontier(tree) /\ Present(T) = Present(tree)
  <2> HIDE DEF T
  <2> QED
    BY <1>3, <1>6, SameShape
<1> HIDE DEF T
<1>8. W \in Partly(Int) /\ DOMAIN W \subseteq DOMAIN waits \cup {b}
      /\ DOMAIN waits \subseteq DOMAIN W /\ (awaits => b \in DOMAIN W)
  <2>1. /\ Put(waits, b, Deadline) \in Partly(Int)
        /\ DOMAIN Put(waits, b, Deadline) = DOMAIN waits \cup {b}
    <3> DEFINE Z == Int
    <3>1. Deadline \in Z /\ waits \in Partly(Z)
      BY <1>3, <1>4
    <3> HIDE DEF Z
    <3>2. /\ Put(waits, b, Deadline) \in Partly(Z)
          /\ DOMAIN Put(waits, b, Deadline) = DOMAIN waits \cup {b}
      BY <3>1, PartlyPut
    <3> QED
      BY <3>2 DEF Z
  <2> QED
    BY <1>3, <2>1
<1> HIDE DEF W
<1>9. M \in Partly({"tree", "branch"}) /\ DOMAIN M \subseteq DOMAIN terminals \cup {b}
      /\ (~awaits => DOMAIN M = DOMAIN terminals)
  <2> DEFINE v == IF treeOut THEN "tree" ELSE "branch"
  <2> DEFINE Endings == {"tree", "branch"}
  <2>1. v \in Endings /\ terminals \in Partly(Endings)
    BY <1>3
  <2> HIDE DEF v, Endings
  <2>2. Put(terminals, b, v) \in Partly(Endings)
        /\ DOMAIN Put(terminals, b, v) = DOMAIN terminals \cup {b}
    BY <2>1, PartlyPut
  <2>3. M = IF awaits /\ (treeOut \/ branchOut) THEN Put(terminals, b, v) ELSE terminals
    BY DEF v
  <2> QED
    BY <1>3, <2>2, <2>3 DEF Endings
<1> HIDE DEF M
<1>10. /\ p \in Handlers /\ p.tree = T /\ p.consumed = consumed + 1 /\ p.queue = queue
       /\ p.outstanding = outstanding /\ p.waits = W /\ p.terminals = M /\ p.emitted = <<>>
       /\ p.ok = TRUE
  <2>1. Handler(Current) /\ Current.queue = queue /\ Current.outstanding = outstanding
        /\ Current.emitted = <<>> /\ Current.ok = TRUE
    BY <1>1, CurrentFields
  <2>2. consumed + 1 \in Nat
    BY <1>3
  <2> QED
    BY <1>6, <1>8, <1>9, <2>1, <2>2 DEF Handler, Handlers
<1>11. [Current EXCEPT !.consumed = @ + 1, !.tree = T, !.waits = W, !.terminals = M] = p
  BY Zenon DEF Current
<1> HIDE DEF p
<1>12. Handler(p)
  BY <1>7, <1>10 DEF Handler
<1>13. /\ Handler(s) /\ s.tree = T /\ s.consumed = consumed + 1 /\ s.waits = W
       /\ s.terminals = M /\ s.emitted = <<>> /\ s.ok = TRUE
       /\ s.outstanding = outstanding \ {b} /\ ContinuesIn(s.queue) = Continues \ {b}
  BY <1>1, <1>10, <1>12, WithdrawFields, SMTT(30)
<1> HIDE DEF s
<1>14. ClosedBy(<<>>) = {}
  <2>1. DOMAIN <<>> = {}
    BY PartlyEmpty
  <2> QED
    BY <2>1 DEF ClosedBy
<1>15. s.consumed + Cardinality(s.outstanding) <= TotalBudget
  <2>1. IsFiniteSet(outstanding) /\ Cardinality(outstanding) \in Nat
    BY <1>3, ListsOfBranches, FS_CardinalityType
  <2>2. CASE b \in outstanding
    <3>1. Cardinality(outstanding \ {b}) = Cardinality(outstanding) - 1
      BY <2>1, <2>2, FS_RemoveElement
    <3> QED
      BY <1>1, <1>3, <1>4, <1>13, <2>1, <3>1
  <2>3. CASE b \notin outstanding
    <3>1. consumed = 0
      BY <1>1, <1>2, <2>3 DEF Held
    <3>2. outstanding = {}
      BY <1>1, <3>1 DEF Held, NothingAskedYet
    <3>3. Cardinality({}) = 0 /\ {} \ {b} = {}
      BY FS_EmptySet
    <3> QED
      BY <1>4, <1>13, <3>1, <3>2, <3>3
  <2> QED
    BY <2>2, <2>3
<1>16. Accounted(s, G)
  <2>1. s.outstanding = ContinuesIn(s.queue) \cup G
    BY <1>1, <1>13
  <2>2. \A c \in s.outstanding : Continuable(s, c) /\ c \in ActiveFrontier(s.tree)
    <3>1. \A c \in s.outstanding : c \in InForce \cup Continues /\ c # b /\ c \in Ids
      BY <1>1, <1>3, <1>13 DEF Held
    <3> QED
      BY <1>1, <1>6, <1>7, <1>8, <1>13, <3>1 DEF Continuable
  <2> QED
    BY <1>13, <1>14, <1>15, <2>1, <2>2 DEF Accounted
<1>17. Deferred(s)
  <2>1. \A c \in DOMAIN M : c \in DOMAIN terminals \/ (c = b /\ awaits)
    BY <1>2, <1>9
  <2>2. \A c \in DOMAIN terminals : c # b /\ c \in Ids
    BY <1>2, <1>3, PartlyEmpty
  <2> QED
    BY <1>1, <1>2, <1>6, <1>7, <1>8, <1>13, <2>1, <2>2 DEF Deferred
<1>18. /\ q.ok = TRUE /\ Accounted(q, G) /\ Deferred(q) /\ q.consumed = consumed + 1
  <2>1. CASE closes
    <3>1. ~awaits
      BY <2>1
    <3>2. b \notin DOMAIN s.terminals /\ b \in ActiveFrontier(s.tree)
      BY <1>2, <1>7, <1>9, <1>13, <3>1
    <3> QED
      BY <1>13, <1>16, <1>17, <2>1, <3>2, FinalizeAccounts
  <2>2. CASE ~closes
    BY <1>13, <1>16, <1>17, <2>2
  <2> QED
    BY <2>1, <2>2
<1>19. r \in Outcomes(q, e)
  BY <1>11, Zenon DEF Sampled, t, T, W, M, s, Current
<1>20. Starts(q, b)
  <2>1. s.queue = WithoutContinue(queue, b)
    BY <1>10, <1>12, WithdrawFields DEF s
  <2>2. q = s \/ (b \in ActiveFrontier(s.tree) /\ q = FinalizeBranch(s, b))
    BY <1>2, <1>7, <1>13
  <2> HIDE DEF q
  <2> QED
    BY <1>5, <1>6, <1>13, <2>1, <2>2 DEF Starts
<1> HIDE DEF q
<1>21. Recorded(q, e, G)
  <2>1. e.treeOut \in BOOLEAN /\ e.eos \in BOOLEAN
    <3>1. e.treeOut = (treeOut /\ ~awaits) /\ e.eos = eos
      OBVIOUS
    <3>2. (treeOut /\ ~awaits) \in BOOLEAN
      OBVIOUS
    <3> QED
      BY <1>4, <3>1, <3>2
  <2> HIDE DEF e, G
  <2> QED
    BY <1>18, <2>1 DEF Recorded
<1>22. q.consumed # 0
  BY <1>3, <1>18
<1>23. G = InForce \ {b}
  <2>1. consumed = 0 => InForce \subseteq {Root}
    BY <1>1 DEF NothingAskedYet, InForce
  <2> QED
    BY <1>2, <2>1 DEF Held
<1> HIDE DEF G, e
<1> QED
  BY <1>19, <1>20, <1>21, <1>22, <1>23 DEF Begins

\* A wait or a deferred ending forgotten.
LEMMA WithoutFields ==
  ASSUME NEW T, NEW f \in Partly(T), NEW b
  PROVE  Without(f, b) \in Partly(T) /\ DOMAIN Without(f, b) = DOMAIN f \ {b}
<1> DEFINE D == DOMAIN f \ {b}
<1>1. D \subseteq DOMAIN f
  OBVIOUS
<1> HIDE DEF D
<1>2. Restrict(f, D) \in Partly(T) /\ DOMAIN Restrict(f, D) = D
  BY <1>1, PartlyRestricted
<1>3. Without(f, b) = Restrict(f, D)
  BY DEF Without, D
<1> QED
  BY <1>2, <1>3 DEF D

\* The reservations of a scheduler between two events, when nothing but what is
\* recorded of some branches changed and b, if it had a reservation, gave it up.
LEMMA QuietAccounts ==
  ASSUME Quiet, NEW s, NEW b, Handler(s), ActiveFrontier(s.tree) = ActiveFrontier(tree),
         s.consumed = consumed, s.emitted = <<>>, s.tree.tokens = tree.tokens,
         DOMAIN s.waits \subseteq DOMAIN waits,
         s.outstanding = outstanding \ {b}, ContinuesIn(s.queue) = Continues \ {b}
  PROVE  Accounted(s, Held \ {b})
<1>1. /\ TypeInv /\ outstanding = Continues \cup Held
      /\ consumed + Cardinality(outstanding) <= TotalBudget
      /\ \A c \in InForce \cup Continues :
           /\ c \in ActiveFrontier(tree) /\ c \notin DOMAIN waits
           /\ tree.tokens[c] < PerBranchBudget
  BY QuietFacts
<1>2. ClosedBy(<<>>) = {}
  <2>1. DOMAIN <<>> = {}
    BY PartlyEmpty
  <2> QED
    BY <2>1 DEF ClosedBy
<1>3. s.consumed + Cardinality(s.outstanding) <= TotalBudget
  <2>1. IsFiniteSet(outstanding) /\ Cardinality(outstanding) \in Nat
    BY <1>1, ListsOfBranches, FS_CardinalityType DEF TypeInv
  <2>2. Cardinality(outstanding \ {b}) <= Cardinality(outstanding)
        /\ Cardinality(outstanding \ {b}) \in Nat
    <3>1. outstanding \ {b} \subseteq outstanding
      OBVIOUS
    <3> QED
      BY <2>1, <3>1, FS_Subset, FS_CardinalityType
  <2>3. consumed \in Nat /\ TotalBudget \in Nat
    <3>1. config \in Configs
      BY QuietFacts
    <3> QED
      BY <1>1, <3>1, ConfigFacts DEF TypeInv
  <2> QED
    BY <1>1, <2>1, <2>2, <2>3
<1>4. \A c \in s.outstanding : Continuable(s, c) /\ c \in ActiveFrontier(s.tree)
  BY <1>1 DEF Held, Continuable
<1> QED
  BY <1>1, <1>2, <1>3, <1>4 DEF Accounted

\* A branch the engine ended itself.
LEMMA ExhaustedBegins ==
  ASSUME Quiet, NEW b \in Ids, AcceptsExhausted(b), NEW r \in Exhausted(b)
  PROVE  \E q, e : /\ Begins(q, e, b, Held \ {b}) /\ r \in Outcomes(q, e)
                   /\ b \in Present(q.tree) /\ b \notin ActiveFrontier(q.tree)
                   /\ consumed = 0 => ActiveFrontier(q.tree) = {}
<1> DEFINE W == Without(waits, b)
           M == Without(terminals, b)
           p == [Current EXCEPT !.waits = W, !.terminals = M]
           s == Withdraw(p, b)
           q == FinalizeBranch(s, b)
           e == [kind |-> "exhausted", branch |-> b, eos |-> FALSE, treeOut |-> FALSE]
           G == Held \ {b}
<1>1. /\ config \in Configs /\ TypeInv /\ NothingAskedYet
      /\ \A c \in DOMAIN terminals :
           c \in DOMAIN waits /\ c \in ActiveFrontier(tree) /\ ~tree.hasValue[c]
      /\ Continues = ContinuesIn(queue)
  BY QuietFacts
<1>2. b \in ActiveFrontier(tree)
  BY DEF AcceptsExhausted, ActiveFrontier
<1>3. /\ W \in Partly(Int) /\ DOMAIN W = DOMAIN waits \ {b}
      /\ M \in Partly({"tree", "branch"}) /\ DOMAIN M = DOMAIN terminals \ {b}
  <2> DEFINE Z == Int
             Endings == {"tree", "branch"}
  <2>1. waits \in Partly(Z) /\ terminals \in Partly(Endings)
    BY <1>1 DEF TypeInv
  <2> HIDE DEF Z, Endings
  <2>2. /\ W \in Partly(Z) /\ DOMAIN W = DOMAIN waits \ {b}
        /\ M \in Partly(Endings) /\ DOMAIN M = DOMAIN terminals \ {b}
    BY <2>1, WithoutFields
  <2> QED
    BY <2>2 DEF Z, Endings
<1>4. /\ Handler(p) /\ p.tree = tree /\ p.consumed = consumed /\ p.queue = queue
      /\ p.outstanding = outstanding /\ p.waits = W /\ p.terminals = M /\ p.emitted = <<>>
      /\ p.ok = TRUE
  <2>1. /\ Handler(Current) /\ Current.tree = tree /\ Current.consumed = consumed
        /\ Current.queue = queue /\ Current.outstanding = outstanding
        /\ Current.emitted = <<>> /\ Current.ok = TRUE
    BY <1>1, CurrentFields
  <2> HIDE DEF W, M
  <2> QED
    BY <1>3, <2>1 DEF Handler, Handlers
<1>5. [Current EXCEPT !.waits = Without(@, b), !.terminals = Without(@, b)] = p
  BY Zenon DEF Current
<1> HIDE DEF p
<1>6. /\ Handler(s) /\ s.tree = tree /\ s.consumed = consumed /\ s.waits = W
      /\ s.terminals = M /\ s.emitted = <<>> /\ s.ok = TRUE
      /\ s.outstanding = outstanding \ {b} /\ ContinuesIn(s.queue) = Continues \ {b}
  <2>1. /\ Handler(s) /\ s.tree = p.tree /\ s.consumed = p.consumed /\ s.waits = p.waits
        /\ s.terminals = p.terminals /\ s.emitted = p.emitted /\ s.ok = p.ok
        /\ s.outstanding = p.outstanding \ {b}
        /\ ContinuesIn(s.queue) = ContinuesIn(p.queue) \ {b}
    BY <1>4, WithdrawFields
  <2> HIDE DEF W, M, s
  <2> QED
    BY <1>1, <1>4, <2>1
<1> HIDE DEF W, M, s
<1>7. Accounted(s, G)
  BY <1>3, <1>6, QuietAccounts
<1>8. Deferred(s)
  BY <1>1, <1>3, <1>6 DEF Deferred
<1>9. /\ q.ok = TRUE /\ Accounted(q, G) /\ Deferred(q) /\ q.consumed = consumed
      /\ q.waits = W /\ ActiveFrontier(q.tree) = ActiveFrontier(tree) \ {b}
      /\ b \in Present(q.tree)
  <2>1. b \in ActiveFrontier(s.tree) /\ b \notin DOMAIN s.terminals
    BY <1>2, <1>3, <1>6
  <2> HIDE DEF G
  <2> QED
    BY <1>6, <1>7, <1>8, <2>1, FinalizeAccounts
<1>10. r \in Outcomes(q, e)
  BY <1>5, Zenon DEF Exhausted, s
<1>11. Starts(q, b)
  <2>1. s.queue = WithoutContinue(queue, b)
    BY <1>4, WithdrawFields DEF s
  <2> HIDE DEF e, G
  <2> QED
    BY <1>2, <1>6, <2>1 DEF Starts
<1> HIDE DEF q
<1>12. Recorded(q, e, G)
  <2>1. e.treeOut \in BOOLEAN /\ e.eos \in BOOLEAN
    OBVIOUS
  <2> HIDE DEF e, G
  <2> QED
    BY <1>9, <2>1 DEF Recorded
<1> HIDE DEF e
<1>13. consumed = 0 => ActiveFrontier(q.tree) = {} /\ DOMAIN q.waits = {}
  BY <1>1, <1>2, <1>3, <1>9 DEF NothingAskedYet
<1> QED
  BY <1>9, <1>10, <1>11, <1>12, <1>13 DEF Begins

\* A value, whoever reports it.
LEMMA ValueBegins ==
  ASSUME Quiet, NEW b \in DOMAIN waits, NEW score \in Int, NEW r \in Scored(b, score)
  PROVE  \E q, e : Begins(q, e, b, InForce) /\ r \in Outcomes(q, e)
<1> DEFINE T == RecordValue(tree, b, score)
           W == Without(waits, b)
           M == Without(terminals, b)
           s == [Current EXCEPT !.tree = T, !.waits = W, !.terminals = M]
           due == IF b \in DOMAIN terminals THEN terminals[b] ELSE "none"
           q == IF due = "branch" THEN FinalizeBranch(s, b) ELSE s
           e == [kind |-> "value", branch |-> b, eos |-> FALSE, treeOut |-> due = "tree"]
<1>1. /\ config \in Configs /\ TypeInv /\ NothingAskedYet
      /\ outstanding = Continues \cup Held
      /\ \A c \in InForce \cup Continues : c \notin DOMAIN waits
      /\ \A c \in DOMAIN terminals :
           c \in DOMAIN waits /\ c \in ActiveFrontier(tree) /\ ~tree.hasValue[c]
      /\ Continues = ContinuesIn(queue)
  BY QuietFacts
<1>2. b \in Ids /\ TreeOK(tree) /\ consumed \in Nat
  BY <1>1, PartlyEmpty DEF TypeInv
<1>3. consumed # 0
  BY <1>1 DEF NothingAskedYet
<1>4. b \notin outstanding /\ b \notin Continues /\ Held \ {b} = InForce
  BY <1>1, <1>3 DEF Held
<1>5. /\ T \in Trees /\ T.state = tree.state /\ T.parent = tree.parent
      /\ T.depth = tree.depth /\ T.tokens = tree.tokens
      /\ \A c \in Ids \ {b} : T.hasValue[c] = tree.hasValue[c]
  BY <1>2, RecordValueFields
<1> HIDE DEF T
<1>6. TreeOK(T) /\ ActiveFrontier(T) = ActiveFrontier(tree)
  BY <1>2, <1>5, SameShape
<1>7. /\ W \in Partly(Int) /\ DOMAIN W = DOMAIN waits \ {b}
      /\ M \in Partly({"tree", "branch"}) /\ DOMAIN M = DOMAIN terminals \ {b}
  <2> DEFINE Z == Int
             Endings == {"tree", "branch"}
  <2>1. waits \in Partly(Z) /\ terminals \in Partly(Endings)
    BY <1>1 DEF TypeInv
  <2> HIDE DEF Z, Endings
  <2>2. /\ W \in Partly(Z) /\ DOMAIN W = DOMAIN waits \ {b}
        /\ M \in Partly(Endings) /\ DOMAIN M = DOMAIN terminals \ {b}
    BY <2>1, WithoutFields
  <2> QED
    BY <2>2 DEF Z, Endings
<1> HIDE DEF W, M
<1>8. /\ Handler(s) /\ s.tree = T /\ s.consumed = consumed /\ s.queue = queue
      /\ s.outstanding = outstanding /\ s.waits = W /\ s.terminals = M /\ s.emitted = <<>>
      /\ s.ok = TRUE
  <2>1. /\ Handler(Current) /\ Current.consumed = consumed
        /\ Current.queue = queue /\ Current.outstanding = outstanding
        /\ Current.emitted = <<>> /\ Current.ok = TRUE
    BY <1>1, CurrentFields
  <2> QED
    BY <1>5, <1>6, <1>7, <2>1 DEF Handler, Handlers
<1>9. [Current EXCEPT !.tree = RecordValue(@, b, score), !.waits = Without(@, b),
                      !.terminals = Without(@, b)] = s
  BY Zenon DEF Current, T, W, M
<1> HIDE DEF s
<1>10. Accounted(s, InForce)
  <2>1. s.outstanding = outstanding \ {b} /\ ContinuesIn(s.queue) = Continues \ {b}
    BY <1>1, <1>4, <1>8
  <2>2. DOMAIN s.waits \subseteq DOMAIN waits /\ ActiveFrontier(s.tree) = ActiveFrontier(tree)
        /\ s.tree.tokens = tree.tokens
    BY <1>5, <1>6, <1>7, <1>8
  <2> QED
    BY <1>4, <1>8, <2>1, <2>2, QuietAccounts
<1>11. Deferred(s)
  <2>1. \A c \in DOMAIN M : c \in DOMAIN terminals /\ c # b
    BY <1>7
  <2>2. \A c \in DOMAIN M : c \in Ids
    BY <1>7, PartlyEmpty
  <2> QED
    BY <1>1, <1>5, <1>6, <1>7, <1>8, <2>1, <2>2 DEF Deferred
<1>12. /\ q.ok = TRUE /\ Accounted(q, InForce) /\ Deferred(q) /\ q.consumed = consumed
  <2>1. CASE due = "branch"
    <3>1. b \in DOMAIN terminals
      BY <2>1
    <3>2. b \in ActiveFrontier(s.tree) /\ b \notin DOMAIN s.terminals
      BY <1>1, <1>6, <1>7, <1>8, <3>1
    <3> QED
      BY <1>8, <1>10, <1>11, <2>1, <3>2, FinalizeAccounts
  <2>2. CASE due # "branch"
    BY <1>8, <1>10, <1>11, <2>2
  <2> QED
    BY <2>1, <2>2
<1>13. r \in Outcomes(q, e)
  BY <1>9, Zenon DEF Scored, q, e, due
<1>14. Starts(q, b)
  <2>1. q = s \/ (b \in ActiveFrontier(s.tree) /\ q = FinalizeBranch(s, b))
    BY <1>1, <1>6, <1>8
  <2> HIDE DEF q
  <2> QED
    BY <1>5, <1>8, <2>1 DEF Starts
<1>15. Recorded(q, e, InForce)
  <2>1. e.treeOut \in BOOLEAN /\ e.eos \in BOOLEAN
    OBVIOUS
  <2> HIDE DEF e, q
  <2> QED
    BY <1>12, <2>1 DEF Recorded
<1> HIDE DEF q, e
<1> QED
  BY <1>3, <1>12, <1>13, <1>14, <1>15 DEF Begins

\* A grant that is over stays over: recording an event creates no branch and
\* makes none active.
LEMMA StartsOnward ==
  ASSUME Quiet, NEW q, NEW b, Starts(q, b)
  PROVE  Present(tree) \subseteq Present(q.tree)
         /\ \A c \in Present(tree) : c \in ActiveFrontier(q.tree) => c \in ActiveFrontier(tree)
<1>1. PICK s : /\ Handler(s) /\ s.tree.state = tree.state
               /\ q = s \/ (b \in ActiveFrontier(s.tree) /\ q = FinalizeBranch(s, b))
  BY DEF Starts
<1>2. Present(s.tree) = Present(tree) /\ ActiveFrontier(s.tree) = ActiveFrontier(tree)
  BY <1>1 DEF Present, ActiveFrontier
<1>3. CASE q = s
  BY <1>2, <1>3
<1>4. CASE b \in ActiveFrontier(s.tree) /\ q = FinalizeBranch(s, b)
  <2>1. Handling(s, q) /\ ActiveFrontier(q.tree) = ActiveFrontier(s.tree) \ {b}
    BY <1>1, <1>4, FinalizeSteps
  <2> QED
    BY <1>2, <2>1 DEF Handling, Evolves
<1> QED
  BY <1>1, <1>3, <1>4

\* What comes of an event is installed, with the grants that are left.
LEMMA EventKeeps ==
  ASSUME Quiet, NEW q, NEW e, NEW b, NEW G, Begins(q, e, b, G),
         NEW r \in Outcomes(q, e), NEW x, x = r \/ x = Tick(r), Install(x),
         NEW K \in SUBSET granted, granted' = K,
         Onward(q.tree, r.tree) =>
           ActiveFrontier(r.tree) \cap G = ActiveFrontier(r.tree) \cap (K \cap InForce)
  PROVE  IInv'
<1>1. Settled(q, r, G) /\ (q.consumed = 0 => ActiveFrontier(q.tree) = {} /\ DOMAIN q.waits = {})
  BY QuietFacts, OutcomesSettled DEF Begins
<1>2. ASSUME r.ok
      PROVE  /\ granted' \subseteq Present(tree')
             /\ ActiveFrontier(r.tree) \cap G = ActiveFrontier(tree') \cap granted'
  <2>1. x.tree = r.tree
    BY <1>1, <1>2, TickFields DEF Settled
  <2>2. tree' = r.tree
    BY <2>1 DEF Install
  <2>3. Onward(q.tree, r.tree)
    BY <1>1, <1>2 DEF Settled
  <2>4. K \subseteq Present(tree)
    BY QuietFacts DEF TypeInv
  <2>5. /\ Present(tree) \subseteq Present(q.tree)
        /\ \A c \in Present(tree) : c \in ActiveFrontier(q.tree) => c \in ActiveFrontier(tree)
    BY StartsOnward DEF Begins
  <2>6. Present(q.tree) \subseteq Present(r.tree)
        /\ \A c \in Present(q.tree) : c \in ActiveFrontier(r.tree) => c \in ActiveFrontier(q.tree)
    BY <2>3 DEF Onward
  <2>7. ActiveFrontier(r.tree) \cap (K \cap InForce) = ActiveFrontier(r.tree) \cap K
    BY <2>4, <2>5, <2>6 DEF InForce
  <2> QED
    BY <2>2, <2>3, <2>4, <2>5, <2>6, <2>7
<1> QED
  BY <1>1, <1>2, QuietFacts, InstallKeeps

LEMMA TokenKeeps ==
  ASSUME Quiet, NEW b \in Ids, NEW logprob \in Logprobs, NEW eos \in {FALSE, StopPossible},
         TokenSampled(b, logprob, eos)
  PROVE  IInv'
<1>1. PICK r \in Sampled(b, logprob, eos) : Install(Tick(r))
  BY DEF TokenSampled
<1> DEFINE K == granted \ {b}
           x == Tick(r)
<1>2. MaySample(b) /\ granted' = K
  BY DEF TokenSampled
<1>3. PICK q, e : Begins(q, e, b, InForce \ {b}) /\ r \in Outcomes(q, e)
  BY <1>2, TokenBegins
<1>4. Install(x) /\ x = Tick(r)
  BY <1>1
<1>5. K \in SUBSET granted /\ InForce \ {b} = K \cap InForce
  BY DEF InForce
<1> HIDE DEF K, x
<1> QED
  BY <1>2, <1>3, <1>4, <1>5, EventKeeps

\* A token that comes too late.
LEMMA RefusedKeeps ==
  ASSUME Quiet, NEW b \in Ids, TokenRefused(b)
  PROVE  IInv'
<1>1. /\ config' = config /\ tree' = tree /\ consumed' = consumed /\ queue' = queue
      /\ outstanding' = outstanding /\ waits' = waits /\ terminals' = terminals
      /\ failed' = failed /\ granted' = granted \ {b} /\ ~AcceptsToken(b) /\ b \in granted
  BY DEF TokenRefused, scheduler
<1>2. TypeInv /\ NothingAskedYet /\ consumed \in Nat
  BY QuietFacts DEF TypeInv
<1>3. Continues' = Continues /\ ActiveFrontier(tree)' = ActiveFrontier(tree)
  BY <1>1 DEF Continues, ActiveFrontier
<1>4. consumed # 0 => b \notin InForce
  <2> SUFFICES ASSUME consumed # 0, b \in InForce PROVE FALSE
    OBVIOUS
  <2>1. /\ b \in ActiveFrontier(tree) /\ b \notin DOMAIN waits
        /\ tree.tokens[b] < PerBranchBudget /\ b \in outstanding
        /\ consumed + Cardinality(outstanding) <= TotalBudget
    BY QuietFacts DEF Held
  <2>2. IsFiniteSet(outstanding) /\ Cardinality(outstanding) \in Nat /\ Cardinality(outstanding) # 0
    BY <1>2, <2>1, ListsOfBranches, FS_CardinalityType, FS_EmptySet DEF TypeInv
  <2>3. TotalBudget \in Nat
    BY QuietFacts, ConfigFacts
  <2>4. consumed < TotalBudget
    BY <1>2, <2>1, <2>2, <2>3
  <2> QED
    BY <1>1, <2>1, <2>4 DEF AcceptsToken, ActiveFrontier
<1>5. consumed # 0 => InForce' = InForce
  BY <1>1, <1>3, <1>4 DEF InForce
<1>6. InForce' \subseteq InForce
  BY <1>1, <1>3 DEF InForce
<1>7. TypeInv'
  BY <1>1, <1>2 DEF TypeInv, TreeOK, Present
<1>8. NothingAskedYet'
  BY <1>1, <1>2, <1>3 DEF NothingAskedYet
<1>9. ReservationsExact'
  BY <1>1, <1>3, <1>5 DEF Quiet, IInv, ReservationsExact, TotalBudget
<1>10. GrantsSound'
  BY <1>1, <1>3, <1>6 DEF Quiet, IInv, GrantsSound, PerBranchBudget
<1>11. DeferredEndingsAwaitAValue'
  BY <1>1 DEF Quiet, IInv, DeferredEndingsAwaitAValue
<1> QED
  BY <1>1, <1>7, <1>8, <1>9, <1>10, <1>11 DEF Quiet, IInv

LEMMA ExhaustedKeeps ==
  ASSUME Quiet, NEW b \in Ids, BranchExhausted(b)
  PROVE  IInv'
<1>1. PICK r \in Exhausted(b) : Install(Tick(r))
  BY DEF BranchExhausted
<1> DEFINE G == Held \ {b}
           x == Tick(r)
<1>2. AcceptsExhausted(b) /\ granted' = granted
  BY DEF BranchExhausted
<1>3. PICK q, e : /\ Begins(q, e, b, G) /\ r \in Outcomes(q, e)
                  /\ b \in Present(q.tree) /\ b \notin ActiveFrontier(q.tree)
                  /\ consumed = 0 => ActiveFrontier(q.tree) = {}
  BY <1>1, <1>2, ExhaustedBegins
<1>4. Install(x) /\ x = Tick(r)
  BY <1>1
<1>5. Onward(q.tree, r.tree) =>
        ActiveFrontier(r.tree) \cap G = ActiveFrontier(r.tree) \cap (granted \cap InForce)
  BY <1>3 DEF Onward, Held, InForce
<1> HIDE DEF G, x
<1> QED
  BY <1>2, <1>3, <1>4, <1>5, EventKeeps

LEMMA ScoredKeeps ==
  ASSUME Quiet, NEW b \in Ids, NEW score \in Scores, ValueScored(b, score)
  PROVE  IInv'
<1>1. PICK r \in Scored(b, score) : Install(Tick(r))
  BY DEF ValueScored
<1>2. b \in DOMAIN waits /\ score \in Int /\ granted' = granted
  BY BranchSchedulerAssumption DEF ValueScored, AcceptsValue
<1>3. PICK q, e : Begins(q, e, b, InForce) /\ r \in Outcomes(q, e)
  BY <1>1, <1>2, ValueBegins
<1> DEFINE x == Tick(r)
<1>4. Install(x) /\ x = Tick(r) /\ InForce = granted \cap InForce
  BY <1>1 DEF InForce
<1> HIDE DEF x
<1> QED
  BY <1>2, <1>3, <1>4, EventKeeps

\* The score that stands in for one that did not come in time.
LEMMA ExpiredScore ==
  ASSUME Quiet, ResolveExpired
  PROVE  \E b, score, r : /\ b \in DOMAIN waits /\ score \in Int
                         /\ r \in Scored(b, score) /\ Install(r)
<1> DEFINE b == Min(Expired)
           score == tree.logprob[b]
<1>1. b \in Expired
  <2>1. Expired # {} /\ DOMAIN waits \in SUBSET Ids
    BY QuietFacts, PartlyEmpty DEF ResolveExpired, TypeInv
  <2>2. Expired \in SUBSET Nat
    BY <2>1, IdsFinite DEF Expired
  <2>3. \E y \in Expired : \A z \in Expired : y <= z
    BY <2>1, <2>2, MinExists
  <2> QED
    BY <2>3 DEF Min
<1>2. PICK r \in Scored(b, score) : Install(r)
  BY DEF ResolveExpired
<1> HIDE DEF b
<1>3. b \in DOMAIN waits /\ b \in Ids
  BY <1>1, QuietFacts, PartlyEmpty DEF Expired, TypeInv
<1>4. score \in Int
  <2>1. tree \in Trees
    BY QuietFacts DEF TypeInv, TreeOK
  <2> QED
    BY <1>3, <2>1, TreeFields
<1> HIDE DEF score
<1> QED
  BY <1>2, <1>3, <1>4

LEMMA ExpiredKeeps ==
  ASSUME Quiet, ResolveExpired
  PROVE  IInv'
<1>1. PICK b, score, r : /\ b \in DOMAIN waits /\ score \in Int
                         /\ r \in Scored(b, score) /\ Install(r)
  BY ExpiredScore
<1>2. PICK q, e : Begins(q, e, b, InForce) /\ r \in Outcomes(q, e)
  BY <1>1, ValueBegins
<1>3. granted' = granted /\ InForce = granted \cap InForce
  BY DEF ResolveExpired, InForce
<1> QED
  BY <1>1, <1>2, <1>3, EventKeeps

\* The driver takes the queue.
LEMMA PollKeeps ==
  ASSUME Quiet, Poll
  PROVE  IInv'
<1>1. /\ config \in Configs /\ TypeInv /\ NothingAskedYet
      /\ outstanding = Continues \cup Held /\ consumed + Cardinality(outstanding) <= TotalBudget
      /\ \A b \in InForce \cup Continues :
           /\ b \in ActiveFrontier(tree) /\ b \notin DOMAIN waits
           /\ tree.tokens[b] < PerBranchBudget
      /\ \A b \in DOMAIN terminals :
           b \in DOMAIN waits /\ b \in ActiveFrontier(tree) /\ ~tree.hasValue[b]
  BY QuietFacts
<1>2. /\ queue' = <<>> /\ config' = config /\ tree' = tree /\ consumed' = consumed
      /\ outstanding' = outstanding /\ waits' = waits /\ terminals' = terminals
      /\ granted' = granted \cup Continues
  BY DEF Poll, TakeQueue
<1>3. Continues' = {}
  <2>1. DOMAIN <<>> = {}
    BY PartlyEmpty
  <2> QED
    BY <1>2, <2>1 DEF Continues
<1>4. /\ granted' \in SUBSET Present(tree) /\ <<>> \in Seq(CommandSet)
      /\ InForce' = InForce \cup Continues
  BY <1>1, <1>2 DEF ActiveFrontier, InForce, TypeInv, Present
<1>5. TypeInv'
  <2>1. TreeOK(tree)'
    BY <1>1, <1>2 DEF TypeInv, TreeOK, Present
  <2> QED
    BY <1>1, <1>2, <1>4, <2>1 DEF TypeInv
<1>6. NothingAskedYet'
  <2>1. ActiveFrontier(tree)' = ActiveFrontier(tree)
    BY <1>2 DEF ActiveFrontier
  <2> QED
    BY <1>1, <1>2, <1>3, <2>1 DEF NothingAskedYet
<1>7. ReservationsExact'
  <2>1. TotalBudget' = TotalBudget
    BY <1>2 DEF TotalBudget
  <2>2. outstanding' = Continues' \cup (IF consumed' = 0 THEN {} ELSE InForce')
    BY <1>1, <1>2, <1>3, <1>4 DEF Held, NothingAskedYet
  <2> QED
    BY <1>1, <1>2, <2>1, <2>2 DEF ReservationsExact
<1>8. GrantsSound'
  <2>1. PerBranchBudget' = PerBranchBudget
    BY <1>2 DEF PerBranchBudget
  <2> QED
    BY <1>1, <1>2, <1>3, <1>4, <2>1 DEF GrantsSound, ActiveFrontier
<1>9. DeferredEndingsAwaitAValue'
  BY <1>1, <1>2 DEF DeferredEndingsAwaitAValue, ActiveFrontier
<1> QED
  BY <1>1, <1>2, <1>5, <1>6, <1>7, <1>8, <1>9 DEF IInv

\* The caller drains the search.
LEMMA DrainKeeps ==
  ASSUME Quiet, Drain
  PROVE  IInv'
<1> DEFINE k == Terminate(Current)
           f == ForgetPending(k)
           s == [f EXCEPT !.outstanding = {}]
           x == Enqueue(s)
<1>1. /\ config \in Configs /\ TypeInv
      /\ outstanding = Continues \cup Held /\ consumed + Cardinality(outstanding) <= TotalBudget
      /\ \A b \in Continues : b \in ActiveFrontier(tree)
      /\ Continues = ContinuesIn(queue)
  BY QuietFacts
<1>2. /\ Handler(Current) /\ Current.tree = tree /\ Current.consumed = consumed
      /\ Current.queue = queue /\ Current.emitted = <<>> /\ Current.ok = TRUE
  BY <1>1, CurrentFields
<1>3. Handling(Current, k) /\ k.ok = TRUE /\ ActiveFrontier(k.tree) = {}
  BY <1>2, TerminateHandling
<1>4. /\ Handler(k) /\ k.consumed = consumed /\ k.queue = queue
      /\ Continues \subseteq ClosedBy(k.emitted)
  <2>1. PICK C \in SUBSET Ids :
          /\ Evolves(tree, k.tree, C)
          /\ ClosedBy(k.emitted) = ClosedBy(Current.emitted) \cup C
    BY <1>2, <1>3 DEF Handling
  <2>2. Continues \subseteq C
    BY <1>1, <1>3, <2>1 DEF Evolves, ActiveFrontier
  <2> QED
    BY <1>2, <1>3, <2>1, <2>2 DEF Handling
<1> HIDE DEF k
<1>5. /\ Handler(f) /\ f.tree = k.tree /\ f.consumed = consumed /\ f.queue = queue
      /\ f.emitted = k.emitted /\ f.ok = TRUE /\ DOMAIN f.waits = {} /\ DOMAIN f.terminals = {}
  BY <1>3, <1>4, ForgetFields
<1> HIDE DEF f
<1>6. /\ Handler(s) /\ s.tree = k.tree /\ s.consumed = consumed /\ s.queue = queue
      /\ s.outstanding = {} /\ s.emitted = k.emitted /\ s.ok = TRUE
      /\ DOMAIN s.waits = {} /\ DOMAIN s.terminals = {}
  BY <1>5 DEF Handler, Handlers
<1>7. [ForgetPending(Terminate(Current)) EXCEPT !.outstanding = {}] = s
  BY Zenon DEF f, k
<1> HIDE DEF s
<1> DEFINE G == {}
<1>8. /\ Handler(x) /\ x.tree = s.tree /\ x.consumed = s.consumed /\ x.waits = s.waits
      /\ x.terminals = s.terminals /\ x.ok = s.ok
      /\ x.outstanding = ContinuesIn(x.queue) \cup (G \ ClosedBy(s.emitted))
      /\ x.consumed + Cardinality(x.outstanding) <= TotalBudget
      /\ \A b \in x.outstanding : Continuable(x, b) /\ b \in ActiveFrontier(x.tree)
  <2>1. s.consumed + Cardinality(s.outstanding) <= TotalBudget
    <3>1. Cardinality({}) = 0 /\ TotalBudget \in Nat /\ consumed \in Nat
      BY <1>1, ConfigFacts, FS_EmptySet DEF TypeInv
    <3>2. IsFiniteSet(outstanding) /\ Cardinality(outstanding) \in Nat
      BY <1>1, ListsOfBranches, FS_CardinalityType DEF TypeInv
    <3> QED
      BY <1>1, <1>6, <3>1, <3>2
  <2>2. /\ s.outstanding \subseteq ContinuesIn(s.queue) \cup G
        /\ ContinuesIn(s.queue) \cup G \subseteq s.outstanding \cup ClosedBy(s.emitted)
    BY <1>1, <1>4, <1>6
  <2>3. /\ \A b \in s.outstanding :
             /\ Continuable(s, b)
             /\ b \in ActiveFrontier(s.tree) \/ b \in ClosedBy(s.emitted)
        /\ \A b \in ClosedBy(s.emitted) : b \notin ActiveFrontier(s.tree)
    BY <1>3, <1>6
  <2> HIDE DEF G
  <2> QED
    BY <1>1, <1>6, <2>1, <2>2, <2>3, EnqueueReserves, SMTT(30)
<1>9. Install(x) /\ granted' = granted
  <2>1. /\ Install(Enqueue([ForgetPending(Terminate(Current)) EXCEPT !.outstanding = {}]))
        /\ granted' = granted
    BY DEF Drain
  <2> QED
    BY <1>7, <2>1, Zenon
<1> HIDE DEF x
<1>10. Settled(s, x, G)
  <2>1. Deferred(x) /\ Onward(s.tree, x.tree)
    BY <1>6, <1>8 DEF Deferred, Onward
  <2>2. x.ok = TRUE /\ "ok" \in DOMAIN x
    BY <1>6, <1>8 DEF Handler, Handlers
  <2>3. x.outstanding = ContinuesIn(x.queue) \cup (G \cap ActiveFrontier(x.tree))
    BY <1>8
  <2> QED
    BY <1>8, <2>1, <2>2, <2>3 DEF Settled
<1>11. ActiveFrontier(s.tree) = {} /\ DOMAIN s.waits = {} /\ ActiveFrontier(x.tree) = {}
  BY <1>3, <1>6, <1>8
<1>12. tree' = x.tree
  BY <1>9 DEF Install
<1>13. /\ ActiveFrontier(x.tree) \cap G = ActiveFrontier(tree') \cap granted'
       /\ granted' \subseteq Present(tree')
  <2>1. Present(tree) \subseteq Present(k.tree)
    BY <1>2, <1>3 DEF Handling, Evolves
  <2> QED
    BY <1>1, <1>6, <1>8, <1>9, <1>11, <1>12, <2>1 DEF TypeInv
<1> HIDE DEF G
<1> QED
  BY <1>1, <1>9, <1>10, <1>11, <1>12, <1>13, InstallKeeps

\* The invariant of BranchScheduler: from the initial state on, whatever the
\* policy decides and whenever the driver does what, so long as the search has
\* not failed.
THEOREM SchedulerInvariant == Spec => []IInv
<1>1. IInv /\ [Next]_vars => IInv'
  <2> SUFFICES ASSUME IInv, [Next]_vars PROVE IInv'
    OBVIOUS
  <2>1. CASE UNCHANGED vars
    <3>1. /\ tree' = tree /\ config' = config /\ consumed' = consumed /\ queue' = queue
          /\ outstanding' = outstanding /\ waits' = waits /\ terminals' = terminals
          /\ failed' = failed /\ granted' = granted
      BY <2>1 DEF vars, scheduler
    <3>2. (~failed => TypeInv /\ NothingAskedYet)'
      BY <3>1 DEF IInv, TypeInv, TreeOK, Present, NothingAskedYet, ActiveFrontier, Continues
    <3>3. (ReservationsExact /\ GrantsSound /\ DeferredEndingsAwaitAValue)'
      BY <3>1 DEF IInv, ReservationsExact, GrantsSound, DeferredEndingsAwaitAValue,
        Continues, InForce, ActiveFrontier, TotalBudget, PerBranchBudget
    <3> QED
      BY <3>1, <3>2, <3>3 DEF IInv
  <2>2. CASE Next
    <3>1. Quiet
      BY <2>2 DEF Quiet, Next, Tokens, Values, TokenSampled, MaySample, TokenRefused, BranchExhausted,
        ValueScored, ResolveExpired, Poll, Drain, Idle
    <3>2. CASE Tokens
      BY <3>1, <3>2, TokenKeeps DEF Tokens
    <3>3. CASE \E b \in Ids : BranchExhausted(b)
      BY <3>1, <3>3, ExhaustedKeeps
    <3>4. CASE Values
      BY <3>1, <3>4, ScoredKeeps DEF Values
    <3>5. CASE ResolveExpired
      BY <3>1, <3>5, ExpiredKeeps
    <3>6. CASE Poll
      BY <3>1, <3>6, PollKeeps
    <3>7. CASE Drain
      BY <3>1, <3>7, DrainKeeps
    <3>8. CASE \E b \in Ids : TokenRefused(b)
      BY <3>1, <3>8, RefusedKeeps
    <3> QED
      BY <2>2, <3>2, <3>3, <3>4, <3>5, <3>6, <3>7, <3>8 DEF Next
  <2> QED
    BY <2>1, <2>2
<1> QED
  BY <1>1, InitIInv, PTL DEF Spec

\* A budget unit is reserved for exactly the branches the driver was told to
\* continue and has not answered for, and all reservations fit the budget.
THEOREM ReservationsAreExact == Spec => []ReservationsExact
<1>1. IInv => ReservationsExact
  BY DEF IInv
<1> QED
  BY <1>1, SchedulerInvariant, PTL

\* A token that is fed for a Continue, however late, is refused only if the
\* branch was closed or forked in the meantime: no value is awaited for it,
\* and the unit reserved for it is left in both budgets.
THEOREM OnlyOverRefused == Spec => []RefusedOnlyWhenOver
<1>1. IInv => RefusedOnlyWhenOver
  <2> SUFFICES ASSUME IInv, ~failed, NEW b \in granted \cup Continues, tree.state[b] = "active"
               PROVE  AcceptsToken(b)
    BY DEF RefusedOnlyWhenOver
  <2>1. /\ config \in Configs /\ TypeInv /\ NothingAskedYet
        /\ outstanding = Continues \cup Held /\ consumed + Cardinality(outstanding) <= TotalBudget
        /\ \A c \in InForce \cup Continues :
             /\ c \in ActiveFrontier(tree) /\ c \notin DOMAIN waits
             /\ tree.tokens[c] < PerBranchBudget
    BY QuietFacts DEF Quiet
  <2>2. b \in InForce \cup Continues
    BY <2>1 DEF InForce, ActiveFrontier, TypeInv, Present
  <2>3. consumed < TotalBudget
    <3>1. TotalBudget \in Nat \ {0} /\ consumed \in Nat
      BY <2>1, ConfigFacts DEF TypeInv
    <3>2. CASE consumed = 0
      BY <3>1, <3>2
    <3>3. CASE consumed # 0
      <4>1. b \in outstanding
        BY <2>1, <2>2, <3>3 DEF Held
      <4>2. Cardinality(outstanding) \in Nat \ {0}
        BY <2>1, <4>1, ListsOfBranches, FS_CardinalityType, FS_EmptySet DEF TypeInv
      <4> QED
        BY <2>1, <3>1, <4>2
    <3> QED
      BY <3>2, <3>3
  <2> QED
    BY <2>1, <2>2, <2>3 DEF AcceptsToken
<1> QED
  BY <1>1, SchedulerInvariant, PTL

\* A branch whose ending is deferred is active and waits for its value.
THEOREM DeferredEndingsAwait == Spec => []DeferredEndingsAwaitAValue
<1>1. IInv => DeferredEndingsAwaitAValue
  BY DEF IInv
<1> QED
  BY <1>1, SchedulerInvariant, PTL

-----------------------------------------------------------------------------
(* Ancestors.                                                              *)

\* The ancestors of b are older, those of an ancestor are ancestors, and of two
\* ancestors the older is one of the younger.
LineOf(t, b) ==
  /\ Ancestors(t, b) \subseteq Ids
  /\ \A a \in Ancestors(t, b) : a < b /\ Ancestors(t, a) \subseteq Ancestors(t, b)
  /\ \A a, x \in Ancestors(t, b) : a < x => a \in Ancestors(t, x)

LEMMA AncestorsLine ==
  ASSUME NEW t, TreeOK(t), NEW b \in Ids
  PROVE  LineOf(t, b)
<1> DEFINE N == MaxTotalBranches - 1
           Good == {k \in 0 .. N : \A c \in 0 .. k : LineOf(t, c)}
<1>1. N \in Nat /\ Ids = 0 .. N /\ Root = 0
  BY BranchTreeAssumption DEF Ids, Root
<1> HIDE DEF N
<1>2. \A c \in Ids : Ancestors(t, c) =
        IF c = Root THEN {} ELSE {t.parent[c]} \cup Ancestors(t, t.parent[c])
  BY AncestorsStep
<1>3. \A c \in Ids \ {Root} : t.parent[c] \in Ids /\ t.parent[c] < c
  BY TreeFields DEF TreeOK
<1>4. 0 \in Good
  <2>1. LineOf(t, 0)
    BY <1>1, <1>2 DEF LineOf
  <2>2. \A c \in 0 .. 0 : c = 0
    OBVIOUS
  <2> QED
    BY <1>1, <2>1, <2>2
<1>5. ASSUME NEW k \in 0 .. N - 1, k \in Good PROVE k + 1 \in Good
  <2>1. k + 1 \in Ids \ {Root} /\ k + 1 \in 0 .. N
    BY <1>1
  <2> DEFINE c == k + 1
             p == t.parent[c]
  <2>2. p \in Ids /\ p < c /\ p \in 0 .. k
    BY <1>1, <1>3, <2>1
  <2>3. LineOf(t, p)
    BY <1>5, <2>2
  <2>4. Ancestors(t, c) = {p} \cup Ancestors(t, p)
    BY <1>1, <1>2, <2>1
  <2>5. c \in Int
    BY <2>1
  <2> HIDE DEF c, p
  <2>6. \A a \in Ancestors(t, p) : a \in Int /\ a < p /\ a < c
    BY <1>1, <2>2, <2>3, <2>5 DEF LineOf
  <2>7. LineOf(t, c)
    <3>1. Ancestors(t, c) \subseteq Ids
      BY <2>2, <2>3, <2>4 DEF LineOf
    <3>2. \A a \in Ancestors(t, c) : a < c /\ Ancestors(t, a) \subseteq Ancestors(t, c)
      BY <2>2, <2>3, <2>4, <2>6 DEF LineOf
    <3>3. \A a, x \in Ancestors(t, c) : a < x => a \in Ancestors(t, x)
      <4> SUFFICES ASSUME NEW a \in Ancestors(t, c), NEW x \in Ancestors(t, c), a < x
                   PROVE  a \in Ancestors(t, x)
        OBVIOUS
      <4>1. a \in Int /\ x \in Int /\ p \in Int
        BY <1>1, <2>2, <3>1
      <4>2. a # p
        BY <2>4, <2>6, <4>1
      <4>3. a \in Ancestors(t, p)
        BY <2>4, <4>2
      <4> QED
        BY <2>3, <2>4, <4>3 DEF LineOf
    <3> QED
      BY <3>1, <3>2, <3>3 DEF LineOf
  <2>8. \A x \in 0 .. k + 1 : x = c \/ x \in 0 .. k
    BY <2>1 DEF c
  <2> QED
    BY <1>5, <2>1, <2>7, <2>8
<1>6. b \in 0 .. N /\ N \in Good
  <2>1. \A k \in 0 .. N - 1 : k \in Good => k + 1 \in Good
    BY <1>5
  <2> HIDE DEF Good
  <2>2. 0 .. N \subseteq Good
    BY <1>1, <1>4, <2>1, IntervalInduction
  <2> QED
    BY <1>1, <2>2
<1> QED
  BY <1>6

\* The ancestors depend on the parents only.
LEMMA SameAncestors ==
  ASSUME NEW t, NEW u, u.parent = t.parent
  PROVE  \A b : Ancestors(u, b) = Ancestors(t, b)
BY DEF Ancestors

-----------------------------------------------------------------------------
(* A whole tree.                                                           *)

\* The parent of a live branch is expanded, and one level up.
Linked(t) ==
  \A c \in Present(t) \ {Root} :
    /\ IsLive(t, c) => t.state[t.parent[c]] = "expanded"
    /\ t.depth[c] = t.depth[t.parent[c]] + 1

\* The expanded branches without a live child.
Barren(t) ==
  {b \in Ids : t.state[b] = "expanded" /\ \A c \in Children(t, b) : ~IsLive(t, c)}

\* They are to be reclaimed, above the branches of D.
Whole(t, D) ==
  /\ TreeOK(t) /\ Linked(t)
  /\ \A b \in Barren(t) : \E d \in D : b \in Ancestors(t, d)

\* Finalized branches stay finalized.
Lasting(t, u) ==
  \A b \in Ids : t.state[b] = "finalized" => u.state[b] = "finalized"

\* An ancestor of a live branch has a live child.
LEMMA LiveBelow ==
  ASSUME NEW t, TreeOK(t), Linked(t), NEW b \in Ids, IsLive(t, b)
  PROVE  \A a \in Ancestors(t, b) : \E c \in Children(t, a) : IsLive(t, c)
<1> DEFINE N == MaxTotalBranches - 1
           P(c) == IsLive(t, c) => \A a \in Ancestors(t, c) :
                                     \E x \in Children(t, a) : IsLive(t, x)
           Good == {k \in 0 .. N : \A c \in 0 .. k : P(c)}
<1>1. N \in Nat /\ Ids = 0 .. N /\ Root = 0
  BY BranchTreeAssumption DEF Ids, Root
<1> HIDE DEF N
<1>2. \A c \in Ids : Ancestors(t, c) =
        IF c = Root THEN {} ELSE {t.parent[c]} \cup Ancestors(t, t.parent[c])
  BY AncestorsStep
<1>3. \A c \in Ids \ {Root} : t.parent[c] \in Ids /\ t.parent[c] < c
  BY TreeFields DEF TreeOK
<1>4. \A c \in Ids \ {Root} : IsLive(t, c) => c \in Children(t, t.parent[c])
                                             /\ IsLive(t, t.parent[c])
  BY DEF Linked, IsLive, Children, Present
<1>5. 0 \in Good
  <2>1. P(0)
    BY <1>1, <1>2
  <2>2. \A c \in 0 .. 0 : c = 0
    OBVIOUS
  <2> HIDE DEF P
  <2> QED
    BY <1>1, <2>1, <2>2
<1>6. ASSUME NEW k \in 0 .. N - 1, k \in Good PROVE k + 1 \in Good
  <2> DEFINE c == k + 1
             p == t.parent[c]
  <2>1. c \in Ids \ {Root} /\ c \in 0 .. N /\ c \in Int
    BY <1>1
  <2>2. p \in 0 .. k
    BY <1>1, <1>3, <2>1
  <2>3. P(p)
    <3> HIDE DEF P
    <3> QED
      BY <1>6, <2>2
  <2>4. \A x \in 0 .. k + 1 : x = c \/ x \in 0 .. k
    BY <2>1
  <2> HIDE DEF c
  <2>5. P(c)
    BY <1>2, <1>4, <2>1, <2>3
  <2> HIDE DEF P
  <2> QED
    BY <1>6, <2>1, <2>4, <2>5 DEF c
<1>7. b \in 0 .. N /\ N \in Good
  <2>1. \A k \in 0 .. N - 1 : k \in Good => k + 1 \in Good
    BY <1>6
  <2> HIDE DEF Good
  <2>2. 0 .. N \subseteq Good
    BY <1>1, <1>5, <2>1, IntervalInduction
  <2> QED
    BY <1>1, <2>2
<1>8. P(b)
  <2> HIDE DEF P
  <2> QED
    BY <1>7
<1> QED
  BY <1>8

\* Branches of the frontier are closed.
LEMMA CutWhole ==
  ASSUME NEW t, NEW D, Whole(t, D), NEW S, S \subseteq ActiveFrontier(t), NEW u,
         TreeOK(u), u.parent = t.parent, u.depth = t.depth,
         \A b \in Ids \ S : u.state[b] = t.state[b],
         \A b \in S : u.state[b] \in {"killed", "finalized"}
  PROVE  Whole(u, D \cup S) /\ Lasting(t, u)
<1>1. \A b \in S : b \in Ids /\ t.state[b] = "active" /\ IsTerminal(u, b)
  BY DEF ActiveFrontier, IsTerminal
<1>2. Present(u) = Present(t)
  BY <1>1 DEF Present
<1>3. \A c \in Present(t) \ {Root} : c \in Ids /\ t.parent[c] \in Ids /\ t.parent[c] \notin S
  BY <1>1, TreeFields DEF Whole, TreeOK, Present
<1>4. \A b : Ancestors(u, b) = Ancestors(t, b)
  BY SameAncestors
<1>5. Linked(u)
  <2> SUFFICES ASSUME NEW c \in Present(t) \ {Root}
               PROVE  /\ IsLive(u, c) => u.state[t.parent[c]] = "expanded"
                      /\ t.depth[c] = t.depth[t.parent[c]] + 1
    BY <1>2 DEF Linked
  <2>1. IsLive(u, c) => IsLive(t, c)
    BY <1>1, <1>3 DEF IsLive, IsTerminal
  <2> QED
    BY <1>3, <2>1 DEF Whole, Linked
<1>6. ASSUME NEW b \in Barren(u) PROVE \E d \in D \cup S : b \in Ancestors(u, d)
  <2>1. b \in Ids /\ u.state[b] = "expanded" /\ t.state[b] = "expanded"
    BY <1>1 DEF Barren
  <2>2. CASE b \in Barren(t)
    BY <1>4, <2>2 DEF Whole
  <2>3. CASE b \notin Barren(t)
    <3>1. PICK c \in Children(t, b) : IsLive(t, c)
      BY <2>1, <2>3 DEF Barren
    <3>2. c \in Ids \ {Root} /\ t.state[c] # "absent" /\ t.parent[c] = b
      BY <3>1 DEF Children
    <3>3. c \in S
      <4> SUFFICES ASSUME c \notin S PROVE FALSE
        OBVIOUS
      <4>1. c \in Children(u, b) /\ IsLive(u, c)
        BY <3>1, <3>2 DEF Children, IsLive
      <4> QED
        BY <4>1 DEF Barren
    <3>4. b \in Ancestors(t, c)
      BY <3>2, AncestorsStep DEF Whole
    <3> QED
      BY <1>4, <3>3, <3>4
  <2> QED
    BY <2>2, <2>3
<1>7. Lasting(t, u)
  BY <1>1 DEF Lasting
<1> QED
  BY <1>5, <1>6, <1>7 DEF Whole

\* Reclaiming above a closed branch leaves nothing to reclaim there.
LEMMA ReclaimWhole ==
  ASSUME NEW t, NEW D, Whole(t, D), NEW b \in Present(t)
  PROVE  LET u == Kill(t, Reclaimed(t, b))
         IN Whole(u, D \ {b}) /\ Lasting(t, u)
<1> DEFINE R == Reclaimed(t, b)
           u == Kill(t, R)
           above == Ancestors(t, b)
           Done(a) == \A c \in Children(t, a) : IsTerminal(t, c) \/ c \in above
<1>1. TreeOK(t) /\ Linked(t) /\ b \in Ids
  BY DEF Whole, Present
<1>2. LineOf(t, b) /\ above \subseteq Ids
  BY <1>1, AncestorsLine DEF LineOf
<1>3. R = {a \in above : IsLive(t, a) /\ \A x \in above : x >= a /\ IsLive(t, x) => Done(x)}
  BY DEF Reclaimed
<1> HIDE DEF R, above, Done
<1>4. R \subseteq Present(t) /\ R \subseteq above
  BY <1>2, <1>3 DEF Present, IsLive
<1>5. /\ \A c \in Ids : u.state[c] = IF c \in R THEN "killed" ELSE t.state[c]
      /\ u.parent = t.parent /\ u.depth = t.depth
  BY <1>1, KillFields
<1>6. TreeOK(u)
  BY <1>1, <1>4, KillEvolves DEF Evolves
<1> HIDE DEF u
<1>7. \A c : Ancestors(u, c) = Ancestors(t, c)
  BY <1>5, SameAncestors
<1>8. Present(u) = Present(t)
  BY <1>4, <1>5 DEF Present
<1>9. \A c \in Present(t) \ {Root} :
        /\ c \in Ids \ {Root} /\ t.parent[c] \in Ids /\ t.parent[c] < c
        /\ t.parent[c] \in Ancestors(t, c)
  BY <1>1, TreeFields, AncestorsStep DEF TreeOK, Present
<1>10. \A c \in Ids : IsLive(u, c) => IsLive(t, c) /\ c \notin R
  BY <1>5 DEF IsLive
<1>11. ASSUME NEW c \in Present(t) \ {Root}, IsLive(u, c) PROVE t.parent[c] \notin R
  <2> SUFFICES ASSUME t.parent[c] \in R PROVE FALSE
    OBVIOUS
  <2> DEFINE a == t.parent[c]
  <2>1. /\ a \in above /\ IsLive(t, a) /\ a \in Ids /\ a < c /\ c \in Ids \ {Root}
        /\ \A x \in above : x >= a /\ IsLive(t, x) => Done(x)
    BY <1>3, <1>9
  <2>2. IsLive(t, c) /\ c \notin R /\ c \in Children(t, a)
    BY <1>9, <1>10, <1>11 DEF Children, Present
  <2> HIDE DEF a
  <2>3. a \in Int /\ c \in Int /\ a >= a
    <3>1. a \in Nat /\ c \in Nat
      BY <2>1, IdsFinite
    <3> QED
      BY <3>1
  <2>4. Done(a)
    BY <2>1, <2>3
  <2>5. c \in above
    BY <2>2, <2>4 DEF Done, IsTerminal, IsLive
  <2>6. \A x \in above : x >= c => x >= a
    <3>1. \A x \in above : x \in Nat
      BY <1>2, IdsFinite
    <3> QED
      BY <2>1, <2>3, <3>1
  <2>7. c \in R
    BY <1>3, <2>1, <2>2, <2>5, <2>6
  <2> QED
    BY <2>2, <2>7
<1>12. Linked(u)
  <2> SUFFICES ASSUME NEW c \in Present(t) \ {Root}
               PROVE  /\ IsLive(u, c) => u.state[t.parent[c]] = "expanded"
                      /\ t.depth[c] = t.depth[t.parent[c]] + 1
    BY <1>5, <1>8 DEF Linked
  <2> QED
    BY <1>1, <1>5, <1>9, <1>10, <1>11 DEF Linked
<1>13. ASSUME NEW a \in above, u.state[a] = "expanded"
       PROVE  \E c \in Children(u, a) : IsLive(u, c)
  <2>1. a \in Ids /\ a \notin R /\ IsLive(t, a)
    BY <1>2, <1>5, <1>13 DEF IsLive
  <2>2. PICK x \in above : x >= a /\ IsLive(t, x) /\ ~Done(x)
    BY <1>3, <2>1
  <2>3. PICK c \in Children(t, x) : ~IsTerminal(t, c) /\ c \notin above
    BY <2>2 DEF Done
  <2>4. c \in Ids \ {Root} /\ t.state[c] # "absent" /\ t.parent[c] = x /\ c \notin R
    BY <1>4, <2>3 DEF Children
  <2>5. t.state[c] \in States
    BY <1>1, <2>4, TreeFields DEF TreeOK
  <2>6. IsLive(u, c) /\ c \in Children(u, x)
    BY <1>5, <2>3, <2>4, <2>5 DEF IsLive, IsTerminal, States, Children
  <2>7. CASE x = a
    BY <2>6, <2>7
  <2>8. CASE x # a
    <3>1. x \in Int /\ a \in Int
      BY <1>2, <2>1, IdsFinite
    <3>2. a < x
      BY <2>2, <2>8, <3>1
    <3>3. a \in Ancestors(t, x)
      BY <1>2, <3>2 DEF LineOf, above
    <3>4. Ancestors(t, c) = {x} \cup Ancestors(t, x)
      BY <1>1, <2>4, AncestorsStep
    <3>5. a \in Ancestors(u, c)
      BY <1>7, <3>3, <3>4
    <3> QED
      BY <1>6, <1>12, <2>4, <2>6, <3>5, LiveBelow
  <2> QED
    BY <2>7, <2>8
<1>14. ASSUME NEW a \in Barren(u) PROVE \E d \in D \ {b} : a \in Ancestors(u, d)
  <2>1. a \in Ids /\ u.state[a] = "expanded" /\ t.state[a] = "expanded"
    BY <1>5 DEF Barren
  <2>2. a \notin above
    BY <1>13, <2>1 DEF Barren
  <2>3. a \in Barren(t)
    <3> SUFFICES ASSUME NEW c \in Children(t, a), IsLive(t, c) PROVE FALSE
      BY <2>1 DEF Barren
    <3>1. c \in Ids \ {Root} /\ t.state[c] # "absent" /\ t.parent[c] = a
      BY DEF Children
    <3>2. CASE c \in R
      <4>1. c \in above /\ Ancestors(t, c) \subseteq above
        BY <1>2, <1>4, <3>2 DEF LineOf, above
      <4>2. a \in Ancestors(t, c)
        BY <1>1, <3>1, AncestorsStep
      <4> QED
        BY <2>2, <4>1, <4>2
    <3>3. CASE c \notin R
      <4>1. c \in Children(u, a) /\ IsLive(u, c)
        BY <1>5, <3>1, <3>3 DEF Children, IsLive
      <4> QED
        BY <4>1 DEF Barren
    <3> QED
      BY <3>2, <3>3
  <2>4. PICK d \in D : a \in Ancestors(t, d)
    BY <2>3 DEF Whole
  <2> QED
    BY <1>7, <2>2, <2>4 DEF above
<1>15. Lasting(t, u)
  <2>1. \A c \in R : t.state[c] # "finalized"
    BY <1>3 DEF IsLive
  <2> QED
    BY <1>5, <2>1 DEF Lasting
<1> QED
  BY <1>6, <1>12, <1>14, <1>15 DEF Whole, u, R

\* A branch of the frontier that is forked has children.
LEMMA ForkBears ==
  ASSUME NEW t, TreeOK(t), NEW bs \in Seq(ActiveFrontier(t)), NEW width \in Nat \ {0},
         Size(t) + Len(bs) * width <= MaxTotalBranches, NEW i \in DOMAIN bs
  PROVE  LET u == Fork(t, bs, width)
             c == Size(t) + (i - 1) * width
         IN c \in Ids \ {Root} /\ u.state[c] = "active" /\ u.parent[c] = bs[i]
<1> DEFINE first == Size(t)
           n == Len(bs)
           m == (i - 1) * width
           c == first + m
           born == first .. first + n * width - 1
<1>1. first \in Nat \ {0} /\ n \in Nat /\ DOMAIN bs = 1 .. n /\ i \in 1 .. n
      /\ first + n * width <= MaxTotalBranches
  BY Numbered, BranchTreeAssumption
<1>2. m \in Nat /\ n * width \in Nat
  BY <1>1
<1>3. m + width <= n * width
  <2>1. i - 1 \in Int /\ n \in Int /\ i - 1 < n
    BY <1>1
  <2>2. width * (i - 1) + width <= width * n
    BY <2>1, MulMono
  <2> QED
    BY <1>1, <2>2
<1>4. m = width * (i - 1) + 0 /\ i - 1 \in Nat /\ 0 \in 0 .. width - 1
  BY <1>1
<1>5. m \div width = i - 1
  <2> HIDE DEF m
  <2>1. i - 1 = m \div width
    BY <1>2, <1>4, DivUnique
  <2> QED
    BY <2>1
<1> HIDE DEF first, n, m
<1>6. c \in born /\ c - first = m /\ c # 0 /\ (i - 1) + 1 = i
  BY <1>1, <1>2, <1>3
<1>7. \A b \in born : /\ Fork(t, bs, width).state[b] = "active" /\ b \in Ids
                      /\ Fork(t, bs, width).parent[b] = bs[((b - first) \div width) + 1]
  BY ForkFields DEF first, n
<1>8. c \in Ids \ {Root} /\ Fork(t, bs, width).state[c] = "active"
      /\ Fork(t, bs, width).parent[c] = bs[i]
  <2> HIDE DEF c
  <2> QED
    BY <1>5, <1>6, <1>7 DEF Root
<1> QED
  BY <1>8 DEF c, first, m

\* Forking branches of the frontier.
LEMMA ForkWhole ==
  ASSUME NEW t, Whole(t, {}), NEW bs \in Seq(ActiveFrontier(t)), NEW width \in Nat \ {0},
         Size(t) + Len(bs) * width <= MaxTotalBranches
  PROVE  LET u == Fork(t, bs, width)
         IN /\ Whole(u, {}) /\ Lasting(t, u)
            /\ ActiveFrontier(t) # {} => ActiveFrontier(u) # {}
<1> DEFINE u == Fork(t, bs, width)
           first == Size(t)
           n == Len(bs)
           born == first .. first + n * width - 1
<1>1. /\ u \in Trees /\ born \subseteq Ids
      /\ \A b \in Ids \ born :
           /\ u.state[b] = IF \E i \in DOMAIN bs : bs[i] = b THEN "expanded" ELSE t.state[b]
           /\ u.parent[b] = t.parent[b] /\ u.depth[b] = t.depth[b]
      /\ \A b \in born :
           /\ b \notin Present(t) /\ u.state[b] = "active"
           /\ u.parent[b] \in ActiveFrontier(t) /\ u.parent[b] < b
           /\ u.depth[b] = t.depth[u.parent[b]] + 1
           /\ \E i \in DOMAIN bs : u.parent[b] = bs[i]
      /\ Present(u) = Present(t) \cup born
  BY ForkFields DEF Whole
<1>2. TreeOK(t) /\ Linked(t) /\ Barren(t) = {} /\ TreeOK(u)
  BY ForkEvolves DEF Whole, Evolves
<1>3. \A i \in DOMAIN bs : \E c \in Ids \ {Root} : u.state[c] = "active" /\ u.parent[c] = bs[i]
  <2> TAKE i \in DOMAIN bs
  <2> DEFINE c == Size(t) + (i - 1) * width
  <2>1. c \in Ids \ {Root} /\ u.state[c] = "active" /\ u.parent[c] = bs[i]
    BY <1>2, ForkBears
  <2> HIDE DEF c
  <2> QED
    BY <2>1
<1>4. \A i \in DOMAIN bs : bs[i] \in Ids /\ t.state[bs[i]] = "active" /\ bs[i] \in Present(t)
  BY DEF ActiveFrontier, Present
<1> HIDE DEF u, born
<1>5. \A b \in Present(t) : b \in Ids \ born
  BY <1>1 DEF Present
<1>6. ASSUME NEW c \in Present(t) \ {Root}
      PROVE  /\ c \in Ids \ {Root} /\ t.parent[c] \in Ids \ born
             /\ t.state[t.parent[c]] \in {"expanded", "killed"}
             /\ u.parent[c] = t.parent[c] /\ u.depth[c] = t.depth[c]
             /\ u.state[t.parent[c]] = t.state[t.parent[c]]
             /\ u.depth[t.parent[c]] = t.depth[t.parent[c]]
  <2>1. c \in Ids \ {Root} /\ t.parent[c] \in Ids /\ c \notin born
        /\ t.state[t.parent[c]] \in {"expanded", "killed"}
    BY <1>2, <1>5, TreeFields DEF TreeOK, Present
  <2>2. t.parent[c] \in Present(t)
    BY <2>1 DEF Present
  <2>3. t.parent[c] \notin born
    BY <1>5, <2>2
  <2> QED
    BY <1>1, <1>4, <2>1, <2>3
<1>7. \A c \in Present(t) : (IsLive(u, c) <=> IsLive(t, c))
  BY <1>1, <1>4, <1>5 DEF IsLive
<1>8. Linked(u)
  <2> SUFFICES ASSUME NEW c \in Present(u) \ {Root}
               PROVE  /\ IsLive(u, c) => u.state[u.parent[c]] = "expanded"
                      /\ u.depth[c] = u.depth[u.parent[c]] + 1
    BY DEF Linked
  <2>1. CASE c \in born
    <3>1. PICK i \in DOMAIN bs : u.parent[c] = bs[i]
      BY <1>1, <2>1
    <3>2. bs[i] \in Ids \ born
      BY <1>4, <1>5
    <3> QED
      BY <1>1, <2>1, <3>1, <3>2
  <2>2. CASE c \in Present(t)
    BY <1>2, <1>6, <1>7, <2>2 DEF Linked
  <2> QED
    BY <1>1, <2>1, <2>2
<1>9. Barren(u) = {}
  <2> SUFFICES ASSUME NEW b \in Barren(u) PROVE FALSE
    OBVIOUS
  <2>1. b \in Ids /\ u.state[b] = "expanded" /\ \A c \in Children(u, b) : ~IsLive(u, c)
    BY DEF Barren
  <2>2. b \notin born
    BY <1>1, <2>1
  <2>3. CASE \E i \in DOMAIN bs : bs[i] = b
    <3>1. PICK c \in Ids \ {Root} : u.state[c] = "active" /\ u.parent[c] = b
      BY <1>3, <2>3
    <3>2. c \in Children(u, b) /\ IsLive(u, c)
      BY <3>1 DEF Children, IsLive
    <3> QED
      BY <2>1, <3>2
  <2>4. CASE t.state[b] = "expanded"
    <3>1. PICK c \in Children(t, b) : IsLive(t, c)
      BY <1>2, <2>1, <2>4 DEF Barren
    <3>2. c \in Present(t) \ {Root} /\ t.parent[c] = b
      BY <3>1 DEF Children, Present
    <3>3. c \in Children(u, b) /\ IsLive(u, c)
      BY <1>6, <1>7, <3>1, <3>2 DEF Children, IsLive
    <3> QED
      BY <2>1, <3>3
  <2> QED
    BY <1>1, <2>1, <2>2, <2>3, <2>4
<1>10. Lasting(t, u)
  <2>1. \A b \in Ids : t.state[b] = "finalized" => b \in Present(t)
    BY DEF Present
  <2> QED
    BY <1>1, <1>4, <1>5, <2>1 DEF Lasting
<1>11. ActiveFrontier(t) # {} => ActiveFrontier(u) # {}
  <2> SUFFICES ASSUME NEW b \in ActiveFrontier(t) PROVE ActiveFrontier(u) # {}
    OBVIOUS
  <2>1. CASE \E i \in DOMAIN bs : bs[i] = b
    BY <1>3, <2>1 DEF ActiveFrontier
  <2>2. CASE ~\E i \in DOMAIN bs : bs[i] = b
    <3>1. b \in Ids \ born /\ t.state[b] = "active"
      BY <1>5 DEF ActiveFrontier, Present
    <3>2. u.state[b] = "active"
      BY <1>1, <2>2, <3>1
    <3> QED
      BY <3>1, <3>2 DEF ActiveFrontier
  <2> QED
    BY <2>1, <2>2
<1>12. Whole(u, {})
  BY <1>2, <1>8, <1>9 DEF Whole
<1> QED
  BY <1>10, <1>11, <1>12 DEF u

-----------------------------------------------------------------------------
(* Replaying commands.                                                     *)

\* What a driver's tree may be as long as every command was legal.
Sound ==
  {[state |-> st, parent |-> p, legal |-> TRUE] : st \in [Ids -> States], p \in [Ids -> Ids]}

\* A driver's tree that agrees with the scheduler's.
Image(t) == [state |-> t.state, parent |-> t.parent, legal |-> TRUE]

\* v lists the trees that replaying q from m on passes through.
Replays(v, m, q) ==
  /\ v[0] = m
  /\ \A i \in 0 .. Len(q) : v[i] \in Sound
  /\ \A i \in 1 .. Len(q) : v[i] = Replay(v[i - 1], q[i])

\* Replayed on m, the commands q are legal and lead to n.
Story(m, q, n) == \E v : Replays(v, m, q) /\ v[Len(q)] = n

LEMMA ImageSound ==
  ASSUME NEW t \in Trees
  PROVE  /\ Image(t) \in Sound /\ Image(t).state = t.state /\ Image(t).parent = t.parent
         /\ Image(t).legal = TRUE
<1>1. t.state \in [Ids -> States] /\ t.parent \in [Ids -> Ids]
  BY TreeFields
<1> DEFINE st == t.state
           p == t.parent
<1>2. Image(t) = [state |-> st, parent |-> p, legal |-> TRUE]
  BY DEF Image
<1> HIDE DEF st, p
<1>3. [state |-> st, parent |-> p, legal |-> TRUE] \in Sound
  <2> DEFINE S == [Ids -> States]
             P == [Ids -> Ids]
  <2>1. st \in S /\ p \in P
    BY <1>1 DEF st, p
  <2>2. Sound = {[state |-> x, parent |-> y, legal |-> TRUE] : x \in S, y \in P}
    BY DEF Sound
  <2> HIDE DEF S, P
  <2>3. \A z : z \in Sound <=>
          \E x \in S, y \in P : z = [state |-> x, parent |-> y, legal |-> TRUE]
    BY <2>2
  <2> QED
    BY <2>1, <2>3
<1> QED
  BY <1>2, <1>3 DEF st, p

LEMMA StoryNone ==
  ASSUME NEW m \in Sound
  PROVE  Story(m, <<>>, m)
<1> DEFINE v == [i \in {0} |-> m]
<1>1. v[0] = m /\ Len(<<>>) = 0 /\ 1 .. 0 = {} /\ 0 .. 0 = {0}
  OBVIOUS
<1> HIDE DEF v
<1>2. Replays(v, m, <<>>)
  BY <1>1 DEF Replays
<1> QED
  BY <1>1, <1>2 DEF Story

LEMMA StoryMore ==
  ASSUME NEW m, NEW q \in Seq(CommandSet), NEW n, Story(m, q, n), NEW c, Replay(n, c) \in Sound
  PROVE  Story(m, Append(q, c), Replay(n, c))
<1>1. PICK v : Replays(v, m, q) /\ v[Len(q)] = n
  BY DEF Story
<1> DEFINE k == Len(q)
           p == Append(q, c)
           w == [i \in 0 .. k + 1 |-> IF i = k + 1 THEN Replay(n, c) ELSE v[i]]
<1>2. k \in Nat /\ Len(p) = k + 1 /\ p[k + 1] = c /\ \A i \in 1 .. k : p[i] = q[i]
  OBVIOUS
<1>3. /\ v[0] = m /\ v[k] = n /\ \A i \in 1 .. k : v[i] = Replay(v[i - 1], q[i])
      /\ \A i \in 0 .. k : v[i] \in Sound
  BY <1>1 DEF Replays
<1> HIDE DEF k, p
<1>4. w[0] = m /\ w[k] = n /\ w[k + 1] = Replay(n, c) /\ \A i \in 0 .. k : w[i] = v[i]
  BY <1>2, <1>3
<1> HIDE DEF w
<1>5. \A i \in 1 .. k + 1 : w[i] = Replay(w[i - 1], p[i])
  <2> TAKE i \in 1 .. k + 1
  <2>1. CASE i = k + 1
    <3>1. i - 1 = k
      BY <1>2, <2>1
    <3> QED
      BY <1>2, <1>4, <2>1, <3>1
  <2>2. CASE i # k + 1
    <3>1. i \in 1 .. k /\ i \in 0 .. k /\ i - 1 \in 0 .. k
      BY <1>2, <2>2
    <3> QED
      BY <1>2, <1>3, <1>4, <3>1
  <2> QED
    BY <2>1, <2>2
<1>6. \A i \in 0 .. k + 1 : w[i] \in Sound
  <2> TAKE i \in 0 .. k + 1
  <2>1. i = k + 1 \/ i \in 0 .. k
    BY <1>2
  <2> QED
    BY <1>3, <1>4, <2>1
<1>7. Replays(w, m, p)
  BY <1>2, <1>4, <1>5, <1>6 DEF Replays
<1>8. Story(m, p, Replay(n, c))
  BY <1>2, <1>4, <1>7 DEF Story
<1> QED
  BY <1>8 DEF p

LEMMA StoryOn ==
  ASSUME NEW m, NEW q \in Seq(CommandSet), NEW n, Story(m, q, n),
         NEW p \in Seq(CommandSet), NEW r, Story(n, p, r)
  PROVE  Story(m, q \o p, r)
<1>1. PICK v : Replays(v, m, q) /\ v[Len(q)] = n
  BY DEF Story
<1>2. PICK w : Replays(w, n, p) /\ w[Len(p)] = r
  BY DEF Story
<1> DEFINE k == Len(q)
           l == Len(p)
           o == q \o p
           x == [i \in 0 .. k + l |-> IF i <= k THEN v[i] ELSE w[i - k]]
<1>3. /\ k \in Nat /\ l \in Nat /\ Len(o) = k + l /\ \A i \in 1 .. k : o[i] = q[i]
      /\ \A i \in k + 1 .. k + l : o[i] = p[i - k]
  OBVIOUS
<1>4. /\ v[0] = m /\ v[k] = n /\ \A i \in 1 .. k : v[i] = Replay(v[i - 1], q[i])
      /\ w[0] = n /\ w[l] = r /\ \A i \in 1 .. l : w[i] = Replay(w[i - 1], p[i])
      /\ \A i \in 0 .. k : v[i] \in Sound
      /\ \A i \in 0 .. l : w[i] \in Sound
  BY <1>1, <1>2 DEF Replays
<1> HIDE DEF k, l, o
<1>5. /\ \A i \in 0 .. k : x[i] = v[i]
      /\ \A i \in k + 1 .. k + l : x[i] = w[i - k]
  BY <1>3
<1> HIDE DEF x
<1>6. \A i \in k .. k + l : x[i] = w[i - k]
  <2> TAKE i \in k .. k + l
  <2>1. CASE i = k
    BY <1>3, <1>4, <1>5, <2>1
  <2>2. CASE i # k
    BY <1>3, <1>5, <2>2
  <2> QED
    BY <2>1, <2>2
<1>7. \A i \in 1 .. k + l : x[i] = Replay(x[i - 1], o[i])
  <2> TAKE i \in 1 .. k + l
  <2>1. CASE i <= k
    <3>1. i \in 1 .. k /\ i \in 0 .. k /\ i - 1 \in 0 .. k
      BY <1>3, <2>1
    <3> QED
      BY <1>3, <1>4, <1>5, <3>1
  <2>2. CASE i > k
    <3>1. i \in k + 1 .. k + l /\ i \in k .. k + l /\ i - 1 \in k .. k + l
          /\ i - k \in 1 .. l /\ (i - 1) - k = (i - k) - 1
      BY <1>3, <2>2
    <3>2. w[i - k] = Replay(w[(i - k) - 1], p[i - k])
      BY <1>4, <3>1
    <3> QED
      BY <1>3, <1>6, <3>1, <3>2
  <2> QED
    BY <1>3, <2>1, <2>2
<1>8. x[0] = m /\ x[k + l] = r
  <2>1. 0 \in 0 .. k /\ k + l \in k .. k + l /\ (k + l) - k = l
    BY <1>3
  <2> QED
    BY <1>4, <1>5, <1>6, <2>1
<1>9. \A i \in 0 .. k + l : x[i] \in Sound
  <2> TAKE i \in 0 .. k + l
  <2>1. CASE i <= k
    <3>1. i \in 0 .. k
      BY <1>3, <2>1
    <3> QED
      BY <1>4, <1>5, <3>1
  <2>2. CASE i > k
    <3>1. i \in k .. k + l /\ i - k \in 0 .. l
      BY <1>3, <2>2
    <3> QED
      BY <1>4, <1>6, <3>1
  <2> QED
    BY <1>3, <2>1, <2>2
<1>10. Replays(x, m, o)
  BY <1>3, <1>7, <1>8, <1>9 DEF Replays
<1>11. Story(m, o, r)
  BY <1>3, <1>8, <1>10 DEF Story
<1> QED
  BY <1>11 DEF o

\* The driver's tree after a poll.
Rebuilt(m, q) == FoldLeft(Replay, m, q)

LEMMA ReplaySteps ==
  ASSUME NEW a, NEW p, NEW l \in Nat, DOMAIN p = 1 .. l
  PROVE  \E w : /\ w[0] = a
                /\ \A i \in 1 .. l : w[i] = Replay(w[i - 1], p[i])
                /\ Rebuilt(a, p) = w[l]
<1>1. Rebuilt(a, p) = Replaying!Result(a, p)
  BY DEF Rebuilt, FoldLeft, MapThenFoldSet, Max, Replaying!Result, Replaying!FoldLeft,
         Replaying!MapThenFoldSet, Replaying!Max
<1> QED
  BY <1>1, Replaying!FoldSteps

\* What replaying leads to is what folding the commands computes.
LEMMA StoryEnds ==
  ASSUME NEW m, NEW q \in Seq(CommandSet), NEW n, Story(m, q, n)
  PROVE  Rebuilt(m, q) = n /\ n \in Sound
<1> DEFINE k == Len(q)
<1>1. k \in Nat /\ DOMAIN q = 1 .. k
  OBVIOUS
<1>2. PICK v : Replays(v, m, q) /\ v[k] = n
  BY DEF Story
<1>3. /\ v[0] = m /\ \A i \in 1 .. k : v[i] = Replay(v[i - 1], q[i])
      /\ \A i \in 0 .. k : v[i] \in Sound
  BY <1>2 DEF Replays
<1> HIDE DEF k
<1>4. PICK w : /\ w[0] = m
               /\ \A i \in 1 .. k : w[i] = Replay(w[i - 1], q[i])
               /\ Rebuilt(m, q) = w[k]
  <2>1. PICK z : z = Rebuilt(m, q)
    OBVIOUS
  <2>2. \E w : w[0] = m /\ z = w[k] /\ \A i \in 1 .. k : w[i] = Replay(w[i - 1], q[i])
    BY <1>1, <2>1, ReplaySteps
  <2> QED
    BY <2>1, <2>2
<1> DEFINE Good == {i \in 0 .. k : v[i] = w[i]}
<1>5. 0 \in Good
  BY <1>1, <1>3, <1>4
<1>6. \A i \in 0 .. k - 1 : i \in Good => i + 1 \in Good
  <2> SUFFICES ASSUME NEW i \in 0 .. k - 1, v[i] = w[i]
               PROVE  i + 1 \in 0 .. k /\ v[i + 1] = w[i + 1]
    OBVIOUS
  <2>1. i + 1 \in 1 .. k /\ (i + 1) - 1 = i /\ i + 1 \in 0 .. k
    BY <1>1
  <2> QED
    BY <1>3, <1>4, <2>1
<1>7. k \in Good
  <2>1. k \in 0 .. k
    BY <1>1
  <2> HIDE DEF Good
  <2> QED
    BY <1>1, <1>5, <1>6, <2>1, IntervalInduction
<1>8. n \in Sound
  BY <1>2, <1>7, <1>3
<1> QED
  BY <1>2, <1>4, <1>7, <1>8

\* A Continue changes no tree.
LEMMA ContinueReplayed ==
  ASSUME NEW m \in Sound, NEW c, c.op = "continue", Replay(m, c) \in Sound
  PROVE  Replay(m, c) = m
<1>1. m.state \in [Ids -> States] /\ m.parent \in [Ids -> Ids]
  BY DEF Sound
<1>2. Replay(m, c).state = [b \in Ids |-> IF b = c.branch THEN m.state[c.branch] ELSE m.state[b]]
      /\ Replay(m, c).parent = [b \in Ids |-> m.parent[b]]
  BY DEF Replay
<1>3. Replay(m, c).state = m.state
  BY <1>1, <1>2
<1>4. Replay(m, c).parent = m.parent
  BY <1>1, <1>2
<1>5. \A x, y \in Sound : x.state = y.state /\ x.parent = y.parent => x = y
  <2>1. \A x \in Sound : x = [state |-> x.state, parent |-> x.parent, legal |-> TRUE]
    BY DEF Sound
  <2> QED
    BY <2>1, Zenon
<1> QED
  BY <1>3, <1>4, <1>5

\* Nor does a stretch of Continues.
LEMMA Stretch ==
  ASSUME NEW v, NEW a \in Nat, NEW l \in Nat,
         \A i \in a + 1 .. a + l : v[i] = v[i - 1]
  PROVE  v[a + l] = v[a]
<1> DEFINE Good == {i \in 0 .. l : v[a + i] = v[a]}
<1>1. 0 \in Good
  OBVIOUS
<1>2. \A i \in 0 .. l - 1 : i \in Good => i + 1 \in Good
  <2> SUFFICES ASSUME NEW i \in 0 .. l - 1, v[a + i] = v[a]
               PROVE  i + 1 \in 0 .. l /\ v[a + (i + 1)] = v[a]
    OBVIOUS
  <2>1. a + (i + 1) \in a + 1 .. a + l /\ (a + (i + 1)) - 1 = a + i /\ i + 1 \in 0 .. l
    OBVIOUS
  <2> QED
    BY <2>1
<1> HIDE DEF Good
<1>3. l \in 0 .. l /\ 0 .. l \subseteq Good
  BY <1>1, <1>2, IntervalInduction
<1> QED
  BY <1>3 DEF Good

\* So the driver may as well not be told to continue.
LEMMA StoryWithout ==
  ASSUME NEW m, NEW q \in Seq(CommandSet), NEW n, Story(m, q, n), NEW b
  PROVE  Story(m, WithoutContinue(q, b), n)
<1> DEFINE c == Command("continue", b)
           K == {i \in DOMAIN q : q[i] # c}
           kept == Ascending(K)
           p == WithoutContinue(q, b)
           k == Len(q)
           l == Len(kept)
<1>1. PICK v : Replays(v, m, q) /\ v[k] = n
  BY DEF Story
<1>2. k \in Nat /\ DOMAIN q = 1 .. k /\ K = {i \in 1 .. k : q[i] # c} /\ c.op = "continue"
  BY DEF Command
<1>3. /\ v[0] = m /\ \A i \in 1 .. k : v[i] = Replay(v[i - 1], q[i])
      /\ \A i \in 0 .. k : v[i] \in Sound
  BY <1>1 DEF Replays
<1>4. p = [i \in DOMAIN kept |-> q[kept[i]]]
  BY DEF WithoutContinue
<1>5. K \in SUBSET Int /\ IsFiniteSet(K)
  <2>1. 1 \in Int /\ k \in Int /\ K \in SUBSET (1 .. k)
    BY <1>2
  <2>2. IsFiniteSet(1 .. k)
    BY <2>1, FS_Interval
  <2> QED
    BY <2>1, <2>2, FS_Subset
<1> HIDE DEF K
<1>6. /\ kept \in Seq(K) /\ {kept[i] : i \in DOMAIN kept} = K
      /\ \A i, j \in DOMAIN kept : i < j => kept[i] < kept[j]
  BY <1>5, AscendingListing
<1> HIDE DEF kept, p, c, k
<1>7. l \in Nat /\ DOMAIN kept = 1 .. l
  BY <1>6
<1>8. Len(p) = l
  BY <1>4, <1>7
<1> HIDE DEF l
<1>9. \A i \in 1 .. k : i \notin K => v[i] = v[i - 1]
  <2> TAKE i \in 1 .. k
  <2> SUFFICES ASSUME i \notin K PROVE v[i] = v[i - 1]
    OBVIOUS
  <2>1. q[i] = c /\ i - 1 \in 0 .. k /\ i \in 0 .. k
    BY <1>2
  <2>2. v[i] = Replay(v[i - 1], c) /\ v[i - 1] \in Sound /\ v[i] \in Sound
    BY <1>3, <2>1
  <2> QED
    BY <1>2, <2>2, ContinueReplayed
\* The place in q up to which the first i commands of p go.
<1> DEFINE at == [i \in 0 .. l |-> IF i = 0 THEN 0 ELSE kept[i]]
           w == [i \in 0 .. l |-> v[at[i]]]
<1>10. at[0] = 0 /\ \A i \in 1 .. l : at[i] = kept[i] /\ at[i] \in K /\ at[i] \in 1 .. k
  BY <1>2, <1>6, <1>7
<1>11. \A i \in 0 .. l : at[i] \in 0 .. k /\ w[i] = v[at[i]]
  <2> TAKE i \in 0 .. l
  <2>1. i = 0 \/ i \in 1 .. l
    BY <1>7
  <2>2. at[i] \in 0 .. k
    <3> HIDE DEF at
    <3> QED
      BY <1>2, <1>10, <2>1
  <2> HIDE DEF at
  <2> QED
    BY <2>2
<1> HIDE DEF at, w
<1>12. \A j \in K : \E i \in 1 .. l : at[i] = j
  BY <1>6, <1>7, <1>10
<1>13. \A i, j \in 1 .. l : i < j => at[i] < at[j]
  BY <1>6, <1>7, <1>10
<1>14. ASSUME NEW i \in 0 .. l, NEW e \in 0 .. k, at[i] <= e,
              \A j \in 1 .. l : at[j] <= e => j <= i
       PROVE  v[e] = v[at[i]]
  <2> DEFINE a == at[i]
             d == e - a
  <2>1. a \in Nat /\ d \in Nat /\ a + d = e /\ a \in 0 .. k
    BY <1>2, <1>11, <1>14
  <2>2. \A x \in a + 1 .. a + d : x \in 1 .. k /\ x \notin K
    <3> TAKE x \in a + 1 .. a + d
    <3>1. x \in 1 .. k /\ x <= e /\ x > a
      BY <1>2, <2>1
    <3>2. ASSUME x \in K PROVE FALSE
      <4>1. PICK j \in 1 .. l : at[j] = x
        BY <1>12, <3>2
      <4>2. j <= i
        BY <1>14, <3>1, <4>1
      <4>3. i \in 1 .. l /\ j \in Int /\ i \in Int
        BY <1>7, <4>2
      <4>4. j = i \/ at[j] < at[i]
        BY <1>13, <4>2, <4>3
      <4> QED
        BY <3>1, <4>1, <4>4, <2>1
    <3> QED
      BY <3>1, <3>2
  <2>3. \A x \in a + 1 .. a + d : v[x] = v[x - 1]
    BY <1>9, <2>2
  <2> HIDE DEF a, d
  <2>4. v[a + d] = v[a]
    BY <2>1, <2>3, Stretch
  <2> QED
    BY <2>1, <2>4 DEF a
<1>15. \A i \in 1 .. l : w[i] = Replay(w[i - 1], p[i])
  <2> TAKE i \in 1 .. l
  <2>1. at[i] \in 1 .. k /\ i \in 0 .. l /\ i - 1 \in 0 .. l /\ i \in DOMAIN kept
        /\ at[i] = kept[i]
    BY <1>7, <1>10
  <2>2. p[i] = q[at[i]]
    BY <1>4, <2>1
  <2>3. v[at[i]] = Replay(v[at[i] - 1], q[at[i]])
    BY <1>3, <2>1
  <2> DEFINE e == at[i] - 1
             h == i - 1
  <2>4. e \in 0 .. k /\ at[h] <= e
    <3>1. CASE i = 1
      BY <1>2, <1>10, <2>1, <3>1
    <3>2. CASE i # 1
      <4>1. h \in 1 .. l /\ h < i
        BY <1>7, <3>2
      <4>2. at[h] < at[i] /\ at[h] \in 1 .. k
        BY <1>10, <1>13, <4>1
      <4> HIDE DEF h
      <4> QED
        BY <1>2, <2>1, <4>2
    <3> QED
      BY <3>1, <3>2
  <2>5. \A j \in 1 .. l : at[j] <= e => j <= h
    <3> TAKE j \in 1 .. l
    <3>1. at[j] \in 1 .. k /\ at[i] \in 1 .. k
      BY <1>10
    <3>2. j # i /\ ~(i < j) => j <= h
      BY <1>7
    <3> HIDE DEF h
    <3> QED
      BY <1>2, <1>13, <3>1, <3>2
  <2> HIDE DEF e
  <2>6. v[e] = v[at[h]]
    <3> HIDE DEF h
    <3>1. h \in 0 .. l
      BY <2>1 DEF h
    <3> QED
      BY <1>14, <2>4, <2>5, <3>1
  <2> QED
    BY <1>11, <2>1, <2>2, <2>3, <2>6 DEF e
<1>16. w[0] = m /\ w[l] = n
  <2>1. 0 \in 0 .. l /\ l \in 0 .. l /\ k \in 0 .. k
    BY <1>2, <1>7
  <2>2. v[k] = v[at[l]]
    <3>1. at[l] <= k /\ \A j \in 1 .. l : at[j] <= k => j <= l
      BY <1>2, <1>7, <1>11, <2>1
    <3> QED
      BY <1>14, <2>1, <3>1
  <2> QED
    BY <1>1, <1>3, <1>10, <1>11, <2>1, <2>2
<1>17. \A i \in 0 .. l : w[i] \in Sound
  BY <1>3, <1>11
<1>18. Replays(w, m, p)
  BY <1>8, <1>15, <1>16, <1>17 DEF Replays
<1>19. Story(m, p, n)
  BY <1>8, <1>16, <1>18 DEF Story
<1> QED
  BY <1>19 DEF p

-----------------------------------------------------------------------------
(* What the commands tell of the tree's operations.                        *)

\* One command replayed.
Closing(op) == IF op = "kill" THEN "killed" ELSE "finalized"

LEMMA ImageIs ==
  ASSUME NEW t \in Trees, NEW m, m.state = t.state, m.parent = t.parent, m.legal = TRUE,
         m = [state |-> m.state, parent |-> m.parent, legal |-> m.legal]
  PROVE  m = Image(t)
BY DEF Image

\* A branch is closed, all of its children having been closed before.
LEMMA CloseReplayed ==
  ASSUME NEW t, TreeOK(t), NEW op \in {"kill", "finalize"}, NEW b \in Ids, NEW u, TreeOK(u),
         u.parent = t.parent, u.state[b] = Closing(op),
         \A c \in Ids \ {b} : u.state[c] = t.state[c],
         op = "kill" => IsLive(t, b) /\ \A c \in Children(t, b) : IsTerminal(t, c),
         op = "finalize" => t.state[b] = "active"
  PROVE  Replay(Image(t), Command(op, b)) = Image(u)
<1> DEFINE m == Image(t)
           c == Command(op, b)
           r == Replay(m, c)
<1>1. /\ t \in Trees /\ u \in Trees /\ u.state \in [Ids -> States]
      /\ t.state \in [Ids -> States] /\ t.parent \in [Ids -> Ids]
  BY TreeFields DEF TreeOK
<1>2. m.state = t.state /\ m.parent = t.parent /\ m.legal = TRUE
  BY <1>1, ImageSound
<1>3. c.op = op /\ c.branch = b
  BY DEF Command
<1> HIDE DEF m, c
<1>4. /\ r = [state |-> r.state, parent |-> r.parent, legal |-> r.legal]
      /\ r.state = [x \in Ids |-> IF x = b THEN Closing(op) ELSE t.state[x]]
      /\ r.parent = [x \in Ids |-> t.parent[x]]
      /\ r.legal = (m.legal /\ Legal(m, c))
  BY <1>2, <1>3 DEF Replay, Closing
<1>5. Legal(m, c)
  <2>1. \A x \in Ids : IsLive(m, x) <=> IsLive(t, x)
    BY <1>2 DEF IsLive
  <2>2. \A x \in Ids : IsTerminal(m, x) <=> IsTerminal(t, x)
    BY <1>2 DEF IsTerminal
  <2>3. Children(m, b) = Children(t, b) /\ Children(t, b) \subseteq Ids
    BY <1>2 DEF Children
  <2> QED
    BY <1>2, <1>3, <2>1, <2>2, <2>3 DEF Legal
<1>6. r.legal = TRUE
  BY <1>2, <1>4, <1>5
<1>7. r.state = u.state
  BY <1>1, <1>4
<1>8. r.parent = u.parent
  BY <1>1, <1>4
<1> HIDE DEF r
<1>9. r = Image(u)
  BY <1>1, <1>4, <1>6, <1>7, <1>8, ImageIs
<1> QED
  BY <1>9 DEF r, m, c

\* Branches die one after the other, each after its children.
Orderly(t, q) ==
  /\ \A i, j \in DOMAIN q : i # j => q[i] # q[j]
  /\ \A i \in DOMAIN q : /\ IsLive(t, q[i])
                         /\ \A c \in Children(t, q[i]) :
                              IsTerminal(t, c) \/ \E j \in DOMAIN q : j < i /\ q[j] = c

LEMMA KillsTold ==
  ASSUME NEW t, TreeOK(t), NEW q \in Seq(Ids), Orderly(t, q),
         NEW S, S = {q[i] : i \in DOMAIN q}
  PROVE  Story(Image(t), Commands("kill", q), Image(Kill(t, S)))
<1> DEFINE n == Len(q)
           Dead(i) == {q[j] : j \in {x \in DOMAIN q : x <= i}}
           v == [i \in 0 .. n |-> Image(Kill(t, Dead(i)))]
           p == Commands("kill", q)
<1>1. n \in Nat /\ DOMAIN q = 1 .. n /\ \A i \in 1 .. n : q[i] \in Ids
  OBVIOUS
<1>2. Len(p) = n /\ \A i \in 1 .. n : p[i] = Command("kill", q[i])
  BY DEF Commands
<1>3. \A i \in 1 .. n : IsLive(t, q[i]) /\ q[i] \in Present(t)
  BY <1>1 DEF Orderly, IsLive, Present
<1>4. \A i \in 0 .. n : Dead(i) \subseteq Present(t)
  BY <1>1, <1>3
<1>5. \A i \in 0 .. n : TreeOK(Kill(t, Dead(i)))
  <2> HIDE DEF Dead
  <2> QED
    BY <1>4, KillEvolves DEF Evolves
<1> HIDE DEF n, p
<1>6. \A i \in 1 .. n : Replay(Image(Kill(t, Dead(i - 1))), p[i]) = Image(Kill(t, Dead(i)))
  <2> TAKE i \in 1 .. n
  <2> DEFINE a == Kill(t, Dead(i - 1))
             u == Kill(t, Dead(i))
             b == q[i]
  <2>1. i - 1 \in 0 .. n /\ i \in 0 .. n /\ b \in Ids
    BY <1>1
  <2>2. TreeOK(a) /\ TreeOK(u)
    BY <1>5, <2>1
  <2>3. b \notin Dead(i - 1)
    <3>1. \A x \in 1 .. n : x <= i - 1 => x # i
      BY <1>1
    <3> QED
      BY <1>1, <3>1 DEF Orderly
  <2>4. Dead(i) = Dead(i - 1) \cup {b}
    <3>1. \A x \in 1 .. n : x <= i <=> (x <= i - 1 \/ x = i)
      BY <1>1
    <3> QED
      BY <1>1, <3>1
  <2>5. \A c \in Children(t, b) : IsTerminal(t, c) \/ c \in Dead(i - 1)
    <3>1. \A x \in 1 .. n : x < i => x <= i - 1
      BY <1>1
    <3> QED
      BY <1>1, <3>1 DEF Orderly
  <2> HIDE DEF Dead
  <2>6. /\ \A x \in Ids : a.state[x] = IF x \in Dead(i - 1) THEN "killed" ELSE t.state[x]
        /\ \A x \in Ids : u.state[x] = IF x \in Dead(i) THEN "killed" ELSE t.state[x]
        /\ a.parent = t.parent /\ u.parent = t.parent
    BY KillFields
  <2>7. IsLive(t, b) /\ p[i] = Command("kill", b)
    BY <1>2, <1>3
  <2> HIDE DEF a, u, b
  <2>8. IsLive(a, b)
    BY <2>1, <2>3, <2>6, <2>7 DEF IsLive
  <2>9. \A c \in Children(a, b) : IsTerminal(a, c)
    <3> TAKE c \in Children(a, b)
    <3>1. c \in Ids \ {Root} /\ a.state[c] # "absent" /\ t.parent[c] = b
      BY <2>6 DEF Children
    <3>2. CASE c \in Dead(i - 1)
      BY <2>6, <3>1, <3>2 DEF IsTerminal
    <3>3. CASE c \notin Dead(i - 1)
      <4>1. c \in Children(t, b)
        BY <2>6, <3>1, <3>3 DEF Children
      <4> QED
        BY <2>5, <2>6, <3>1, <3>3, <4>1 DEF IsTerminal
    <3> QED
      BY <3>2, <3>3
  <2>10. u.state[b] = "killed" /\ \A c \in Ids \ {b} : u.state[c] = a.state[c]
    BY <2>1, <2>4, <2>6
  <2> DEFINE op == "kill"
  <2>11. op \in {"kill", "finalize"} /\ u.state[b] = Closing(op) /\ op # "finalize"
    BY <2>10 DEF Closing
  <2>12. p[i] = Command(op, b)
    BY <2>7
  <2> HIDE DEF op
  <2>13. Replay(Image(a), Command(op, b)) = Image(u)
    BY <2>1, <2>2, <2>6, <2>8, <2>9, <2>10, <2>11, CloseReplayed
  <2> QED
    BY <2>12, <2>13 DEF a, u
<1>7. v[0] = Image(t)
  <2>1. Dead(0) = {} /\ 0 \in 0 .. n
    BY <1>1
  <2>2. Kill(t, {}).state = t.state
    <3> DEFINE u == Kill(t, {})
               D == {}
    <3>1. u.state \in [Ids -> States] /\ t.state \in [Ids -> States]
      BY KillFields, TreeFields DEF TreeOK
    <3>2. \A b \in Ids : u.state[b] = IF b \in D THEN "killed" ELSE t.state[b]
      <4>1. u = Kill(t, D)
        OBVIOUS
      <4> HIDE DEF u, D
      <4> QED
        BY <4>1, KillFields
    <3> HIDE DEF u
    <3> QED
      BY <3>1, <3>2 DEF u
  <2>3. Kill(t, {}).parent = t.parent
    BY KillFields
  <2> HIDE DEF Dead
  <2> QED
    BY <2>1, <2>2, <2>3 DEF Image
<1>8. \A i \in 0 .. n : v[i] \in Sound
  <2> HIDE DEF Dead
  <2> QED
    BY <1>5, ImageSound DEF TreeOK
<1>9. \A i \in 1 .. n : v[i] = Replay(v[i - 1], p[i])
  <2> HIDE DEF Dead
  <2> TAKE i \in 1 .. n
  <2>1. i - 1 \in 0 .. n /\ i \in 0 .. n
    BY <1>1
  <2> QED
    BY <1>6, <2>1
<1>10. v[n] = Image(Kill(t, S))
  <2>1. n \in 0 .. n /\ Dead(n) = S
    BY <1>1
  <2> HIDE DEF Dead
  <2> QED
    BY <2>1
<1> HIDE DEF v
<1>11. Replays(v, Image(t), p)
  BY <1>2, <1>7, <1>8, <1>9 DEF Replays
<1>12. Story(Image(t), p, Image(Kill(t, S)))
  BY <1>2, <1>10, <1>11 DEF Story
<1> QED
  BY <1>12 DEF p

\* Branches of the frontier are finalized one after the other.
Distinct(q) == \A i, j \in DOMAIN q : i # j => q[i] # q[j]

LEMMA FinalizesTold ==
  ASSUME NEW t, TreeOK(t), NEW q \in Seq(ActiveFrontier(t)), Distinct(q),
         NEW S, S = {q[i] : i \in DOMAIN q}
  PROVE  Story(Image(t), Commands("finalize", q), Image(Finalize(t, S)))
<1> DEFINE n == Len(q)
           Done(i) == {q[j] : j \in {x \in DOMAIN q : x <= i}}
           v == [i \in 0 .. n |-> Image(Finalize(t, Done(i)))]
           p == Commands("finalize", q)
<1>1. n \in Nat /\ DOMAIN q = 1 .. n /\ \A i \in 1 .. n : q[i] \in Ids /\ t.state[q[i]] = "active"
  BY DEF ActiveFrontier
<1>2. Len(p) = n /\ \A i \in 1 .. n : p[i] = Command("finalize", q[i])
  BY DEF Commands
<1>3. \A i \in 1 .. n : q[i] \in ActiveFrontier(t)
  BY <1>1 DEF ActiveFrontier
<1>4. \A i \in 0 .. n : Done(i) \subseteq ActiveFrontier(t)
  BY <1>1, <1>3
<1>5. \A i \in 0 .. n : TreeOK(Finalize(t, Done(i)))
  <2> HIDE DEF Done
  <2> QED
    BY <1>4, FinalizeEvolves DEF Evolves
<1> HIDE DEF n, p
<1>6. \A i \in 1 .. n : Replay(Image(Finalize(t, Done(i - 1))), p[i]) = Image(Finalize(t, Done(i)))
  <2> TAKE i \in 1 .. n
  <2> DEFINE a == Finalize(t, Done(i - 1))
             u == Finalize(t, Done(i))
             b == q[i]
  <2>1. i - 1 \in 0 .. n /\ i \in 0 .. n /\ b \in Ids
    BY <1>1
  <2>2. TreeOK(a) /\ TreeOK(u)
    BY <1>5, <2>1
  <2>3. b \notin Done(i - 1)
    <3>1. \A x \in 1 .. n : x <= i - 1 => x # i
      BY <1>1
    <3> QED
      BY <1>1, <3>1 DEF Distinct
  <2>4. Done(i) = Done(i - 1) \cup {b}
    <3>1. \A x \in 1 .. n : x <= i <=> (x <= i - 1 \/ x = i)
      BY <1>1
    <3> QED
      BY <1>1, <3>1
  <2> HIDE DEF Done
  <2>6. /\ \A x \in Ids : a.state[x] = IF x \in Done(i - 1) THEN "finalized" ELSE t.state[x]
        /\ \A x \in Ids : u.state[x] = IF x \in Done(i) THEN "finalized" ELSE t.state[x]
        /\ a.parent = t.parent /\ u.parent = t.parent
    BY FinalizeFields
  <2>7. t.state[b] = "active" /\ p[i] = Command("finalize", b)
    BY <1>1, <1>2
  <2> HIDE DEF a, u, b
  <2>8. a.state[b] = "active"
    BY <2>1, <2>3, <2>6, <2>7
  <2>10. u.state[b] = "finalized" /\ \A c \in Ids \ {b} : u.state[c] = a.state[c]
    BY <2>1, <2>4, <2>6
  <2> DEFINE op == "finalize"
  <2>11. op \in {"finalize", "finalize"} /\ u.state[b] = Closing(op) /\ op # "kill"
    BY <2>10 DEF Closing
  <2>12. p[i] = Command(op, b)
    BY <2>7
  <2> HIDE DEF op
  <2>13. Replay(Image(a), Command(op, b)) = Image(u)
    BY <2>1, <2>2, <2>6, <2>8, <2>10, <2>11, CloseReplayed
  <2> QED
    BY <2>12, <2>13 DEF a, u
<1>7. v[0] = Image(t)
  <2>1. Done(0) = {} /\ 0 \in 0 .. n
    BY <1>1
  <2>2. Finalize(t, {}).state = t.state
    <3> DEFINE u == Finalize(t, {})
               D == {}
    <3>1. u.state \in [Ids -> States] /\ t.state \in [Ids -> States]
      BY FinalizeFields, TreeFields DEF TreeOK
    <3>2. \A b \in Ids : u.state[b] = IF b \in D THEN "finalized" ELSE t.state[b]
      <4>1. u = Finalize(t, D)
        OBVIOUS
      <4> HIDE DEF u, D
      <4> QED
        BY <4>1, FinalizeFields
    <3> HIDE DEF u
    <3> QED
      BY <3>1, <3>2 DEF u
  <2>3. Finalize(t, {}).parent = t.parent
    BY FinalizeFields
  <2> HIDE DEF Done
  <2> QED
    BY <2>1, <2>2, <2>3 DEF Image
<1>8. \A i \in 0 .. n : v[i] \in Sound
  <2> HIDE DEF Done
  <2> QED
    BY <1>5, ImageSound DEF TreeOK
<1>9. \A i \in 1 .. n : v[i] = Replay(v[i - 1], p[i])
  <2> HIDE DEF Done
  <2> TAKE i \in 1 .. n
  <2>1. i - 1 \in 0 .. n /\ i \in 0 .. n
    BY <1>1
  <2> QED
    BY <1>6, <2>1
<1>10. v[n] = Image(Finalize(t, S))
  <2>1. n \in 0 .. n /\ Done(n) = S
    BY <1>1
  <2> HIDE DEF Done
  <2> QED
    BY <2>1
<1> HIDE DEF v
<1>11. Replays(v, Image(t), p)
  BY <1>2, <1>7, <1>8, <1>9 DEF Replays
<1>12. Story(Image(t), p, Image(Finalize(t, S)))
  BY <1>2, <1>10, <1>11 DEF Story
<1> QED
  BY <1>12 DEF p

\* Branches of the frontier are told to continue.
LEMMA ContinuesTold ==
  ASSUME NEW t \in Trees, NEW q \in Seq(ActiveFrontier(t))
  PROVE  Story(Image(t), Commands("continue", q), Image(t))
<1> DEFINE n == Len(q)
           m == Image(t)
           p == Commands("continue", q)
           v == [i \in 0 .. n |-> m]
<1>1. n \in Nat /\ DOMAIN q = 1 .. n /\ \A i \in 1 .. n : q[i] \in Ids /\ t.state[q[i]] = "active"
  BY DEF ActiveFrontier
<1>2. Len(p) = n /\ \A i \in 1 .. n : p[i] = Command("continue", q[i])
  BY DEF Commands
<1>3. /\ m \in Sound /\ m.state = t.state /\ m.parent = t.parent /\ m.legal = TRUE
      /\ t.state \in [Ids -> States] /\ t.parent \in [Ids -> Ids]
  BY ImageSound, TreeFields
<1>4. \A i \in 0 .. n : v[i] = m
  OBVIOUS
<1> HIDE DEF n, p, v
<1>5. \A i \in 1 .. n : Replay(m, p[i]) = m
  <2> TAKE i \in 1 .. n
  <2> DEFINE c == p[i]
             r == Replay(m, c)
  <2>1. c.op = "continue" /\ c.branch \in Ids /\ t.state[c.branch] = "active"
    BY <1>1, <1>2 DEF Command
  <2> HIDE DEF c, m
  <2>2. /\ r = [state |-> r.state, parent |-> r.parent, legal |-> r.legal]
        /\ r.state = [x \in Ids |-> IF x = c.branch THEN t.state[x] ELSE t.state[x]]
        /\ r.parent = [x \in Ids |-> t.parent[x]]
        /\ r.legal = (m.legal /\ Legal(m, c))
    BY <1>3, <2>1 DEF Replay
  <2>3. Legal(m, c)
    BY <1>3, <2>1 DEF Legal
  <2>4. r.legal = TRUE
    BY <1>3, <2>2, <2>3
  <2>5. r.state = t.state
    BY <1>3, <2>2
  <2>6. r.parent = t.parent
    BY <1>3, <2>2
  <2> HIDE DEF r
  <2>7. r = Image(t)
    BY <2>2, <2>4, <2>5, <2>6, ImageIs
  <2> QED
    BY <2>7 DEF r, c, m
<1> HIDE DEF m
<1>6. \A i \in 1 .. n : v[i] = Replay(v[i - 1], p[i])
  <2> TAKE i \in 1 .. n
  <2>1. i - 1 \in 0 .. n /\ i \in 0 .. n
    BY <1>1
  <2> QED
    BY <1>4, <1>5, <2>1
<1>7. 0 \in 0 .. n /\ n \in 0 .. n
  BY <1>1
<1>8. Replays(v, m, p)
  BY <1>2, <1>3, <1>4, <1>6, <1>7 DEF Replays
<1>9. Story(m, p, m)
  BY <1>2, <1>4, <1>7, <1>8 DEF Story
<1> QED
  BY <1>9 DEF m, p

\* Forking the first i branches of bs.
Grown(t, bs, width, i) == Fork(t, SubSeq(bs, 1, i), width)

PrefixForked(t, bs, width, born) ==
  LET u == Fork(t, bs, width)
  IN /\ u \in Trees /\ born \subseteq Ids
     /\ \A b \in Ids \ born :
          /\ u.state[b] = IF \E j \in DOMAIN bs : bs[j] = b THEN "expanded" ELSE t.state[b]
          /\ u.parent[b] = t.parent[b]
     /\ \A b \in born :
          /\ u.state[b] = "active"
          /\ ((b - Size(t)) \div width) + 1 \in DOMAIN bs
          /\ u.parent[b] = bs[((b - Size(t)) \div width) + 1]
     /\ Present(u) = Present(t) \cup born

LEMMA ForkedFields ==
  ASSUME NEW t, TreeOK(t), NEW bs \in Seq(ActiveFrontier(t)), NEW width \in Nat \ {0},
         Size(t) + Len(bs) * width <= MaxTotalBranches
  PROVE  PrefixForked(t, bs, width, Size(t) .. Size(t) + Len(bs) * width - 1)
BY ForkFields DEF PrefixForked

LEMMA GrownFields ==
  ASSUME NEW t, TreeOK(t), NEW bs \in Seq(ActiveFrontier(t)), NEW width \in Nat \ {0},
         Size(t) + Len(bs) * width <= MaxTotalBranches, NEW i \in 0 .. Len(bs)
  PROVE  LET u == Grown(t, bs, width, i)
             end == Size(t) + i * width
         IN /\ TreeOK(u) /\ Size(u) = end /\ end \in Nat /\ end <= MaxTotalBranches
            /\ \A b \in Ids : b < Size(t) =>
                 /\ u.state[b] = IF \E j \in 1 .. i : bs[j] = b THEN "expanded" ELSE t.state[b]
                 /\ u.parent[b] = t.parent[b]
            /\ \A b \in Ids : b >= Size(t) /\ b < end =>
                 u.state[b] = "active" /\ u.parent[b] = bs[((b - Size(t)) \div width) + 1]
            /\ \A b \in Ids : b >= end =>
                 u.state[b] = t.state[b] /\ u.parent[b] = t.parent[b]
<1> DEFINE p == SubSeq(bs, 1, i)
           u == Fork(t, p, width)
           first == Size(t)
           grow == i * width
           end == first + grow
           born == first .. end - 1
           n == Len(bs)
<1>1. /\ first \in 1 .. MaxTotalBranches /\ n \in Nat /\ DOMAIN bs = 1 .. n /\ i \in 0 .. n
      /\ MaxTotalBranches \in Nat /\ Ids = 0 .. MaxTotalBranches - 1
      /\ first + n * width <= MaxTotalBranches /\ Present(t) = 0 .. first - 1
      /\ \A j \in 1 .. n : bs[j] \in ActiveFrontier(t) /\ bs[j] \in Ids /\ bs[j] < first
  <2>1. \A j \in 1 .. Len(bs) : bs[j] \in ActiveFrontier(t) /\ bs[j] \in Present(t)
    BY DEF ActiveFrontier, Present
  <2>2. Present(t) = 0 .. first - 1 /\ first \in 1 .. MaxTotalBranches
    BY Numbered
  <2> HIDE DEF first
  <2>3. \A b \in Present(t) : b < first /\ b \in Ids
    BY <2>2 DEF Present
  <2> QED
    BY <2>1, <2>2, <2>3, BranchTreeAssumption DEF Ids, first
<1>2. p \in Seq(ActiveFrontier(t)) /\ Len(p) = i /\ \A j \in 1 .. i : p[j] = bs[j]
  BY <1>1
<1>3. grow \in Nat /\ grow <= n * width
  <2>1. CASE i = n
    BY <1>1, <2>1
  <2>2. CASE i # n
    <3>1. i \in Int /\ n \in Int /\ i < n
      <4> HIDE DEF n
      <4> QED
        BY <1>1, <2>2
    <3>2. width * i + width <= width * n
      BY <3>1, MulMono
    <3> QED
      BY <1>1, <3>2
  <2> QED
    BY <2>1, <2>2
<1>4. first + Len(p) * width <= MaxTotalBranches /\ Len(p) * width = grow
  BY <1>1, <1>2, <1>3
<1>5. /\ u \in Trees /\ born \subseteq Ids
      /\ \A b \in Ids \ born :
           /\ u.state[b] = IF \E j \in DOMAIN p : p[j] = b THEN "expanded" ELSE t.state[b]
           /\ u.parent[b] = t.parent[b]
      /\ \A b \in born :
           /\ u.state[b] = "active"
           /\ ((b - first) \div width) + 1 \in DOMAIN p
           /\ u.parent[b] = p[((b - first) \div width) + 1]
      /\ Present(u) = Present(t) \cup born
  <2>1. born = first .. first + Len(p) * width - 1
    <3> DEFINE size == Len(p) * width
    <3>1. grow = size /\ grow \in Nat /\ first \in Nat
      BY <1>1, <1>3, <1>4
    <3> HIDE DEF p, first, grow, size
    <3>2. born = first .. first + size - 1
      BY <3>1
    <3> QED
      BY <3>2 DEF size
  <2>2. LET new == Size(t) .. Size(t) + Len(p) * width - 1
        IN PrefixForked(t, p, width, new)
    <3>1. Size(t) + Len(p) * width <= MaxTotalBranches
      BY <1>4
    <3> HIDE DEF p, grow, born, end, first
    <3> QED
      BY <1>2, <3>1, ForkedFields
  <2> HIDE DEF p, born
  <2> QED
    BY <2>1, <2>2 DEF PrefixForked
<1>6. TreeOK(u)
  <2> HIDE DEF p, grow
  <2> QED
    BY <1>2, <1>4, ForkEvolves DEF Evolves
<1>7. DOMAIN p = 1 .. i
  BY <1>2
<1> HIDE DEF p, u, first, grow, n
<1>8. end \in Nat /\ end <= MaxTotalBranches /\ first <= end
  BY <1>1, <1>3
<1>9. \A b \in Ids : /\ b \in born <=> (b >= first /\ b < end)
                     /\ b < first => b \notin born
                     /\ b >= end => b \notin born /\ \A j \in 1 .. i : bs[j] # b
  <2> TAKE b \in Ids
  <2>1. b \in Nat
    BY <1>1
  <2>2. b \in born <=> (b >= first /\ b < end)
    BY <1>1, <1>8, <2>1
  <2>3. ASSUME b >= end, NEW j \in 1 .. i PROVE bs[j] # b
    <3>1. bs[j] \in Ids /\ bs[j] < first
      BY <1>1
    <3>2. bs[j] \in Nat
      BY <1>1, <3>1
    <3> QED
      BY <1>1, <1>8, <2>1, <2>3, <3>1, <3>2
  <2> QED
    BY <1>1, <1>8, <2>1, <2>2, <2>3
<1>10. Size(u) = end
  <2>1. (0 .. first - 1) \cup born = 0 .. end - 1
    BY <1>1, <1>8
  <2>2. Present(u) = 0 .. end - 1
    BY <1>1, <1>5, <2>1
  <2>3. Cardinality(0 .. end - 1) = end
    <3>1. end \in Int /\ end >= 1
      BY <1>1, <1>8
    <3>2. Cardinality(0 .. end - 1) = (end - 1) - 0 + 1
      <4> DEFINE z == end - 1
      <4>1. z \in Int /\ ~(0 > z)
        <5> HIDE DEF end
        <5> QED
          BY <3>1
      <4> HIDE DEF z
      <4>2. Cardinality(0 .. z) = z - 0 + 1
        BY <4>1, FS_Interval
      <4> QED
        BY <4>2 DEF z
    <3> QED
      BY <1>8, <3>2
  <2> QED
    BY <2>2, <2>3 DEF Size, Present
<1>11. \A b \in Ids : b < first =>
         /\ u.state[b] = IF \E j \in 1 .. i : bs[j] = b THEN "expanded" ELSE t.state[b]
         /\ u.parent[b] = t.parent[b]
  BY <1>2, <1>5, <1>7, <1>9
<1>12. \A b \in Ids : b >= first /\ b < end =>
         u.state[b] = "active" /\ u.parent[b] = bs[((b - first) \div width) + 1]
  BY <1>2, <1>5, <1>7, <1>9
<1>13. \A b \in Ids : b >= end => u.state[b] = t.state[b] /\ u.parent[b] = t.parent[b]
  BY <1>2, <1>5, <1>7, <1>9
<1> QED
  BY <1>6, <1>8, <1>10, <1>11, <1>12, <1>13 DEF Grown, u, p, first, grow

\* Branches of the frontier are forked one after the other.
LEMMA ForksTold ==
  ASSUME config \in Configs, NEW t, TreeOK(t), NEW bs \in Seq(ActiveFrontier(t)), Distinct(bs),
         Size(t) + Len(bs) * ForkWidth <= MaxTotalBranches
  PROVE  Story(Image(t), Commands("fork", bs), Image(Fork(t, bs, ForkWidth)))
<1> DEFINE n == Len(bs)
           first == Size(t)
           g(i) == Grown(t, bs, ForkWidth, i)
           end(i) == first + i * ForkWidth
           v == [i \in 0 .. n |-> Image(g(i))]
           p == Commands("fork", bs)
<1>1. /\ n \in Nat /\ DOMAIN bs = 1 .. n /\ ForkWidth \in Nat \ {0}
      /\ \A i \in 1 .. n : bs[i] \in Ids /\ t.state[bs[i]] = "active"
  BY ConfigFacts DEF ActiveFrontier
<1>2. Len(p) = n /\ \A i \in 1 .. n : p[i] = Command("fork", bs[i])
  BY DEF Commands
<1>3. \A i \in 0 .. n :
        /\ TreeOK(g(i)) /\ Size(g(i)) = end(i) /\ end(i) \in Nat /\ end(i) <= MaxTotalBranches
        /\ \A b \in Ids : b < first =>
             /\ g(i).state[b] = IF \E j \in 1 .. i : bs[j] = b THEN "expanded" ELSE t.state[b]
             /\ g(i).parent[b] = t.parent[b]
        /\ \A b \in Ids : b >= first /\ b < end(i) =>
             g(i).state[b] = "active" /\ g(i).parent[b] = bs[((b - first) \div ForkWidth) + 1]
        /\ \A b \in Ids : b >= end(i) =>
             g(i).state[b] = t.state[b] /\ g(i).parent[b] = t.parent[b]
  <2> TAKE i \in 0 .. n
  <2>1. i \in 0 .. Len(bs)
    OBVIOUS
  <2> QED
    BY <1>1, <2>1, GrownFields, SMTT(60)
<1>4. /\ first \in Nat \ {0} /\ Ids \subseteq Nat
      /\ \A i \in 1 .. n : bs[i] < first
  <2>1. Present(t) = 0 .. first - 1 /\ first \in 1 .. MaxTotalBranches
    BY Numbered
  <2>2. \A i \in 1 .. n : bs[i] \in Present(t)
    BY <1>1 DEF Present
  <2> HIDE DEF first, n
  <2>3. \A b \in Present(t) : b < first
    BY <2>1
  <2> QED
    BY <2>1, <2>2, <2>3, IdsFinite, BranchTreeAssumption
<1> HIDE DEF n, first, g, p
<1>5. \A i \in 1 .. n : Replay(Image(g(i - 1)), p[i]) = Image(g(i))
  <2> TAKE i \in 1 .. n
  <2> DEFINE h == i - 1
             a == g(h)
             u == g(i)
             c == p[i]
             m == Image(a)
             r == Replay(m, c)
             lo == end(h)
             hi == end(i)
             born == lo .. lo + ForkWidth - 1
  <2>1. h \in 0 .. n /\ i \in 0 .. n /\ h \in Nat /\ h + 1 = i
    BY <1>1
  <2>2. hi = lo + ForkWidth /\ lo \in Nat /\ hi \in Nat /\ first <= lo
    <3>1. (h + 1) * ForkWidth = h * ForkWidth + ForkWidth /\ h * ForkWidth \in Nat
      BY <1>1, <2>1
    <3> QED
      BY <1>1, <1>4, <2>1, <3>1
  <2>3. /\ TreeOK(a) /\ Size(a) = lo
        /\ \A b \in Ids : b < first =>
             /\ a.state[b] = IF \E j \in 1 .. h : bs[j] = b THEN "expanded" ELSE t.state[b]
             /\ a.parent[b] = t.parent[b]
        /\ \A b \in Ids : b >= first /\ b < lo =>
             a.state[b] = "active" /\ a.parent[b] = bs[((b - first) \div ForkWidth) + 1]
        /\ \A b \in Ids : b >= lo =>
             a.state[b] = t.state[b] /\ a.parent[b] = t.parent[b]
    <3> HIDE DEF end, h
    <3> QED
      BY <1>3, <2>1
  <2>4. /\ TreeOK(u)
        /\ \A b \in Ids : b < first =>
             /\ u.state[b] = IF \E j \in 1 .. i : bs[j] = b THEN "expanded" ELSE t.state[b]
             /\ u.parent[b] = t.parent[b]
        /\ \A b \in Ids : b >= first /\ b < hi =>
             u.state[b] = "active" /\ u.parent[b] = bs[((b - first) \div ForkWidth) + 1]
        /\ \A b \in Ids : b >= hi =>
             u.state[b] = t.state[b] /\ u.parent[b] = t.parent[b]
    <3> HIDE DEF end
    <3> QED
      BY <1>3, <2>1
  <2>5. c.op = "fork" /\ c.branch = bs[i] /\ bs[i] \in Ids /\ bs[i] < first
        /\ t.state[bs[i]] = "active"
    BY <1>1, <1>2, <1>4 DEF Command
  <2>6. \A b \in Ids : b >= lo /\ b < hi => ((b - first) \div ForkWidth) + 1 = i
    <3> TAKE b \in Ids
    <3> HAVE b >= lo /\ b < hi
    <3> DEFINE x == b - first
               y == b - lo
    <3>1. b \in Nat /\ x \in Nat /\ y \in 0 .. ForkWidth - 1
      BY <1>1, <1>4, <2>2
    <3>2. x = ForkWidth * h + y
      <4>1. lo = first + h * ForkWidth /\ h * ForkWidth = ForkWidth * h /\ ForkWidth * h \in Nat
        BY <1>1, <2>1
      <4> HIDE DEF lo
      <4> QED
        BY <1>4, <2>2, <3>1, <4>1, SMTT(30)
    <3> HIDE DEF x, y
    <3>3. h = x \div ForkWidth
      BY <1>1, <2>1, <3>1, <3>2, DivUnique
    <3> QED
      BY <2>1, <3>3 DEF x
  <2>7. /\ m.state = a.state /\ m.parent = a.parent /\ m.legal = TRUE
        /\ a.state \in [Ids -> States] /\ a.parent \in [Ids -> Ids]
        /\ u \in Trees /\ u.state \in [Ids -> States] /\ u.parent \in [Ids -> Ids]
    BY <2>3, <2>4, ImageSound, TreeFields DEF TreeOK
  <2> HIDE DEF a, u, c, m
  <2>8. Size(m) = lo /\ Born(m) = born
    <3>1. Size(m) = Size(a)
      BY <2>7 DEF Size
    <3> QED
      BY <2>3, <3>1 DEF Born
  <2>9. \A b \in Ids : b \in born <=> (b >= lo /\ b < hi)
    <3> HIDE DEF lo, hi
    <3> QED
      BY <1>1, <1>4, <2>2
  <2> HIDE DEF born, lo, hi
  <2>10. /\ r = [state |-> r.state, parent |-> r.parent, legal |-> r.legal]
         /\ r.state = [b \in Ids |-> IF b \in born THEN "active"
                                    ELSE IF b = bs[i] THEN "expanded" ELSE a.state[b]]
         /\ r.parent = [b \in Ids |-> IF b \in born THEN bs[i] ELSE a.parent[b]]
         /\ r.legal = (m.legal /\ Legal(m, c))
    BY <2>5, <2>7, <2>8 DEF Replay
  <2>11. bs[i] \notin born /\ a.state[bs[i]] = "active"
    <3>1. \A j \in 1 .. h : j \in 1 .. n /\ j # i
      BY <1>1, <2>1
    <3>2. \A j \in 1 .. h : bs[j] # bs[i]
      BY <1>1, <3>1 DEF Distinct
    <3>3. bs[i] \in Nat
      BY <1>4, <2>5
    <3> QED
      BY <1>4, <2>2, <2>3, <2>5, <2>9, <3>2, <3>3
  <2>12. r.legal = TRUE
    BY <2>5, <2>7, <2>10, <2>11 DEF Legal
  <2>13. \A b \in Ids : u.state[b] = IF b \in born THEN "active"
                                     ELSE IF b = bs[i] THEN "expanded" ELSE a.state[b]
    <3> TAKE b \in Ids
    <3>0. b \in Nat
      BY <1>4
    <3>1. CASE b < first
      <4>1. b \notin born
        BY <1>4, <2>2, <2>9, <3>0, <3>1
      <4>2. (\E j \in 1 .. i : bs[j] = b) <=> (b = bs[i] \/ \E j \in 1 .. h : bs[j] = b)
        <5>1. \A j : j \in 1 .. i <=> (j = i \/ j \in 1 .. h)
          BY <2>1
        <5> HIDE DEF h
        <5> QED
          BY <5>1
      <4> HIDE DEF h
      <4> QED
        BY <2>3, <2>4, <3>1, <4>1, <4>2
    <3>2. CASE b >= first /\ b < lo
      <4>1. b \notin born /\ b # bs[i] /\ b < hi
        BY <1>1, <1>4, <2>2, <2>5, <2>9, <3>0, <3>2
      <4> QED
        BY <2>3, <2>4, <3>2, <4>1
    <3>3. CASE b >= lo /\ b < hi
      <4>1. b \in born /\ b >= first
        BY <1>4, <2>2, <2>9, <3>0, <3>3
      <4> QED
        BY <2>4, <3>3, <4>1
    <3>4. CASE b >= hi
      <4>1. b \notin born /\ b # bs[i] /\ b >= lo
        BY <1>1, <1>4, <2>2, <2>5, <2>9, <3>0, <3>4
      <4> QED
        BY <2>3, <2>4, <3>4, <4>1
    <3> QED
      BY <1>4, <2>2, <3>0, <3>1, <3>2, <3>3, <3>4
  <2>14. \A b \in Ids : u.parent[b] = IF b \in born THEN bs[i] ELSE a.parent[b]
    <3> TAKE b \in Ids
    <3>0. b \in Nat
      BY <1>4
    <3>1. CASE b < first
      <4>1. b \notin born
        BY <1>4, <2>2, <2>9, <3>0, <3>1
      <4> QED
        BY <2>3, <2>4, <3>1, <4>1
    <3>2. CASE b >= first /\ b < lo
      <4>1. b \notin born /\ b < hi
        BY <1>1, <1>4, <2>2, <2>9, <3>0, <3>2
      <4> QED
        BY <2>3, <2>4, <3>2, <4>1
    <3>3. CASE b >= lo /\ b < hi
      <4>1. b \in born /\ b >= first
        BY <1>4, <2>2, <2>9, <3>0, <3>3
      <4>2. ((b - first) \div ForkWidth) + 1 = i
        BY <2>6, <3>3
      <4> QED
        BY <2>4, <3>3, <4>1, <4>2
    <3>4. CASE b >= hi
      <4>1. b \notin born /\ b >= lo
        BY <1>1, <1>4, <2>2, <2>9, <3>0, <3>4
      <4> QED
        BY <2>3, <2>4, <3>4, <4>1
    <3> QED
      BY <1>4, <2>2, <3>0, <3>1, <3>2, <3>3, <3>4
  <2>15. r.state = u.state
    BY <2>7, <2>10, <2>13
  <2>16. r.parent = u.parent
    BY <2>7, <2>10, <2>14
  <2> HIDE DEF r
  <2>17. r = Image(u)
    BY <2>7, <2>10, <2>12, <2>15, <2>16, ImageIs
  <2> QED
    BY <2>17 DEF r, m, c, a, u
<1>6. \A i \in 0 .. n : v[i] \in Sound
  <2> HIDE DEF end
  <2> QED
    BY <1>3, ImageSound DEF TreeOK
<1>7. v[0] = Image(t)
  <2> DEFINE a == g(0)
  <2>1. 0 \in 0 .. n /\ end(0) = first
    BY <1>1, <1>4
  <2>2. TreeOK(a) /\ \A b \in Ids : a.state[b] = t.state[b] /\ a.parent[b] = t.parent[b]
    <3>1. \A j \in 1 .. 0 : FALSE
      OBVIOUS
    <3>2. \A b \in Ids : b < first \/ b >= first
      BY <1>4
    <3> HIDE DEF end
    <3> QED
      BY <1>3, <2>1, <3>1, <3>2
  <2>3. /\ a.state \in [Ids -> States] /\ a.parent \in [Ids -> Ids]
        /\ t.state \in [Ids -> States] /\ t.parent \in [Ids -> Ids]
    BY <2>2, TreeFields DEF TreeOK
  <2> HIDE DEF a
  <2>4. a.state = t.state
    BY <2>2, <2>3
  <2>5. a.parent = t.parent
    BY <2>2, <2>3
  <2>6. v[0] = Image(a)
    BY <2>1 DEF a
  <2> HIDE DEF v
  <2> QED
    BY <2>4, <2>5, <2>6 DEF Image
<1>8. \A i \in 1 .. n : v[i] = Replay(v[i - 1], p[i])
  <2> TAKE i \in 1 .. n
  <2>1. i - 1 \in 0 .. n /\ i \in 0 .. n
    BY <1>1
  <2> QED
    BY <1>5, <2>1
<1>9. v[n] = Image(Fork(t, bs, ForkWidth))
  <2>1. SubSeq(bs, 1, n) = bs
    BY DEF n
  <2>2. n \in 0 .. n
    BY <1>1
  <2> QED
    BY <2>1, <2>2 DEF g, Grown
<1> HIDE DEF v
<1>10. Replays(v, Image(t), p)
  BY <1>2, <1>6, <1>7, <1>8 DEF Replays
<1>11. Story(Image(t), p, Image(Fork(t, bs, ForkWidth)))
  BY <1>2, <1>9, <1>10 DEF Story
<1> QED
  BY <1>11 DEF p
-----------------------------------------------------------------------------
(* The orders branches are closed in are orderly.                          *)

\* Listing branches, each once, by their numbers.
LEMMA ListingOrder ==
  ASSUME NEW S \in SUBSET Ids
  PROVE  /\ Ascending(S) \in Seq(S) /\ Distinct(Ascending(S))
         /\ \A i, j \in DOMAIN Descending(S) : i < j => Descending(S)[i] > Descending(S)[j]
<1> DEFINE q == Ascending(S)
           n == Len(q)
           r == Descending(S)
<1>1. S \in SUBSET Int /\ IsFiniteSet(S)
  <2>1. IsFiniteSet(S)
    BY ListsOfBranches
  <2>2. Ids \in SUBSET Nat
    BY IdsFinite
  <2> QED
    BY <2>1, <2>2
<1>2. q \in Seq(S) /\ \A i, j \in DOMAIN q : i < j => q[i] < q[j]
  BY <1>1, AscendingListing
<1>3. r = [i \in 1 .. n |-> q[(n - i) + 1]]
  BY DEF Descending, Reverse
<1> HIDE DEF q, r
<1>4. n \in Nat /\ DOMAIN q = 1 .. n /\ DOMAIN r = 1 .. n /\ \A i \in 1 .. n : q[i] \in Int
  <2>1. n \in Nat /\ DOMAIN q = 1 .. n /\ \A i \in 1 .. n : q[i] \in S
    BY <1>2
  <2> HIDE DEF n
  <2>2. DOMAIN r = 1 .. n
    BY <1>3
  <2> QED
    BY <1>1, <2>1, <2>2
<1> HIDE DEF n
<1>5. ASSUME NEW i \in DOMAIN q, NEW j \in DOMAIN q, i # j PROVE q[i] # q[j]
  BY <1>2, <1>4, <1>5
<1>6. ASSUME NEW i \in DOMAIN r, NEW j \in DOMAIN r, i < j PROVE r[i] > r[j]
  <2>1. /\ (n - i) + 1 \in DOMAIN q /\ (n - j) + 1 \in DOMAIN q
        /\ (n - j) + 1 < (n - i) + 1
    BY <1>4, <1>6
  <2>2. q[(n - j) + 1] < q[(n - i) + 1] /\ q[(n - j) + 1] \in Int /\ q[(n - i) + 1] \in Int
    BY <1>2, <1>4, <2>1
  <2>3. r[i] = q[(n - i) + 1] /\ r[j] = q[(n - j) + 1]
    BY <1>3, <1>4, <1>6
  <2> QED
    BY <2>2, <2>3
<1> QED
  BY <1>2, <1>5, <1>6 DEF q, r, Distinct

\* Branches of the frontier have no children.
LEMMA FrontierOrderly ==
  ASSUME NEW t, TreeOK(t), NEW S, S \subseteq ActiveFrontier(t)
  PROVE  Orderly(t, Ascending(S))
<1>1. S \in SUBSET Ids /\ \A b \in S : IsLive(t, b) /\ t.state[b] = "active"
  BY DEF ActiveFrontier, IsLive
<1>2. \A b \in S : Children(t, b) = {}
  BY <1>1 DEF Children, TreeOK, Present
<1> DEFINE q == Ascending(S)
<1>3. q \in Seq(S) /\ Distinct(q)
  BY <1>1, ListingOrder
<1> HIDE DEF q
<1>4. \A i \in DOMAIN q : q[i] \in S
  BY <1>3
<1> QED
  BY <1>1, <1>2, <1>3, <1>4 DEF Orderly, Distinct, q

\* Reclaimed ancestors die from the youngest up.
LEMMA ReclaimedOrderly ==
  ASSUME NEW t, TreeOK(t), NEW b \in Present(t)
  PROVE  Orderly(t, Descending(Reclaimed(t, b)))
<1> DEFINE R == Reclaimed(t, b)
           q == Descending(R)
           above == Ancestors(t, b)
           Done(a) == \A c \in Children(t, a) : IsTerminal(t, c) \/ c \in above
<1>1. R = {a \in above : IsLive(t, a) /\ \A x \in above : x >= a /\ IsLive(t, x) => Done(x)}
  BY DEF Reclaimed
<1>2. above \subseteq Present(t) /\ above \in SUBSET Ids
  BY AncestorsAbove DEF Present
<1>3. R \in SUBSET Ids
  BY <1>1, <1>2
<1>4. q \in Seq(Ids) /\ {q[i] : i \in DOMAIN q} = R
  BY <1>3, ListsOfBranches
<1>5. \A i, j \in DOMAIN q : i < j => q[i] > q[j]
  BY <1>3, ListingOrder
<1> HIDE DEF R, q, above
<1>6. \A i \in DOMAIN q : i \in Int /\ q[i] \in Int /\ q[i] \in R
  <2>1. \A i \in DOMAIN q : i \in Int
    BY <1>4
  <2>2. \A i \in DOMAIN q : q[i] \in R
    BY <1>4
  <2>3. \A x \in R : x \in Int
    BY <1>3, IdsFinite
  <2> QED
    BY <2>1, <2>2, <2>3
<1>7. ASSUME NEW i \in DOMAIN q, NEW j \in DOMAIN q, i # j PROVE q[i] # q[j]
  BY <1>5, <1>6, <1>7
<1>8. ASSUME NEW i \in DOMAIN q, NEW c \in Children(t, q[i]), ~IsTerminal(t, c)
      PROVE  \E j \in DOMAIN q : j < i /\ q[j] = c
  <2>1. /\ q[i] \in above /\ IsLive(t, q[i]) /\ q[i] \in Ids
        /\ \A x \in above : x >= q[i] /\ IsLive(t, x) => Done(x)
    BY <1>1, <1>2, <1>6
  <2>2. c \in above
    <3>1. q[i] >= q[i]
      BY <1>6
    <3> QED
      BY <1>8, <2>1, <3>1
  <2>3. c \in Ids \ {Root} /\ t.parent[c] = q[i] /\ t.state[c] # "absent"
    BY DEF Children
  <2>4. q[i] < c /\ c \in Int
    BY <2>3, IdsFinite DEF TreeOK
  <2>5. IsLive(t, c)
    BY <1>8, <2>3, TreeFields DEF TreeOK, IsLive, IsTerminal, States
  <2>6. c \in R
    <3>1. ASSUME NEW x \in above, x >= c, IsLive(t, x) PROVE Done(x)
      <4>1. x \in Int
        BY <1>2, IdsFinite
      <4>2. x >= q[i]
        BY <1>6, <2>4, <3>1, <4>1
      <4> QED
        BY <2>1, <3>1, <4>2
    <3> HIDE DEF Done
    <3> QED
      BY <1>1, <2>2, <2>5, <3>1
  <2>7. PICK j \in DOMAIN q : q[j] = c
    BY <1>4, <2>6
  <2>8. j < i
    BY <1>5, <1>6, <2>4, <2>7
  <2> QED
    BY <2>7, <2>8
<1>9. \A i \in DOMAIN q : IsLive(t, q[i])
  BY <1>1, <1>6
<1> QED
  BY <1>7, <1>8, <1>9 DEF Orderly, q, R

\* A branch has a lower round than its parent.
LEMMA RoundBelow ==
  ASSUME NEW t, TreeOK(t), Linked(t), NEW b \in Expanded(t), NEW c \in Expanded(t),
         c \in Children(t, b)
  PROVE  Rounds(t)[c] < Rounds(t)[b]
<1> DEFINE rb == Rounds(t)[b]
           rc == Rounds(t)[c]
<1>1. b \in Ids /\ c \in Ids \ {Root} /\ t.parent[c] = b /\ c \in Present(t)
  BY DEF Expanded, Children, Present
<1>2. t.depth[c] = t.depth[b] + 1
  BY <1>1 DEF Linked
<1>3. b \in Ancestors(t, c)
  BY <1>1, AncestorsStep
<1>4. \A x \in Ids : c \in Ancestors(t, x) => b \in Ancestors(t, x)
  BY <1>3, AncestorsLine DEF LineOf
<1>5. \A x \in Ids : t.depth[x] \in Nat
  BY TreeFields DEF TreeOK
<1>6. /\ rb \in Int /\ \A h \in Heights(t, b) : h \in Int /\ rb >= h
      /\ rc \in Int /\ rc \in Heights(t, c)
  BY RoundIsHighest
<1> HIDE DEF rb, rc
<1>7. CASE rc = 0
  <2>1. t.depth[c] - t.depth[b] \in Heights(t, b)
    BY <1>3 DEF Heights
  <2>2. rb >= t.depth[c] - t.depth[b]
    BY <1>6, <2>1
  <2> QED
    BY <1>1, <1>2, <1>5, <1>6, <1>7, <2>2 DEF rb, rc
<1>8. CASE rc # 0
  <2>1. PICK x \in Expanded(t) : c \in Ancestors(t, x) /\ rc = t.depth[x] - t.depth[c]
    BY <1>6, <1>8 DEF Heights
  <2>2. x \in Ids
    BY DEF Expanded
  <2>3. t.depth[x] - t.depth[b] \in Heights(t, b)
    BY <1>4, <2>1, <2>2 DEF Heights
  <2>4. rb >= t.depth[x] - t.depth[b]
    BY <1>6, <2>3
  <2> QED
    BY <1>1, <1>2, <1>5, <1>6, <2>1, <2>2, <2>4 DEF rb, rc
<1> QED
  BY <1>7, <1>8

\* When no branch is active the expanded ones die children first.
LEMMA TerminationOrderly ==
  ASSUME NEW t, TreeOK(t), Linked(t), ActiveFrontier(t) = {}
  PROVE  Orderly(t, TerminationOrder(t))
<1> DEFINE q == TerminationOrder(t)
<1>1. /\ q \in Seq(Ids) /\ {q[i] : i \in DOMAIN q} = Expanded(t)
      /\ \A i, j \in DOMAIN q : i < j => Earlier(t, q[i], q[j])
  BY TerminationListing DEF Expanded
<1> HIDE DEF q
<1>2. \A i \in DOMAIN q : i \in Int /\ q[i] \in Expanded(t)
  BY <1>1
<1>3. \A b \in Expanded(t) :
        b \in Int /\ IsLive(t, b) /\ t.depth[b] \in Int /\ Rounds(t)[b] \in Int
  <2> SUFFICES ASSUME NEW b \in Expanded(t)
               PROVE  b \in Int /\ IsLive(t, b) /\ t.depth[b] \in Int /\ Rounds(t)[b] \in Int
    OBVIOUS
  <2>1. b \in Ids /\ t.state[b] = "expanded"
    BY DEF Expanded
  <2>2. t.depth[b] \in Nat
    BY <2>1, TreeFields DEF TreeOK
  <2>3. Rounds(t)[b] \in Int
    BY RoundIsHighest
  <2> QED
    BY <2>1, <2>2, <2>3, IdsFinite DEF IsLive
<1>4. ASSUME NEW a \in Expanded(t) PROVE ~Earlier(t, a, a)
  BY <1>3 DEF Earlier
<1>5. ASSUME NEW i \in DOMAIN q, NEW j \in DOMAIN q, i # j PROVE q[i] # q[j]
  BY <1>1, <1>2, <1>4, <1>5
<1>6. ASSUME NEW i \in DOMAIN q, NEW c \in Children(t, q[i]), ~IsTerminal(t, c)
      PROVE  \E j \in DOMAIN q : j < i /\ q[j] = c
  <2>1. c \in Expanded(t)
    BY <1>6, TreeFields DEF TreeOK, Children, IsTerminal, States, ActiveFrontier, Expanded
  <2>2. PICK j \in DOMAIN q : q[j] = c
    BY <1>1, <2>1
  <2>3. Rounds(t)[c] < Rounds(t)[q[i]]
    BY <1>2, <2>1, RoundBelow
  <2>4. ~Earlier(t, q[i], q[j]) /\ i # j
    BY <1>2, <1>3, <2>2, <2>3 DEF Earlier
  <2>5. j < i
    BY <1>1, <1>2, <2>4
  <2> QED
    BY <2>2, <2>5
<1> QED
  BY <1>2, <1>3, <1>5, <1>6 DEF Orderly, q

-----------------------------------------------------------------------------
(* The scheduler while it handles an event: the commands emitted tell what *)
(* became of the tree since the event began.                               *)

\* When the frontier is empty some branch was finalized.
Fruitful(t) == ActiveFrontier(t) = {} => \E b \in Ids : t.state[b] = "finalized"

\* What is emitted in s tells how t became the tree of s, which is whole but
\* above the branches of D.
Told(t, s, D) ==
  Whole(s.tree, D) /\ Story(Image(t), s.emitted, Image(s.tree))

LEMMA FruitfulOn ==
  ASSUME NEW t, NEW u, Fruitful(t), Lasting(t, u),
         ActiveFrontier(t) # {} => ActiveFrontier(u) # {}
  PROVE  Fruitful(u)
BY DEF Fruitful, Lasting

LEMMA LastingOn ==
  ASSUME NEW t, NEW u, NEW w, Lasting(t, u), Lasting(u, w)
  PROVE  Lasting(t, w)
BY DEF Lasting

LEMMA EmittingTold ==
  ASSUME NEW t, NEW s, Handler(s), NEW D, Told(t, s, D), NEW u, NEW E, Whole(u, E),
         NEW es \in Seq(CommandSet), Story(Image(s.tree), es, Image(u))
  PROVE  Told(t, Emitting(s, u, es), E)
<1> DEFINE r == Emitting(s, u, es)
<1>1. TreeOK(u)
  BY DEF Whole
<1>2. r.tree = u /\ r.emitted = s.emitted \o es
  BY <1>1, EmittingFields
<1> HIDE DEF r
<1>3. s.emitted \in Seq(CommandSet)
  BY HandlerFields DEF Handler
<1>4. Story(Image(t), s.emitted \o es, Image(u))
  BY <1>3, StoryOn DEF Told
<1> QED
  BY <1>2, <1>4 DEF Told, r

LEMMA ReclaimTold ==
  ASSUME NEW t, NEW s, Handler(s), NEW D, Told(t, s, D), NEW b \in Present(s.tree)
  PROVE  Told(t, Reclaim(s, b), D \ {b}) /\ Lasting(s.tree, Reclaim(s, b).tree)
<1> DEFINE dead == Reclaimed(s.tree, b)
           u == Kill(s.tree, dead)
           q == Descending(dead)
           es == Commands("kill", q)
<1>1. TreeOK(s.tree) /\ Whole(s.tree, D)
  BY DEF Handler, Told
<1>2. Orderly(s.tree, q)
  BY <1>1, ReclaimedOrderly
<1>3. Whole(u, D \ {b}) /\ Lasting(s.tree, u)
  BY <1>1, ReclaimWhole
<1>4. Reclaim(s, b) = Emitting(s, u, es)
  BY DEF Reclaim, Emitting
<1>5. dead \in SUBSET Ids
  BY <1>1, AncestorsAbove DEF Reclaimed, Present
<1>6. q \in Seq(Ids) /\ {q[i] : i \in DOMAIN q} = dead
  BY <1>5, ListsOfBranches
<1> HIDE DEF q, dead
<1>7. es \in Seq(CommandSet)
  BY <1>6, CommandsOf
<1>8. Story(Image(s.tree), es, Image(u))
  BY <1>1, <1>2, <1>6, KillsTold
<1> HIDE DEF es, u
<1>9. Told(t, Emitting(s, u, es), D \ {b})
  BY <1>3, <1>7, <1>8, EmittingTold
<1>10. TreeOK(u)
  BY <1>3 DEF Whole
<1>11. Emitting(s, u, es).tree = u
  BY <1>7, <1>10, EmittingFields
<1> QED
  BY <1>3, <1>4, <1>9, <1>11

\* A branch of the frontier is closed.
LEMMA CloseTold ==
  ASSUME NEW t, NEW s, Handler(s), Told(t, s, {}), NEW b \in ActiveFrontier(s.tree),
         NEW op \in {"kill", "finalize"}, NEW u, TreeOK(u), u.parent = s.tree.parent,
         u.depth = s.tree.depth, u.state[b] = Closing(op),
         \A c \in Ids \ {b} : u.state[c] = s.tree.state[c],
         NEW r, r = Reclaim(Emitting(s, u, <<Command(op, b)>>), b)
  PROVE  Told(t, r, {}) /\ Lasting(s.tree, r.tree)
<1> DEFINE c == Command(op, b)
           x == Emitting(s, u, <<c>>)
<1>1. TreeOK(s.tree) /\ Whole(s.tree, {}) /\ b \in Ids /\ s.tree.state[b] = "active"
  BY DEF Handler, Told, ActiveFrontier
<1>2. Whole(u, {b}) /\ Lasting(s.tree, u)
  <2> DEFINE S == {b}
  <2>1. S \subseteq ActiveFrontier(s.tree) /\ \A y \in Ids \ S : u.state[y] = s.tree.state[y]
    OBVIOUS
  <2>2. \A y \in S : u.state[y] \in {"killed", "finalized"}
    BY DEF Closing
  <2> HIDE DEF S
  <2>3. Whole(u, {} \cup S) /\ Lasting(s.tree, u)
    BY <1>1, <2>1, <2>2, CutWhole
  <2>4. {} \cup S = {b}
    BY DEF S
  <2> QED
    BY <2>3, <2>4
<1>3. c \in CommandSet /\ c.op # "continue" /\ c.branch = b
  BY <1>1 DEF Command, CommandSet
<1>4. Replay(Image(s.tree), c) = Image(u)
  <2>1. Children(s.tree, b) = {}
    BY <1>1 DEF Children, TreeOK, Present
  <2>2. IsLive(s.tree, b)
    BY <1>1 DEF IsLive
  <2> QED
    BY <1>1, <2>1, <2>2, CloseReplayed
<1> HIDE DEF c
<1>5. <<c>> \in Seq(CommandSet)
  BY <1>3
<1>6. Story(Image(s.tree), <<c>>, Image(u))
  <2>1. Image(s.tree) \in Sound /\ Image(u) \in Sound
    BY <1>1, ImageSound DEF TreeOK
  <2>2. Story(Image(s.tree), <<>>, Image(s.tree))
    BY <2>1, StoryNone
  <2>3. <<>> \in Seq(CommandSet) /\ Append(<<>>, c) = <<c>>
    BY <1>3
  <2> DEFINE none == <<>>
  <2>4. Story(Image(s.tree), Append(none, c), Replay(Image(s.tree), c))
    <3>1. none \in Seq(CommandSet) /\ Story(Image(s.tree), none, Image(s.tree))
      BY <2>2, <2>3
    <3>2. Replay(Image(s.tree), c) \in Sound
      BY <1>4, <2>1
    <3> HIDE DEF none
    <3> QED
      BY <3>1, <3>2, StoryMore
  <2> QED
    BY <1>4, <2>3, <2>4
<1> DEFINE es == <<c>>
<1>7. es \in Seq(CommandSet) /\ Story(Image(s.tree), es, Image(u)) /\ x = Emitting(s, u, es)
  BY <1>5, <1>6
<1> HIDE DEF es, x
<1>8. Told(t, x, {b}) /\ Handler(x) /\ x.tree = u
  BY <1>2, <1>7, EmittingTold, EmittingFields
<1>9. b \in Present(x.tree)
  BY <1>1, <1>8 DEF Present, Closing
<1>10. Told(t, Reclaim(x, b), {b} \ {b}) /\ Lasting(u, Reclaim(x, b).tree)
  BY <1>8, <1>9, ReclaimTold
<1>11. {b} \ {b} = {}
  OBVIOUS
<1>12. r = Reclaim(x, b)
  BY DEF x, c
<1> QED
  BY <1>2, <1>10, <1>11, <1>12, LastingOn

LEMMA KillTold ==
  ASSUME NEW t, NEW s, Handler(s), Told(t, s, {}), NEW b \in ActiveFrontier(s.tree)
  PROVE  Told(t, KillBranch(s, b), {}) /\ Lasting(s.tree, KillBranch(s, b).tree)
<1> DEFINE c == Command("kill", b)
           S == {b}
           u == Kill(s.tree, S)
           x == [s EXCEPT !.tree = u, !.emitted = Append(@, c)]
           r == KillBranch(s, b)
<1>1. b \in Ids /\ TreeOK(s.tree) /\ S \subseteq Present(s.tree)
  BY DEF Handler, ActiveFrontier, Present
<1>2. c \in CommandSet /\ c.op # "continue"
  BY <1>1 DEF Command, CommandSet
<1>3. r = Reclaim(x, b)
  BY DEF KillBranch
<1>4. /\ TreeOK(u) /\ u.parent = s.tree.parent /\ u.depth = s.tree.depth
      /\ \A y \in Ids : u.state[y] = IF y \in S THEN "killed" ELSE s.tree.state[y]
  <2> HIDE DEF S
  <2> QED
    BY <1>1, KillEvolves, KillFields DEF Evolves
<1>5. u.state[b] = Closing("kill") /\ \A y \in Ids \ {b} : u.state[y] = s.tree.state[y]
  BY <1>1, <1>4 DEF Closing
<1> HIDE DEF u
<1>6. x = Emitting(s, u, <<c>>)
  <2> HIDE DEF c
  <2> QED
    BY <1>2, AppendingOne
<1>7. r = Reclaim(Emitting(s, u, <<Command("kill", b)>>), b)
  BY <1>3, <1>6
<1> HIDE DEF r, x
<1>8. Told(t, r, {}) /\ Lasting(s.tree, r.tree)
  BY <1>4, <1>5, <1>7, CloseTold
<1> QED
  BY <1>8 DEF r

LEMMA FinalizeTold ==
  ASSUME NEW t, NEW s, Handler(s), Told(t, s, {}), NEW b \in ActiveFrontier(s.tree)
  PROVE  LET r == FinalizeBranch(s, b)
         IN Told(t, r, {}) /\ Lasting(s.tree, r.tree) /\ r.tree.state[b] = "finalized"
<1> DEFINE c == Command("finalize", b)
           S == {b}
           u == Finalize(s.tree, S)
           x == [s EXCEPT !.tree = u, !.emitted = Append(@, c)]
           r == FinalizeBranch(s, b)
<1>1. /\ b \in Ids /\ TreeOK(s.tree)
      /\ S \subseteq ActiveFrontier(s.tree) /\ S \subseteq Present(s.tree)
  BY DEF Handler, ActiveFrontier, Present
<1>2. c \in CommandSet /\ c.op # "continue"
  BY <1>1 DEF Command, CommandSet
<1>3. r = Reclaim(x, b)
  BY DEF FinalizeBranch
<1>4. /\ TreeOK(u) /\ u.parent = s.tree.parent /\ u.depth = s.tree.depth
      /\ \A y \in Ids : u.state[y] = IF y \in S THEN "finalized" ELSE s.tree.state[y]
  <2> HIDE DEF S
  <2> QED
    BY <1>1, FinalizeEvolves, FinalizeFields DEF Evolves
<1>5. u.state[b] = Closing("finalize") /\ \A y \in Ids \ {b} : u.state[y] = s.tree.state[y]
  BY <1>1, <1>4, SMTT(30) DEF Closing
<1> HIDE DEF u
<1>6. x = Emitting(s, u, <<c>>)
  <2> HIDE DEF c
  <2> QED
    BY <1>2, AppendingOne
<1>7. r = Reclaim(Emitting(s, u, <<Command("finalize", b)>>), b)
  BY <1>3, <1>6
<1>8. Told(t, r, {}) /\ Lasting(s.tree, r.tree)
  <2> HIDE DEF r, x
  <2> QED
    BY <1>4, <1>5, <1>7, CloseTold
<1>9. r.tree.state[b] = "finalized"
  <2> DEFINE es == <<c>>
             y == Emitting(s, u, es)
  <2>1. es \in Seq(CommandSet) /\ Handler(s) /\ TreeOK(u)
    BY <1>2, <1>4
  <2> HIDE DEF es
  <2>2. y.tree = u
    BY <2>1, EmittingFields
  <2>3. r = Reclaim(y, b)
    BY <1>7 DEF es
  <2> HIDE DEF y, r
  <2>4. r.tree.state[b] = IF b \in Reclaimed(u, b) THEN "killed" ELSE u.state[b]
    <3>1. Reclaim(y, b).tree = Kill(u, Reclaimed(u, b))
      <4>1. y \in Handlers
        BY <2>1, EmittingFields DEF y, Handler
      <4> QED
        BY <2>2, <4>1 DEF Reclaim, Handlers
    <3> QED
      BY <1>1, <1>4, <2>3, <3>1, KillFields
  <2>5. b \notin Ancestors(u, b)
    BY <1>1, <1>4, AncestorsLine, IdsFinite DEF LineOf
  <2>6. b \notin Reclaimed(u, b)
    BY <2>5 DEF Reclaimed
  <2> QED
    BY <1>5, <2>4, <2>6 DEF Closing
<1> HIDE DEF r
<1> QED
  BY <1>8, <1>9 DEF r

\* The branch with the best value is not hopeless.
LEMMA SomeHopeful ==
  ASSUME NEW t, TreeOK(t), KillMargin \in Nat, ActiveFrontier(t) # {}
  PROVE  ActiveFrontier(t) \ Hopeless(t) # {}
<1> DEFINE A == ActiveFrontier(t)
           S == {b \in A : t.hasValue[b]}
           R == {p \in S \X S : t.value[p[1]] > t.value[p[2]]
                                \/ (t.value[p[1]] = t.value[p[2]] /\ p[1] < p[2])}
<1>1. Hopeless(t) = {b \in S : \E c \in S : t.value[c] - t.value[b] > KillMargin}
  BY DEF Hopeless
<1>2. S \in SUBSET Ids /\ S \subseteq A
  BY DEF ActiveFrontier
<1> HIDE DEF S
<1>3. \A b \in S : b \in Int /\ t.value[b] \in Int
  BY <1>2, IdsFinite, TreeFields DEF TreeOK
<1>4. CASE S = {}
  BY <1>1, <1>4
<1>5. CASE S # {}
  <2>1. \A x, y \in S : <<x, y>> \in R <=>
          (t.value[x] > t.value[y] \/ (t.value[x] = t.value[y] /\ x < y))
    OBVIOUS
  <2> HIDE DEF R
  <2>2. StrictOrder(R, S)
    BY <1>3, <2>1 DEF StrictOrder
  <2>3. IsFiniteSet(S)
    BY <1>2, ListsOfBranches
  <2>4. PICK b \in S : \A c \in S \ {b} : <<b, c>> \in R
    BY <1>5, <2>2, <2>3, FirstExists
  <2>5. ASSUME NEW c \in S PROVE ~(t.value[c] - t.value[b] > KillMargin)
    <3>1. t.value[b] \in Int /\ t.value[c] \in Int
      BY <1>3
    <3>2. c = b \/ t.value[b] > t.value[c] \/ t.value[b] = t.value[c]
      BY <2>1, <2>4
    <3> QED
      BY <3>1, <3>2
  <2>6. b \in A \ Hopeless(t)
    BY <1>1, <1>2, <2>5
  <2> QED
    BY <2>6
<1> QED
  BY <1>4, <1>5

\* A speculative prune is told of, and leaves a branch active.
LEMMA PruneTold ==
  ASSUME config \in Configs, NEW t, NEW s, Handler(s), Told(t, s, {})
  PROVE  LET r == SpeculativePrune(s)
         IN /\ Told(t, r, {}) /\ Lasting(s.tree, r.tree)
            /\ ActiveFrontier(s.tree) # {} => ActiveFrontier(r.tree) # {}
<1>1. CASE KillMargin = NoMargin
  <2>1. SpeculativePrune(s) = s
    BY <1>1 DEF SpeculativePrune
  <2> QED
    BY <2>1 DEF Lasting
<1>2. CASE KillMargin # NoMargin
  <2> DEFINE A == ActiveFrontier(s.tree)
             H == Hopeless(s.tree)
             q == Ascending(H)
             n == Len(q)
  <2>1. H \subseteq A
    BY DEF Hopeless
  <2>2. A # {} => A \ H # {}
    <3>1. KillMargin \in Nat
      BY <1>2, SchedulerCoreAssumption DEF KillMargin
    <3> QED
      BY <3>1, SomeHopeful DEF Handler
  <2> HIDE DEF H
  <2>3. H \in SUBSET Ids
    BY <2>1 DEF ActiveFrontier
  <2>4. q \in Seq(H) /\ Distinct(q) /\ {q[i] : i \in DOMAIN q} = H
    BY <2>3, ListsOfBranches, ListingOrder
  <2> HIDE DEF q
  <2>5. /\ n \in Nat /\ DOMAIN q = 1 .. n /\ \A i \in 1 .. n : q[i] \in H
        /\ \A i, j \in 1 .. n : i # j => q[i] # q[j]
    BY <2>4 DEF Distinct
  <2> HIDE DEF n
  <2>6. PICK v : /\ v[0] = s
                 /\ \A i \in 1 .. n : v[i] = KillBranch(v[i - 1], q[i])
                 /\ SpeculativePrune(s) = v[n]
    <3>1. q = Ascending(Hopeless(s.tree))
      BY DEF q, H
    <3>2. n \in Nat /\ DOMAIN q = 1 .. n
      BY <2>5
    <3> QED
      BY <1>2, <3>1, <3>2, PruneSteps
  <2> DEFINE P(i) == /\ Handler(v[i]) /\ Told(t, v[i], {}) /\ Lasting(s.tree, v[i].tree)
                     /\ ActiveFrontier(v[i].tree) = A \ {q[j] : j \in 1 .. i}
             Good == {i \in 0 .. n : P(i)}
  <2>7. 0 \in Good
    <3>1. {q[j] : j \in 1 .. 0} = {}
      OBVIOUS
    <3>2. P(0)
      BY <2>6, <3>1 DEF Lasting
    <3> HIDE DEF P
    <3> QED
      BY <2>5, <3>2
  <2>8. \A i \in 0 .. n - 1 : i \in Good => i + 1 \in Good
    <3> SUFFICES ASSUME NEW i \in 0 .. n - 1, P(i) PROVE i + 1 \in 0 .. n /\ P(i + 1)
      OBVIOUS
    <3>1. i + 1 \in 1 .. n /\ (i + 1) - 1 = i /\ i + 1 \in 0 .. n /\ i \in Nat
      BY <2>5
    <3>2. v[i + 1] = KillBranch(v[i], q[i + 1])
      BY <2>6, <3>1
    <3>3. q[i + 1] \in ActiveFrontier(v[i].tree)
      <4>1. \A j \in 1 .. i : j \in 1 .. n /\ j # i + 1
        BY <2>5, <3>1
      <4>2. q[i + 1] \in A /\ \A j \in 1 .. i : q[j] # q[i + 1]
        BY <2>1, <2>5, <3>1, <4>1
      <4> QED
        BY <4>2
    <3>4. q[i + 1] \in Present(v[i].tree)
      BY <3>3 DEF ActiveFrontier, Present
    <3>5. /\ Handler(v[i + 1]) /\ Told(t, v[i + 1], {}) /\ Lasting(v[i].tree, v[i + 1].tree)
          /\ ActiveFrontier(v[i + 1].tree) = ActiveFrontier(v[i].tree) \ {q[i + 1]}
      BY <3>2, <3>3, <3>4, KillTold, KillSteps DEF Handling
    <3>6. {q[j] : j \in 1 .. i + 1} = {q[j] : j \in 1 .. i} \cup {q[i + 1]}
      <4>1. 1 .. i + 1 = (1 .. i) \cup {i + 1}
        BY <3>1
      <4> QED
        BY <4>1
    <3>7. Lasting(s.tree, v[i + 1].tree)
      BY <3>5, LastingOn
    <3> QED
      BY <3>1, <3>5, <3>6, <3>7
  <2>9. P(n)
    <3>1. 0 .. n \subseteq Good
      <4> HIDE DEF Good
      <4> QED
        BY <2>5, <2>7, <2>8, IntervalInduction
    <3>2. n \in 0 .. n
      BY <2>5
    <3> HIDE DEF P
    <3> QED
      BY <3>1, <3>2
  <2>10. {q[j] : j \in 1 .. n} = H
    BY <2>4, <2>5
  <2> QED
    BY <2>2, <2>6, <2>9, <2>10
<1> QED
  BY <1>1, <1>2

\* Terminating the tree finalizes a branch of the frontier, if there is one,
\* and is told of.
LEMMA TerminateTold ==
  ASSUME NEW t, NEW s, Handler(s), Told(t, s, {}), Fruitful(s.tree)
  PROVE  LET r == Terminate(s)
         IN Told(t, r, {}) /\ Fruitful(r.tree) /\ Handler(r)
<1> DEFINE x == s.tree
           A == ActiveFrontier(x)
           score(b) == IF x.hasValue[b] THEN x.value[b] ELSE x.logprob[b]
           better(a, b) ==
             \/ x.hasValue[a] /\ ~x.hasValue[b]
             \/ x.hasValue[a] = x.hasValue[b] /\ score(a) > score(b)
             \/ x.hasValue[a] = x.hasValue[b] /\ score(a) = score(b) /\ a < b
           best == {b \in A : \A c \in A \ {b} : better(b, c)}
           rest == A \ best
           thinned == Kill(x, rest)
           closed == Finalize(thinned, best)
           order == TerminationOrder(closed)
           u == Kill(closed, Range(order))
           K == Commands("kill", Ascending(rest))
           F == Commands("finalize", Ascending(best))
           E == Commands("kill", order)
           r == [s EXCEPT !.tree = u, !.emitted = s.emitted \o K \o F \o E]
<1>1. Terminate(s) = r
  BY Zenon DEF Terminate
<1>2. x \in Trees /\ TreeOK(x) /\ Whole(x, {}) /\ A \in SUBSET Ids /\ s \in Handlers
      /\ s.emitted \in Seq(CommandSet)
  BY HandlerFields DEF Handler, Told, TreeOK, ActiveFrontier
<1>3. A # {} => best # {}
  <2> DEFINE R == {p \in A \X A : better(p[1], p[2])}
  <2>1. \A b, c \in A : <<b, c>> \in R <=> better(b, c)
    <3> HIDE DEF A, better
    <3>1. \A b, c : <<b, c>>[1] = b /\ <<b, c>>[2] = c
      OBVIOUS
    <3> QED
      BY <3>1, Zenon
  <2> HIDE DEF R
  <2>2. \A b \in A : /\ b \in Int /\ x.value[b] \in Int /\ x.logprob[b] \in Int
                     /\ x.hasValue[b] \in BOOLEAN /\ score(b) \in Int
    <3> SUFFICES ASSUME NEW b \in A
                 PROVE  /\ b \in Int /\ x.value[b] \in Int /\ x.logprob[b] \in Int
                        /\ x.hasValue[b] \in BOOLEAN /\ score(b) \in Int
      OBVIOUS
    <3>1. b \in Ids
      BY <1>2
    <3> HIDE DEF A, x, better
    <3>2. /\ b \in Int /\ x.value[b] \in Int /\ x.logprob[b] \in Int
          /\ x.hasValue[b] \in BOOLEAN
      BY <1>2, <3>1, IdsFinite, TreeFields
    <3> QED
      BY <3>2
  <2> HIDE DEF score
  <2>3. StrictOrder(R, A)
    <3>1. ASSUME NEW b \in A PROVE <<b, b>> \notin R
      BY <2>1, <2>2
    <3>2. ASSUME NEW b \in A, NEW c \in A, b # c PROVE <<b, c>> \in R \/ <<c, b>> \in R
      BY <2>1, <2>2, <3>2
    <3>3. ASSUME NEW b \in A, NEW c \in A, NEW d \in A, <<b, c>> \in R, <<c, d>> \in R
          PROVE  <<b, d>> \in R
      BY <2>1, <2>2, <3>3
    <3> QED
      BY <3>1, <3>2, <3>3 DEF StrictOrder
  <2>4. IsFiniteSet(A)
    BY <1>2, ListsOfBranches
  <2> HIDE DEF A, better
  <2>5. ASSUME A # {} PROVE \E b \in A : \A c \in A \ {b} : <<b, c>> \in R
    BY <2>3, <2>4, <2>5, FirstExists
  <2> QED
    BY <2>1, <2>5
<1>4. best \subseteq A
  OBVIOUS
<1> HIDE DEF best
<1>5. best \in SUBSET Ids /\ rest \in SUBSET Ids /\ rest \subseteq A /\ rest \cap best = {}
      /\ rest \cup best = A
  BY <1>2, <1>4
<1> HIDE DEF rest
<1>6. /\ Story(Image(x), K, Image(thinned)) /\ K \in Seq(CommandSet) /\ TreeOK(thinned)
      /\ Whole(thinned, {} \cup rest) /\ Lasting(x, thinned)
      /\ thinned.parent = x.parent /\ thinned.depth = x.depth
      /\ \A b \in Ids : thinned.state[b] = IF b \in rest THEN "killed" ELSE x.state[b]
  <2> DEFINE q == Ascending(rest)
  <2>1. q \in Seq(Ids) /\ {q[i] : i \in DOMAIN q} = rest
    BY <1>5, ListsOfBranches
  <2>2. Orderly(x, q)
    BY <1>2, <1>5, FrontierOrderly
  <2> HIDE DEF q
  <2>3. Story(Image(x), Commands("kill", q), Image(thinned))
    BY <1>2, <2>1, <2>2, KillsTold
  <2>4. Commands("kill", q) \in Seq(CommandSet)
    BY <2>1, CommandsOf
  <2>5. rest \subseteq Present(x)
    BY <1>5 DEF Present, ActiveFrontier
  <2>6. /\ TreeOK(thinned) /\ thinned.parent = x.parent /\ thinned.depth = x.depth
        /\ \A b \in Ids : thinned.state[b] = IF b \in rest THEN "killed" ELSE x.state[b]
    BY <1>2, <2>5, KillEvolves, KillFields DEF Evolves
  <2> HIDE DEF thinned, x
  <2>7. Whole(thinned, {} \cup rest) /\ Lasting(x, thinned)
    BY <1>2, <1>5, <2>6, CutWhole
  <2> QED
    BY <2>3, <2>4, <2>6, <2>7 DEF q
<1>7. ActiveFrontier(thinned) = best
  BY <1>5, <1>6 DEF ActiveFrontier
<1> HIDE DEF thinned, K
<1>8. /\ Story(Image(thinned), F, Image(closed)) /\ F \in Seq(CommandSet) /\ TreeOK(closed)
      /\ Linked(closed) /\ Lasting(thinned, closed)
      /\ \A b \in Ids : closed.state[b] = IF b \in best THEN "finalized" ELSE thinned.state[b]
  <2> DEFINE q == Ascending(best)
  <2>1. q \in Seq(best) /\ Distinct(q) /\ {q[i] : i \in DOMAIN q} = best
        /\ q \in Seq(Ids)
    BY <1>5, ListsOfBranches, ListingOrder
  <2>2. q \in Seq(ActiveFrontier(thinned))
    BY <1>7, <2>1
  <2> HIDE DEF q
  <2>3. Story(Image(thinned), Commands("finalize", q), Image(closed))
    BY <1>6, <2>1, <2>2, FinalizesTold
  <2>4. Commands("finalize", q) \in Seq(CommandSet)
    BY <2>1, CommandsOf
  <2>5. best \subseteq ActiveFrontier(thinned)
    BY <1>7
  <2>6. /\ TreeOK(closed) /\ closed.parent = thinned.parent /\ closed.depth = thinned.depth
        /\ \A b \in Ids : closed.state[b] = IF b \in best THEN "finalized" ELSE thinned.state[b]
    BY <1>6, <2>5, FinalizeEvolves, FinalizeFields DEF Evolves
  <2> HIDE DEF closed
  <2>7. \E D : Whole(closed, D) /\ Lasting(thinned, closed)
    <3> DEFINE D == {} \cup rest
    <3>1. Whole(thinned, D)
      BY <1>6
    <3> HIDE DEF D
    <3>2. /\ \A b \in Ids \ best : closed.state[b] = thinned.state[b]
          /\ \A b \in best : closed.state[b] \in {"killed", "finalized"}
      BY <1>5, <2>6
    <3> HIDE DEF A
    <3>3. Whole(closed, D \cup best) /\ Lasting(thinned, closed)
      BY <2>5, <2>6, <3>1, <3>2, CutWhole
    <3> QED
      BY <3>3
  <2> QED
    BY <2>3, <2>4, <2>6, <2>7 DEF q, Whole
<1>9. ActiveFrontier(closed) = {}
  BY <1>7, <1>8 DEF ActiveFrontier
<1> HIDE DEF closed, F
<1> DEFINE X == {order[i] : i \in DOMAIN order}
<1>10. order \in Seq(Ids) /\ X = Expanded(closed) /\ Orderly(closed, order)
  BY <1>8, <1>9, TerminationListing, TerminationOrderly DEF Expanded
<1> HIDE DEF order
<1>11. Range(order) = X
  BY DEF Range
<1>12. /\ Story(Image(closed), E, Image(u)) /\ E \in Seq(CommandSet) /\ TreeOK(u)
       /\ u.parent = closed.parent /\ u.depth = closed.depth
       /\ \A b \in Ids : u.state[b] = IF b \in X THEN "killed" ELSE closed.state[b]
  <2>1. X \subseteq Present(closed)
    BY <1>10 DEF Expanded, Present
  <2>2. X = {order[i] : i \in DOMAIN order}
    OBVIOUS
  <2> HIDE DEF X
  <2>3. Story(Image(closed), E, Image(Kill(closed, X)))
    BY <1>8, <1>10, <2>2, KillsTold
  <2>4. /\ TreeOK(Kill(closed, X)) /\ Kill(closed, X).parent = closed.parent
        /\ Kill(closed, X).depth = closed.depth
        /\ \A b \in Ids : Kill(closed, X).state[b] = IF b \in X THEN "killed" ELSE closed.state[b]
    BY <1>8, <2>1, KillEvolves, KillFields DEF Evolves
  <2>5. E \in Seq(CommandSet)
    BY <1>10, CommandsOf
  <2> QED
    BY <1>11, <2>3, <2>4, <2>5
<1> HIDE DEF u, E, X
<1>13. \A b \in Ids : ~IsLive(u, b)
  <2>1. \A b \in X : u.state[b] = "killed" \/ b \notin Ids
    BY <1>12
  <2>2. \A b \in Ids : b \notin X => closed.state[b] # "expanded"
    BY <1>10 DEF Expanded
  <2> QED
    BY <1>9, <1>12, <2>1, <2>2 DEF IsLive, ActiveFrontier
<1>14. Whole(u, {})
  <2>1. Linked(u)
    <3>1. Present(u) = Present(closed)
      BY <1>10, <1>12 DEF Present, Expanded
    <3> QED
      BY <1>8, <1>12, <1>13, <3>1 DEF Linked, Present
  <2>2. Barren(u) = {}
    BY <1>13 DEF Barren, IsLive
  <2> QED
    BY <1>12, <2>1, <2>2 DEF Whole
<1>15. Lasting(x, u) /\ \A b \in best : u.state[b] = "finalized"
  <2>1. \A b \in Ids : closed.state[b] = "finalized" => u.state[b] = "finalized"
    BY <1>10, <1>12 DEF Expanded
  <2>2. Lasting(x, closed)
    BY <1>6, <1>8, LastingOn
  <2> QED
    BY <1>5, <1>8, <2>1, <2>2 DEF Lasting
<1>16. Fruitful(u)
  <2>1. CASE A = {}
    BY <1>15, <2>1 DEF Fruitful, Lasting
  <2>2. CASE A # {}
    BY <1>3, <1>5, <1>15, <2>2 DEF Fruitful
  <2> QED
    BY <2>1, <2>2
<1> DEFINE e1 == s.emitted \o K
           e2 == e1 \o F
           e3 == e2 \o E
<1>17. e1 \in Seq(CommandSet) /\ e2 \in Seq(CommandSet) /\ e3 \in Seq(CommandSet)
  BY <1>2, <1>6, <1>8, <1>12, ConcatenatedCommands
<1>18. Story(Image(t), e3, Image(u))
  <2>1. Story(Image(t), e1, Image(thinned))
    BY <1>2, <1>6, StoryOn DEF Told
  <2> HIDE DEF e1
  <2>2. Story(Image(t), e2, Image(closed))
    BY <1>8, <1>17, <2>1, StoryOn
  <2> HIDE DEF e2
  <2> QED
    BY <1>12, <1>17, <2>2, StoryOn
<1>19. r \in Handlers /\ r.tree = u /\ r.emitted = e3
  <2>1. u \in Trees /\ r = [s EXCEPT !.tree = u, !.emitted = e3]
    BY <1>12 DEF TreeOK
  <2> HIDE DEF e3, r
  <2> QED
    BY <1>2, <1>17, <2>1 DEF Handlers
<1> HIDE DEF r
<1> QED
  BY <1>1, <1>12, <1>14, <1>16, <1>18, <1>19 DEF Told, Handler

-----------------------------------------------------------------------------
(* What the policies' commands tell.                                       *)

\* A tree with the same branches is as whole, and looks the same to a driver.
LEMMA SameWhole ==
  ASSUME NEW t, NEW D, Whole(t, D), NEW u \in Trees,
         u.state = t.state, u.parent = t.parent, u.depth = t.depth
  PROVE  Whole(u, D) /\ Image(u) = Image(t) /\ Lasting(t, u) /\ Lasting(u, t)
         /\ ActiveFrontier(u) = ActiveFrontier(t)
<1>1. TreeOK(u) /\ ActiveFrontier(u) = ActiveFrontier(t) /\ Present(u) = Present(t)
  BY DEF Whole, TreeOK, Present, ActiveFrontier
<1>2. Linked(u)
  BY <1>1 DEF Whole, Linked, IsLive
<1>3. Barren(u) = Barren(t)
  BY DEF Barren, IsLive, Children
<1>4. \A b : Ancestors(u, b) = Ancestors(t, b)
  BY SameAncestors
<1>5. Whole(u, D)
  BY <1>1, <1>2, <1>3, <1>4 DEF Whole, Barren
<1> QED
  BY <1>1, <1>5 DEF Image, Lasting

LEMMA MoreWhole ==
  ASSUME NEW t, NEW D, Whole(t, D), NEW E, D \subseteq E
  PROVE  Whole(t, E)
BY DEF Whole

\* The branches killed by a sequence of commands.
LEMMA KilledWithin ==
  ASSUME NEW q \in Seq(CommandSet), NEW p \in Seq(CommandSet)
  PROVE  Killed(q) \subseteq Killed(q \o p) /\ Killed(p) \subseteq Killed(q \o p)
<1> DEFINE r == q \o p
<1>1. /\ DOMAIN q = 1 .. Len(q) /\ DOMAIN p = 1 .. Len(p)
      /\ DOMAIN r = 1 .. Len(q) + Len(p) /\ Len(q) \in Nat /\ Len(p) \in Nat
      /\ \A i \in 1 .. Len(q) + Len(p) :
           r[i] = IF i <= Len(q) THEN q[i] ELSE p[i - Len(q)]
  BY ConcatProperties
<1> HIDE DEF r
<1>2. \A i \in DOMAIN q : i \in DOMAIN r /\ r[i] = q[i]
  BY <1>1
<1>3. \A i \in DOMAIN p : i + Len(q) \in DOMAIN r /\ r[i + Len(q)] = p[i]
  BY <1>1
<1> QED
  BY <1>2, <1>3 DEF Killed, r

LEMMA KilledOf ==
  ASSUME NEW bs \in Seq(Ids)
  PROVE  Killed(Commands("kill", bs)) = {bs[i] : i \in DOMAIN bs}
<1> DEFINE q == Commands("kill", bs)
<1>1. DOMAIN q = DOMAIN bs /\ \A i \in DOMAIN bs : q[i].op = "kill" /\ q[i].branch = bs[i]
  BY DEF Commands, Command
<1> HIDE DEF q
<1> QED
  BY <1>1 DEF Killed, q

\* What a policy's decision d about the tree t does to it: the commands tell of
\* it, and what remains to be reclaimed is above the branches they kill.
Telling(t, d) ==
  /\ Lasting(t, d.tree) /\ (ActiveFrontier(t) # {} => ActiveFrontier(d.tree) # {})
  /\ d.ok => Whole(d.tree, Killed(d.out)) /\ Story(Image(t), d.out, Image(d.tree))

\* Nothing is done, or a branch told to continue.
LEMMA SameTelling ==
  ASSUME NEW t, Whole(t, {}), NEW u, SameTree(t, u), NEW out,
         Story(Image(t), out, Image(t))
  PROVE  Telling(t, Decision(u, out))
<1> DEFINE d == Decision(u, out)
<1>1. d.tree = u /\ d.out = out
  BY DEF Decision
<1> HIDE DEF d
<1>2. Whole(u, {}) /\ Image(u) = Image(t) /\ Lasting(t, u) /\ ActiveFrontier(u) = ActiveFrontier(t)
  BY SameWhole DEF SameTree
<1>3. Whole(u, Killed(out))
  BY <1>2, MoreWhole
<1> QED
  BY <1>1, <1>2, <1>3 DEF Telling, d

\* A branch of the frontier is expanded.
LEMMA ExpandTelling ==
  ASSUME NEW t, Whole(t, {}), NEW u, SameTree(t, u), config \in Configs,
         NEW b \in ActiveFrontier(t), NEW pick, pick \subseteq Born(t)
  PROVE  Telling(t, Expand(u, b, pick))
<1> DEFINE full == Size(u) + ForkWidth > MaxTotalBranches
           bs == <<b>>
           w == Fork(u, bs, ForkWidth)
           q == Ascending(pick)
           f == Commands("fork", bs)
           c == Commands("continue", q)
           out == f \o c
           d == Decision(w, out)
<1>1. /\ Whole(u, {}) /\ Image(u) = Image(t) /\ Lasting(t, u)
      /\ ActiveFrontier(u) = ActiveFrontier(t)
      /\ TreeOK(t) /\ TreeOK(u) /\ u \in Trees /\ Size(u) = Size(t)
  <2>1. /\ Whole(u, {}) /\ Image(u) = Image(t) /\ Lasting(t, u)
        /\ ActiveFrontier(u) = ActiveFrontier(t)
    BY SameWhole DEF SameTree
  <2>2. TreeOK(t) /\ TreeOK(u)
    BY <2>1 DEF Whole
  <2> QED
    BY <2>1, <2>2, SameTreeEvolves DEF SameTree
<1>2. CASE full
  <2>1. Expand(u, b, pick) = [tree |-> u, out |-> <<>>, ok |-> FALSE]
    BY <1>2 DEF Expand
  <2> QED
    BY <1>1, <2>1 DEF Telling
<1>3. CASE ~full
  <2>1. Expand(u, b, pick) = d
    <3>1. Expand(u, b, pick) = Decision(w, <<Command("fork", b)>> \o c)
      BY <1>3 DEF Expand
    <3>2. f = <<Command("fork", b)>>
      <4>1. DOMAIN bs = {1} /\ bs[1] = b
        OBVIOUS
      <4> HIDE DEF bs
      <4>2. f = [i \in {1} |-> Command("fork", b)]
        BY <4>1 DEF Commands
      <4>3. [i \in {1} |-> Command("fork", b)] = <<Command("fork", b)>>
        OBVIOUS
      <4> QED
        BY <4>2, <4>3
    <3> QED
      BY <3>1, <3>2
  <2>2. ForkWidth \in Nat \ {0}
    BY ConfigFacts
  <2>3. bs \in Seq(ActiveFrontier(u)) /\ Len(bs) = 1 /\ Distinct(bs)
    BY <1>1 DEF Distinct
  <2>4. bs \in Seq(Ids)
    BY DEF ActiveFrontier
  <2> HIDE DEF bs
  <2>5. Size(u) + Len(bs) * ForkWidth <= MaxTotalBranches /\ Size(u) \in Int
    BY <1>1, <1>3, <2>2, <2>3, Numbered, BranchTreeAssumption
  <2>6. Story(Image(u), f, Image(w))
    BY <1>1, <2>3, <2>5, ForksTold
  <2>7. Whole(w, {}) /\ Lasting(u, w) /\ (ActiveFrontier(u) # {} => ActiveFrontier(w) # {})
    BY <1>1, <2>2, <2>3, <2>5, ForkWhole
  <2>8. w \in Trees /\ pick \in SUBSET Ids /\ pick \subseteq ActiveFrontier(w)
    <3>1. Born(t) = Size(u) .. Size(u) + Len(bs) * ForkWidth - 1
      BY <1>1, <2>2, <2>3 DEF Born
    <3>2. PrefixForked(u, bs, ForkWidth, Born(t))
      BY <1>1, <2>2, <2>3, <2>5, <3>1, ForkedFields
    <3> QED
      BY <3>2 DEF PrefixForked, ActiveFrontier
  <2> HIDE DEF w
  <2>9. q \in Seq(pick) /\ q \in Seq(Ids)
    BY <2>8, ListingOrder, ListsOfBranches
  <2>10. q \in Seq(ActiveFrontier(w))
    BY <2>8, <2>9
  <2> HIDE DEF q
  <2>11. Story(Image(w), c, Image(w))
    BY <2>8, <2>10, ContinuesTold
  <2>12. f \in Seq(CommandSet) /\ c \in Seq(CommandSet)
    BY <2>4, <2>9, CommandsOf
  <2> HIDE DEF f, c
  <2>13. Story(Image(u), out, Image(w))
    BY <2>6, <2>11, <2>12, StoryOn
  <2>14. d.tree = w /\ d.out = out
    BY DEF Decision
  <2> HIDE DEF out, d
  <2>15. Whole(w, Killed(out)) /\ Lasting(t, w)
    BY <1>1, <2>7, MoreWhole, LastingOn
  <2>16. Telling(t, d)
    BY <1>1, <2>7, <2>13, <2>14, <2>15 DEF Telling
  <2> QED
    BY <2>1, <2>16
<1> QED
  BY <1>2, <1>3

LEMMA StepwiseTelling ==
  ASSUME NEW t, Whole(t, {}), config \in Configs, NEW u, SameTree(t, u),
         NEW d, Stepwise(t, u, d)
  PROVE  Telling(t, d)
<1>1. t \in Trees /\ SameTree(t, t)
  BY DEF Whole, TreeOK, SameTree
<1>2. Image(t) \in Sound
  BY <1>1, ImageSound
<1>3. Story(Image(t), <<>>, Image(t))
  BY <1>2, StoryNone
<1>4. CASE d = Decision(t, <<>>)
  BY <1>1, <1>3, <1>4, SameTelling
<1>5. CASE d = Decision(u, <<>>)
  BY <1>3, <1>5, SameTelling
<1>6. ASSUME NEW b \in ActiveFrontier(t), d = Decision(u, Commands("continue", <<b>>))
      PROVE  Telling(t, d)
  <2> DEFINE bs == <<b>>
  <2>1. bs \in Seq(ActiveFrontier(t))
    OBVIOUS
  <2> HIDE DEF bs
  <2>2. Story(Image(t), Commands("continue", bs), Image(t))
    BY <1>1, <2>1, ContinuesTold
  <2>3. Telling(t, Decision(u, Commands("continue", bs)))
    BY <2>2, SameTelling
  <2> QED
    BY <1>6, <2>3 DEF bs
<1>7. ASSUME NEW b \in ActiveFrontier(t), NEW pick \in SUBSET Born(t), d = Expand(u, b, pick)
      PROVE  Telling(t, d)
  BY <1>7, ExpandTelling
<1> QED
  BY <1>4, <1>5, <1>6, <1>7 DEF Stepwise

\* The best branch of the beam is never pruned.
LEMMA BeamKeeps ==
  ASSUME NEW t, TreeOK(t), BeamWidth \in Nat \ {0}, ActiveFrontier(t) # {}
  PROVE  ActiveFrontier(t) \ BeamPruned(t) # {}
<1> DEFINE A == ActiveFrontier(t)
           R == {p \in A \X A : BeamBetter(t, p[1], p[2])}
<1>1. A \in SUBSET Ids
  BY DEF ActiveFrontier
<1>2. \A x, y \in A : <<x, y>> \in R <=> BeamBetter(t, x, y)
  OBVIOUS
<1>3. BeamPruned(t) = {b \in A : Cardinality({a \in A : BeamBetter(t, a, b)}) >= BeamWidth}
  BY DEF BeamPruned
<1>4. A # {}
  OBVIOUS
<1> HIDE DEF A, R
<1>5. \A x \in A : x \in Int /\ t.logprob[x] \in Int
  BY <1>1, TreeFields, IdsFinite DEF TreeOK
<1>6. StrictOrder(R, A)
  BY <1>2, <1>5 DEF StrictOrder, BeamBetter
<1>7. IsFiniteSet(A)
  BY <1>1, ListsOfBranches
<1>8. PICK b \in A : \A c \in A \ {b} : <<b, c>> \in R
  BY <1>4, <1>6, <1>7, FirstExists
<1>9. {a \in A : BeamBetter(t, a, b)} = {}
  <2>1. ASSUME NEW a \in A, BeamBetter(t, a, b) PROVE FALSE
    <3>1. <<a, b>> \in R
      BY <1>2, <2>1
    <3>2. <<a, a>> \notin R /\ <<b, b>> \notin R
      BY <1>6 DEF StrictOrder
    <3>3. a # b => <<b, a>> \in R
      BY <1>8
    <3>4. a # b => <<a, a>> \in R
      BY <1>6, <3>1, <3>3 DEF StrictOrder
    <3> QED
      BY <3>1, <3>2, <3>4
  <2> QED
    BY <2>1
<1>10. Cardinality({a \in A : BeamBetter(t, a, b)}) = 0
  BY <1>9, FS_EmptySet
<1>11. b \notin BeamPruned(t)
  BY <1>3, <1>10
<1> QED
  BY <1>11 DEF A

LEMMA BeamTelling ==
  ASSUME NEW t, Whole(t, {}), config \in Configs, NEW e, NEW d \in Beam(t, e)
  PROVE  Telling(t, d)
<1> DEFINE forks == BeamForks(t, e)
           fitting == ForksThatFit(t, forks, ForkWidth)
           grown == Fork(t, fitting, ForkWidth)
           pruned == BeamPruned(grown)
           kept == Kill(grown, pruned)
           f == Commands("fork", forks)
           k == Commands("kill", Ascending(pruned))
           c == Commands("continue", BeamRanked(kept))
<1>1. \/ fitting # forks /\ d = [tree |-> grown, out |-> <<>>, ok |-> FALSE]
      \/ fitting = forks /\ d = Decision(kept, f \o k \o c)
  BY DEF Beam
<1>2. /\ forks \in Seq(ActiveFrontier(t)) /\ forks \in Seq(Ids)
      /\ \A i, j \in DOMAIN forks : i < j => forks[i] < forks[j]
  BY BeamForksListed
<1>3. TreeOK(t) /\ ForkWidth \in Nat \ {0} /\ BeamWidth \in Nat \ {0}
  BY ConfigFacts DEF Whole
<1> HIDE DEF forks
<1>4. Distinct(forks)
  <2>1. \A i \in DOMAIN forks : i \in Int /\ forks[i] \in Int
    <3>1. \A i \in DOMAIN forks : i \in Int
      BY <1>2
    <3>2. \A i \in DOMAIN forks : forks[i] \in Ids
      BY <1>2
    <3>3. \A x \in Ids : x \in Int
      BY IdsFinite
    <3> QED
      BY <3>1, <3>2, <3>3
  <2> QED
    BY <1>2, <2>1 DEF Distinct
<1>5. /\ fitting \in Seq(ActiveFrontier(t))
      /\ Size(t) + Len(fitting) * ForkWidth <= MaxTotalBranches
  <2>1. PICK m \in 0 .. Len(forks) : fitting = SubSeq(forks, 1, m)
    BY <1>2, <1>3, ForksFit
  <2>2. fitting \in Seq(ActiveFrontier(t))
    <3> HIDE DEF fitting
    <3> QED
      BY <1>2, <2>1, SubSeqProperties
  <2> QED
    BY <1>2, <1>3, <2>2, ForksFit
<1> HIDE DEF fitting
<1>6. /\ Whole(grown, {}) /\ Lasting(t, grown)
      /\ ActiveFrontier(t) # {} => ActiveFrontier(grown) # {}
  BY <1>3, <1>5, ForkWhole
<1>7. CASE fitting # forks
  <2>1. d.tree = grown /\ d.ok = FALSE
    BY <1>1, <1>7
  <2> QED
    BY <1>6, <2>1 DEF Telling
<1>8. CASE fitting = forks
  <2>1. Story(Image(t), f, Image(grown))
    BY <1>2, <1>3, <1>4, <1>5, <1>8, ForksTold
  <2> HIDE DEF grown
  <2>2. TreeOK(grown)
    BY <1>6 DEF Whole
  <2>3. pruned \subseteq ActiveFrontier(grown) /\ pruned \subseteq Present(grown)
    BY DEF BeamPruned, ActiveFrontier, Present
  <2>4. ActiveFrontier(grown) # {} => ActiveFrontier(grown) \ pruned # {}
    BY <1>3, <2>2, BeamKeeps
  <2> HIDE DEF pruned
  <2>5. /\ TreeOK(kept) /\ kept \in Trees /\ kept.parent = grown.parent /\ kept.depth = grown.depth
        /\ \A b \in Ids : kept.state[b] = IF b \in pruned THEN "killed" ELSE grown.state[b]
    BY <2>2, <2>3, KillEvolves, KillFields DEF Evolves, TreeOK
  <2>6. ActiveFrontier(kept) = ActiveFrontier(grown) \ pruned
    BY <2>5 DEF ActiveFrontier
  <2> DEFINE q == Ascending(pruned)
  <2>7. q \in Seq(Ids) /\ {q[i] : i \in DOMAIN q} = pruned
    BY <2>3, ListsOfBranches DEF Present
  <2>8. Orderly(grown, q)
    BY <2>2, <2>3, FrontierOrderly
  <2> HIDE DEF q
  <2>9. Story(Image(grown), k, Image(kept))
    BY <2>2, <2>7, <2>8, KillsTold DEF q
  <2>10. k \in Seq(CommandSet) /\ Killed(k) = pruned
    BY <2>7, CommandsOf, KilledOf DEF q
  <2> HIDE DEF kept
  <2>11. Whole(kept, {} \cup pruned) /\ Lasting(grown, kept)
    <3>1. /\ \A b \in Ids \ pruned : kept.state[b] = grown.state[b]
          /\ \A b \in pruned : kept.state[b] \in {"killed", "finalized"}
      BY <2>3, <2>5 DEF Present
    <3> QED
      BY <1>6, <2>3, <2>5, <3>1, CutWhole
  <2>12. BeamRanked(kept) \in Seq(Ids) /\ BeamRanked(kept) \in Seq(BeamBehind(kept))
    BY <2>5, BeamOrder
  <2>13. BeamRanked(kept) \in Seq(ActiveFrontier(kept))
    <3>1. BeamBehind(kept) \subseteq ActiveFrontier(kept)
      BY DEF BeamBehind
    <3> QED
      BY <2>12, <3>1
  <2>14. Story(Image(kept), c, Image(kept)) /\ c \in Seq(CommandSet)
    BY <2>5, <2>12, <2>13, ContinuesTold, CommandsOf
  <2>15. f \in Seq(CommandSet)
    BY <1>2, CommandsOf
  <2> HIDE DEF f, k, c
  <2> DEFINE fk == f \o k
             out == fk \o c
  <2>16. fk \in Seq(CommandSet) /\ Story(Image(t), fk, Image(kept)) /\ pruned \subseteq Killed(fk)
    BY <2>1, <2>9, <2>10, <2>15, StoryOn, ConcatenatedCommands, KilledWithin
  <2>17. d = Decision(kept, fk \o c)
    BY <1>1, <1>8
  <2> HIDE DEF fk
  <2>18. Story(Image(t), out, Image(kept)) /\ pruned \subseteq Killed(out)
    BY <2>14, <2>16, StoryOn, KilledWithin
  <2>19. d.tree = kept /\ d.out = out
    BY <2>17 DEF Decision
  <2> HIDE DEF out
  <2>20. Whole(kept, Killed(out))
    <3>1. {} \cup pruned \subseteq Killed(out)
      BY <2>18
    <3> QED
      BY <2>11, <3>1, MoreWhole
  <2>21. Lasting(t, kept)
    BY <1>6, <2>11, LastingOn
  <2> QED
    BY <1>6, <2>4, <2>6, <2>18, <2>19, <2>20, <2>21 DEF Telling
<1> QED
  BY <1>7, <1>8

LEMMA DecisionsTelling ==
  ASSUME NEW t, Whole(t, {}), config \in Configs, NEW e, NEW d \in Decisions(t, e)
  PROVE  Telling(t, d)
<1>1. TreeOK(t)
  BY DEF Whole
<1> QED
  BY <1>1, ConfigFacts, BeamTelling, BestFirstStepwise, MctsStepwise, StepwiseTelling DEF Decisions

-----------------------------------------------------------------------------
(* A decision followed, and what is emitted enqueued.                      *)

LEMMA FollowTold ==
  ASSUME NEW t, NEW s, Handler(s), Told(t, s, {}), NEW d, d.ok = TRUE,
         Sensible(s.tree, d), Telling(s.tree, d)
  PROVE  LET r == Follow(s, d)
         IN /\ Told(t, r, {}) /\ Handler(r) /\ Lasting(s.tree, r.tree)
            /\ ActiveFrontier(s.tree) # {} => ActiveFrontier(r.tree) # {}
<1> DEFINE first == Emitting(s, d.tree, d.out)
           start == [first EXCEPT !.ok = TRUE]
           K == Killed(d.out)
           q == Ascending(K)
           n == Len(q)
<1>1. /\ d.out \in Seq(CommandSet) /\ Evolves(s.tree, d.tree, ClosedBy(d.out))
      /\ Whole(d.tree, K) /\ Story(Image(s.tree), d.out, Image(d.tree))
      /\ Lasting(s.tree, d.tree) /\ (ActiveFrontier(s.tree) # {} => ActiveFrontier(d.tree) # {})
  BY DEF Sensible, Telling
<1>2. K \subseteq Present(d.tree) /\ K \in SUBSET Ids
  <2>1. K \subseteq ClosedBy(d.out)
    BY DEF Killed, ClosedBy
  <2> QED
    BY <1>1, <2>1 DEF Evolves, Present
<1> HIDE DEF K
<1>3. Told(t, first, K) /\ Handler(first) /\ first.tree = d.tree
  <2>1. TreeOK(d.tree)
    BY <1>1 DEF Whole
  <2> QED
    BY <1>1, <2>1, EmittingTold, EmittingFields
<1>4. Deciding(s, d) = start
  BY Zenon DEF first, Emitting, Deciding
<1> HIDE DEF first
<1>5. start.tree = first.tree /\ start.emitted = first.emitted /\ start \in Handlers
  <2>1. first \in Handlers
    BY <1>3 DEF Handler
  <2> QED
    BY <2>1 DEF Handlers
<1> HIDE DEF start
<1>6. Told(t, start, K) /\ Handler(start) /\ start.tree = d.tree
  BY <1>3, <1>5 DEF Told, Handler
<1>7. q \in Seq(Ids) /\ {q[i] : i \in DOMAIN q} = K
  BY <1>2, ListsOfBranches
<1>8. q = Ascending(Killed(d.out))
  BY DEF K
<1> HIDE DEF q
<1>9. n \in Nat /\ DOMAIN q = 1 .. n /\ \A i \in 1 .. n : q[i] \in K
  BY <1>7
<1>10. {q[j] : j \in 1 .. n} = K
  BY <1>7, <1>9
<1> HIDE DEF n
<1>11. PICK v : /\ v[0] = start
                /\ \A i \in 1 .. n : v[i] = Reclaim(v[i - 1], q[i])
                /\ Follow(s, d) = v[n]
  <2>1. \E v : /\ v[0] = Deciding(s, d)
               /\ \A i \in 1 .. n : v[i] = Reclaim(v[i - 1], q[i])
               /\ Follow(s, d) = v[n]
    BY <1>8, <1>9, FollowSteps
  <2> QED
    BY <1>4, <2>1
<1> DEFINE P(i) == /\ Handler(v[i]) /\ Told(t, v[i], K \ {q[j] : j \in 1 .. i})
                   /\ Lasting(s.tree, v[i].tree) /\ K \subseteq Present(v[i].tree)
                   /\ ActiveFrontier(v[i].tree) = ActiveFrontier(d.tree)
           Good == {i \in 0 .. n : P(i)}
<1>12. 0 \in Good
  <2>1. K \ {q[j] : j \in 1 .. 0} = K
    OBVIOUS
  <2>2. P(0)
    BY <1>1, <1>2, <1>6, <1>11, <2>1
  <2> HIDE DEF P
  <2> QED
    BY <1>9, <2>2
<1>13. \A i \in 0 .. n - 1 : i \in Good => i + 1 \in Good
  <2> SUFFICES ASSUME NEW i \in 0 .. n - 1, P(i) PROVE i + 1 \in 0 .. n /\ P(i + 1)
    OBVIOUS
  <2> DEFINE D == K \ {q[j] : j \in 1 .. i}
             E == K \ {q[j] : j \in 1 .. i + 1}
  <2>1. i + 1 \in 1 .. n /\ (i + 1) - 1 = i /\ i + 1 \in 0 .. n /\ i \in Nat
    BY <1>9
  <2>2. v[i + 1] = Reclaim(v[i], q[i + 1])
    BY <1>11, <2>1
  <2>3. q[i + 1] \in Present(v[i].tree)
    BY <1>9, <2>1
  <2>4. E = D \ {q[i + 1]}
    <3>1. 1 .. i + 1 = (1 .. i) \cup {i + 1}
      BY <2>1
    <3> QED
      BY <3>1
  <2>5. Handler(v[i]) /\ Told(t, v[i], D)
    OBVIOUS
  <2> HIDE DEF D, E
  <2>6. Told(t, v[i + 1], E) /\ Lasting(v[i].tree, v[i + 1].tree)
    <3> DEFINE x == v[i]
               b == q[i + 1]
    <3>1. Handler(x) /\ Told(t, x, D) /\ b \in Present(x.tree)
      BY <2>3, <2>5
    <3> HIDE DEF x, b
    <3>2. Told(t, Reclaim(x, b), D \ {b}) /\ Lasting(x.tree, Reclaim(x, b).tree)
      BY <3>1, ReclaimTold
    <3> QED
      BY <2>2, <2>4, <3>2 DEF x, b
  <2>7. /\ Handling(v[i], v[i + 1])
        /\ ActiveFrontier(v[i + 1].tree) = ActiveFrontier(v[i].tree)
    BY <2>2, <2>3, <2>5, ReclaimSteps
  <2>8. Handler(v[i + 1]) /\ K \subseteq Present(v[i + 1].tree)
    BY <2>7 DEF Handling, Evolves
  <2>9. Lasting(s.tree, v[i + 1].tree)
    BY <2>6, LastingOn
  <2> QED
    BY <2>1, <2>6, <2>7, <2>8, <2>9 DEF E
<1>14. P(n)
  <2>1. 0 .. n \subseteq Good
    <3> HIDE DEF Good
    <3> QED
      BY <1>9, <1>12, <1>13, IntervalInduction
  <2>2. n \in 0 .. n
    BY <1>9
  <2> HIDE DEF P
  <2> QED
    BY <2>1, <2>2
<1>15. K \ {q[j] : j \in 1 .. n} = {}
  BY <1>10
<1> QED
  BY <1>1, <1>11, <1>14, <1>15

\* The queue after a command was admitted, or was not.
LEMMA AdmitQueue ==
  ASSUME NEW s, Handler(s), NEW c \in CommandSet
  PROVE  LET r == Admit(s, c)
             q == WithoutContinue(s.queue, c.branch)
         IN \/ c.op # "continue" /\ r.queue = Append(q, c)
            \/ c.op = "continue" /\ r.queue \in {s.queue, Append(s.queue, c)}
<1> DEFINE b == c.branch
           q == WithoutContinue(s.queue, b)
           w == Withdraw(s, b)
           r == Admit(s, c)
<1>1. CASE c.op # "continue"
  <2>1. r = [w EXCEPT !.queue = Append(@, c)]
    BY <1>1 DEF Admit
  <2>2. w.queue = q /\ w \in Handlers
    BY WithdrawFields DEF Handler
  <2> HIDE DEF w, q
  <2>3. r.queue = Append(w.queue, c)
    BY <2>1, <2>2 DEF Handlers
  <2> QED
    BY <1>1, <2>2, <2>3 DEF q
<1>2. CASE c.op = "continue"
  <2>1. s \in Handlers
    BY DEF Handler
  <2>2. r = s \/ r = [s EXCEPT !.outstanding = @ \cup {b}, !.queue = Append(@, c)]
    BY <1>2 DEF Admit
  <2>3. r.queue \in {s.queue, Append(s.queue, c)}
    <3> HIDE DEF r
    <3> QED
      BY <2>1, <2>2 DEF Handlers
  <2> QED
    BY <1>2, <2>3
<1> QED
  BY <1>1, <1>2

\* Continues that are withdrawn or not admitted, being of branches that are
\* closed or may not go on, are missed by nobody.
LEMMA EnqueueTold ==
  ASSUME NEW m, NEW s, Handler(s), NEW a, Story(m, s.queue, a), NEW n, Story(a, s.emitted, n)
  PROVE  LET r == Enqueue(s)
     IN Story(m, r.queue, n) /\ r.tree = s.tree /\ r.ok = s.ok /\ Handler(r)
<1> DEFINE es == s.emitted
           l == Len(es)
           s0 == [s EXCEPT !.emitted = <<>>]
<1>1. s \in Handlers /\ es \in Seq(CommandSet) /\ TreeOK(s.tree)
  BY HandlerFields DEF Handler
<1>2. l \in Nat /\ DOMAIN es = 1 .. l /\ \A i \in 1 .. l : es[i] \in CommandSet
  BY <1>1
<1>3. PICK v : /\ v[0] = s0
               /\ \A i \in 1 .. l : v[i] = Admit(v[i - 1], es[i])
               /\ Enqueue(s) = v[l]
  <2> HIDE DEF l
  <2> QED
    BY <1>2, EnqueueSteps, ZenonT(60)
<1>4. PICK w : Replays(w, a, es) /\ w[l] = n
  BY DEF Story
<1>5. /\ w[0] = a /\ \A i \in 0 .. l : w[i] \in Sound
      /\ \A i \in 1 .. l : w[i] = Replay(w[i - 1], es[i])
  BY <1>4 DEF Replays
<1>6. Handler(s0) /\ s0.tree = s.tree /\ s0.ok = s.ok /\ s0.queue = s.queue
  <2>1. <<>> \in Seq(CommandSet)
    OBVIOUS
  <2>2. s0 \in Handlers /\ s0.tree = s.tree /\ s0.ok = s.ok /\ s0.queue = s.queue
    BY <1>1, <2>1 DEF Handlers
  <2> QED
    BY <1>1, <2>2 DEF Handler
<1> HIDE DEF s0, es, l
<1> DEFINE P(i) == /\ Handler(v[i]) /\ v[i].tree = s.tree /\ v[i].ok = s.ok
                   /\ Story(m, v[i].queue, w[i])
           Good == {i \in 0 .. l : P(i)}
<1>7. 0 \in Good
  <2>1. P(0)
    BY <1>3, <1>5, <1>6
  <2> HIDE DEF P
  <2> QED
    BY <1>2, <2>1
<1>8. \A i \in 0 .. l - 1 : i \in Good => i + 1 \in Good
  <2> SUFFICES ASSUME NEW i \in 0 .. l - 1, P(i) PROVE i + 1 \in 0 .. l /\ P(i + 1)
    OBVIOUS
  <2> DEFINE c == es[i + 1]
             x == v[i]
             y == v[i + 1]
             p == w[i]
             q == x.queue
  <2>1. i + 1 \in 1 .. l /\ (i + 1) - 1 = i /\ i + 1 \in 0 .. l /\ i \in 0 .. l
    BY <1>2
  <2>2. y = Admit(x, c) /\ c \in CommandSet
    BY <1>2, <1>3, <2>1
  <2>3. w[i + 1] = Replay(p, c) /\ p \in Sound /\ Replay(p, c) \in Sound
    BY <1>5, <2>1
  <2>4. Handler(x) /\ Story(m, q, p) /\ q \in Seq(CommandSet)
    BY HandlerFields DEF Handler
  <2> HIDE DEF c, x, y, p
  <2>5. Handler(y) /\ y.tree = x.tree /\ y.ok = x.ok
    BY <2>2, <2>4, AdmitFields
  <2>6. Story(m, y.queue, Replay(p, c))
    <3>1. CASE c.op # "continue"
      <4> DEFINE z == WithoutContinue(q, c.branch)
      <4>1. y.queue = Append(z, c)
        BY <2>2, <2>4, <3>1, AdmitQueue
      <4>2. Story(m, z, p) /\ z \in Seq(CommandSet)
        BY <2>4, StoryWithout, WithdrawnQueue
      <4> HIDE DEF z
      <4> QED
        BY <2>3, <4>1, <4>2, StoryMore
    <3>2. CASE c.op = "continue" /\ y.queue = Append(q, c)
      BY <2>3, <2>4, <3>2, StoryMore
    <3>3. CASE c.op = "continue" /\ y.queue = q
      <4>1. Replay(p, c) = p
        BY <2>3, <3>3, ContinueReplayed
      <4> QED
        BY <2>4, <3>3, <4>1
    <3> QED
      BY <2>2, <2>4, <3>1, <3>2, <3>3, AdmitQueue
  <2> QED
    BY <2>1, <2>3, <2>5, <2>6 DEF x, y
<1>9. P(l)
  <2>1. 0 .. l \subseteq Good
    <3> HIDE DEF Good
    <3> QED
      BY <1>2, <1>7, <1>8, IntervalInduction
  <2>2. l \in 0 .. l
    BY <1>2
  <2> HIDE DEF P
  <2> QED
    BY <2>1, <2>2
<1> QED
  BY <1>3, <1>4, <1>9

-----------------------------------------------------------------------------
(* What one event makes of the tree and the queue.                         *)

\* The scheduler s handles an event that found the tree t and, m being the
\* driver's copy, a queue that tells how it became t.
Underway(m, t, s) ==
  /\ Handler(s) /\ Told(t, s, {}) /\ Fruitful(s.tree)
  /\ Story(m, s.queue, Image(t))

\* What handling it may leave behind.
Sequel(m, r) ==
  /\ {"ok", "tree"} \subseteq DOMAIN r /\ Fruitful(r.tree)
  /\ r.ok => Handler(r) /\ Whole(r.tree, {}) /\ Story(m, r.queue, Image(r.tree))

LEMMA UnderwayOn ==
  ASSUME NEW m, NEW t, NEW s, Underway(m, t, s), NEW r, Handler(r), r.tree = s.tree,
         r.emitted = s.emitted, r.queue = s.queue
  PROVE  Underway(m, t, r)
BY DEF Underway, Told

LEMMA EnqueueSequel ==
  ASSUME NEW m, NEW t, NEW s, Underway(m, t, s)
  PROVE  Sequel(m, Enqueue(s))
<1> DEFINE r == Enqueue(s)
<1>1. Handler(s) /\ Whole(s.tree, {}) /\ Fruitful(s.tree)
  BY DEF Underway, Told
<1>2. Story(m, r.queue, Image(s.tree)) /\ r.tree = s.tree /\ Handler(r)
  BY <1>1, EnqueueTold DEF Underway, Told
<1> HIDE DEF r
<1>3. {"ok", "tree"} \subseteq DOMAIN r
  BY <1>2 DEF Handler, Handlers
<1> QED
  BY <1>1, <1>2, <1>3 DEF Sequel, r

LEMMA FinishSequel ==
  ASSUME NEW m, NEW t, NEW s, Underway(m, t, s), s.ok
  PROVE  Sequel(m, Finish(s))
<1> DEFINE r == RetainLive(s)
<1>1. Handler(r) /\ r.tree = s.tree /\ r.queue = s.queue /\ r.emitted = s.emitted
  BY RetainFields DEF Underway
<1>2. Finish(s) = Enqueue(r)
  BY DEF Finish
<1> HIDE DEF r
<1> QED
  BY <1>1, <1>2, UnderwayOn, EnqueueSequel

LEMMA OutcomesSequel ==
  ASSUME config \in Configs, NEW m, NEW t, NEW s, Underway(m, t, s), s.ok = TRUE,
         NEW e, NEW r \in Outcomes(s, e)
  PROVE  Sequel(m, r)
<1>1. Handler(s) /\ Told(t, s, {}) /\ Fruitful(s.tree) /\ Story(m, s.queue, Image(t))
  BY DEF Underway
<1>2. CASE e.treeOut
  <2> DEFINE x == Terminate(s)
             y == ForgetPending(x)
  <2>1. Told(t, x, {}) /\ Fruitful(x.tree) /\ Handler(x) /\ x.queue = s.queue
    BY <1>1, TerminateTold, TerminateHandling DEF Handling
  <2> HIDE DEF x
  <2>2. Underway(m, t, x)
    BY <1>1, <2>1 DEF Underway
  <2>3. Handler(y) /\ y.tree = x.tree /\ y.queue = x.queue /\ y.emitted = x.emitted
    BY <2>1, ForgetFields
  <2> HIDE DEF y
  <2>4. Underway(m, t, y)
    BY <2>2, <2>3, UnderwayOn
  <2>5. r = Enqueue(y)
    BY <1>2 DEF Outcomes, x, y
  <2> QED
    BY <2>4, <2>5, EnqueueSequel
<1> DEFINE s1 == RetainLive(s)
<1>3. Handler(s1) /\ s1.tree = s.tree /\ s1.queue = s.queue /\ s1.emitted = s.emitted
      /\ s1.ok = TRUE
  BY <1>1, RetainFields
<1> HIDE DEF s1
<1>4. Underway(m, t, s1)
  BY <1>3, UnderwayOn
<1>5. CASE ~e.treeOut /\ e.eos
  <2>1. r = Enqueue(s1)
    BY <1>5 DEF Outcomes, s1
  <2> QED
    BY <1>4, <2>1, EnqueueSequel
<1>6. CASE ~e.treeOut /\ ~e.eos
  <2> DEFINE s2 == SpeculativePrune(s1)
  <2>1. /\ Told(t, s2, {}) /\ Lasting(s1.tree, s2.tree)
        /\ ActiveFrontier(s1.tree) # {} => ActiveFrontier(s2.tree) # {}
    BY <1>4, PruneTold DEF Underway
  <2>2. Handler(s2) /\ s2.queue = s1.queue /\ s2.ok = TRUE
    BY <1>3, PruneHandling DEF Handling
  <2>3. PICK d \in Decide(s2, e) : r = Finish(d)
    BY <1>6 DEF Outcomes, s1
  <2> HIDE DEF s2
  <2>4. Underway(m, t, s2)
    BY <1>4, <2>1, <2>2, FruitfulOn DEF Underway
  <2>5. CASE s2.terminals # <<>>
    <3>1. d = s2
      BY <2>3, <2>5 DEF Decide
    <3> QED
      BY <2>2, <2>3, <2>4, <3>1, FinishSequel
  <2>6. CASE s2.terminals = <<>>
    <3>1. PICK c \in Decisions(s2.tree, e) : d = Follow(s2, c)
      BY <2>3, <2>6 DEF Decide
    <3>2. Sensible(s2.tree, c) /\ Telling(s2.tree, c)
      BY <2>1, <2>2, DecisionsSensible, DecisionsTelling DEF Handler, Told
    <3>3. CASE c.ok = FALSE
      <4>1. {"ok", "tree"} \subseteq DOMAIN r /\ r.ok = FALSE /\ r.tree = c.tree
        BY <2>2, <2>3, <3>1, <3>2, <3>3, FollowFailed DEF Sensible
      <4>2. Fruitful(c.tree)
        BY <2>4, <3>2, FruitfulOn DEF Underway, Telling
      <4> QED
        BY <4>1, <4>2 DEF Sequel
    <3>4. CASE c.ok = TRUE
      <4>1. /\ Told(t, d, {}) /\ Handler(d) /\ Lasting(s2.tree, d.tree)
            /\ ActiveFrontier(s2.tree) # {} => ActiveFrontier(d.tree) # {}
        BY <2>1, <2>2, <3>1, <3>2, <3>4, FollowTold
      <4>2. d.ok /\ d.queue = s2.queue
        <5>1. /\ c.ok \in BOOLEAN /\ c.ok /\ c.out \in Seq(CommandSet)
              /\ Evolves(s2.tree, c.tree, ClosedBy(c.out))
          BY <3>2, <3>4 DEF Sensible
        <5> QED
          BY <2>2, <3>1, <5>1, FollowHandling DEF Handling
      <4>3. Underway(m, t, d)
        BY <2>4, <4>1, <4>2, FruitfulOn DEF Underway
      <4> QED
        BY <2>3, <4>2, <4>3, FinishSequel
    <3> QED
      BY <3>2, <3>3, <3>4 DEF Sensible
  <2> QED
    BY <2>5, <2>6
<1>7. e.treeOut \/ (~e.treeOut /\ e.eos) \/ (~e.treeOut /\ ~e.eos)
  OBVIOUS
<1> QED
  BY <1>2, <1>5, <1>6, <1>7

-----------------------------------------------------------------------------
(* The tree and the queue between two events.                              *)

TreeInv ==
  /\ Fruitful(tree)
  /\ ~failed => Whole(tree, {}) /\ Story(mirror, queue, Image(tree))

LEMMA BeginsUnderway ==
  ASSUME Quiet, TreeInv, NEW q, NEW b, Starts(q, b)
  PROVE  \E t : Underway(mirror, t, q)
<1>1. Fruitful(tree) /\ Whole(tree, {}) /\ Story(mirror, queue, Image(tree))
      /\ queue \in Seq(CommandSet)
  BY QuietFacts DEF TreeInv, Quiet, TypeInv
<1>2. PICK s :
        /\ Handler(s) /\ s.emitted = <<>> /\ s.queue \in {queue, WithoutContinue(queue, b)}
        /\ s.tree.state = tree.state /\ s.tree.parent = tree.parent /\ s.tree.depth = tree.depth
        /\ q = s \/ (b \in ActiveFrontier(s.tree) /\ q = FinalizeBranch(s, b))
  BY DEF Starts
<1> DEFINE t == s.tree
<1>3. t \in Trees
  BY <1>2 DEF Handler, TreeOK
<1>4. /\ Whole(t, {}) /\ Image(t) = Image(tree) /\ Lasting(tree, t)
      /\ ActiveFrontier(t) = ActiveFrontier(tree)
  BY <1>1, <1>2, <1>3, SameWhole
<1>5. Told(t, s, {})
  <2>1. Story(Image(t), <<>>, Image(t))
    BY <1>3, ImageSound, StoryNone
  <2> QED
    BY <1>2, <1>4, <2>1 DEF Told
<1>6. Fruitful(t)
  BY <1>1, <1>4, FruitfulOn
<1>7. Story(mirror, s.queue, Image(t))
  BY <1>1, <1>2, <1>4, StoryWithout
<1>8. Underway(mirror, t, s)
  BY <1>2, <1>5, <1>6, <1>7 DEF Underway
<1>9. CASE q = s
  BY <1>8, <1>9
<1>10. CASE b \in ActiveFrontier(t) /\ q = FinalizeBranch(s, b)
  <2>1. Told(t, q, {}) /\ q.tree.state[b] = "finalized"
    BY <1>2, <1>5, <1>10, FinalizeTold
  <2>2. Handler(q) /\ q.queue = s.queue
    BY <1>2, <1>10, FinalizeSteps DEF Handling
  <2>3. Fruitful(q.tree)
    BY <1>10, <2>1 DEF Fruitful, ActiveFrontier
  <2>4. Underway(mirror, t, q)
    BY <1>7, <2>1, <2>2, <2>3 DEF Underway
  <2> QED
    BY <2>4
<1> QED
  BY <1>2, <1>9, <1>10


-----------------------------------------------------------------------------
(* What an event leaves is installed.                                      *)

LEMMA ReplayPrimed ==
  ASSUME config' = config, NEW a, NEW c
  PROVE  Replay(a, c)' = Replay(a, c)
BY DEF Replay, Legal, Born, ForkWidth, Size, IsLive, IsTerminal, Children, Present

LEMMA StoryPrimed ==
  ASSUME config' = config, Story(mirror', queue', Image(tree'))
  PROVE  Story(mirror, queue, Image(tree))'
<1>1. \A a, c : Replay(a, c)' = Replay(a, c)
  BY ReplayPrimed
<1>2. PICK v : Replays(v, mirror', queue') /\ v[Len(queue')] = Image(tree')
  BY DEF Story
<1>3. /\ v[0] = mirror'
      /\ \A i \in 0 .. Len(queue') : v[i] \in Sound
      /\ \A i \in 1 .. Len(queue') : v[i] = Replay(v[i - 1], queue'[i])
  BY <1>2 DEF Replays
<1>4. (\A i \in 1 .. Len(queue) : v[i] = Replay(v[i - 1], queue[i]))'
  BY <1>1, <1>3
<1>5. (Replays(v, mirror, queue) /\ v[Len(queue)] = Image(tree))'
  BY <1>2, <1>3, <1>4 DEF Replays, Sound, Image
<1> QED
  BY <1>5 DEF Story

LEMMA TreePrimed ==
  /\ Fruitful(tree') => Fruitful(tree)'
  /\ Whole(tree', {}) => Whole(tree, {})'
<1>1. Fruitful(tree') => Fruitful(tree)'
  BY DEF Fruitful, ActiveFrontier
<1>2. Whole(tree', {}) => Whole(tree, {})'
  BY DEF Whole, Linked, Barren, TreeOK, Present, IsLive, Children
<1> QED
  BY <1>1, <1>2

LEMMA TickTree ==
  ASSUME NEW s, {"ok", "tree"} \subseteq DOMAIN s
  PROVE  Tick(s).ok = s.ok /\ Tick(s).tree = s.tree
<1> DEFINE w == [b \in DOMAIN s.waits |-> s.waits[b] - 1]
<1>1. Tick(s) = [s EXCEPT !.waits = w]
  BY DEF Tick
<1> HIDE DEF w
<1> QED
  BY <1>1

\* Installing what handling an event left keeps the invariant.
LEMMA SequelKeeps ==
  ASSUME NEW r, Sequel(mirror, r), NEW x, x = r \/ x = Tick(r), Install(x), mirror' = mirror
  PROVE  TreeInv'
<1>1. /\ {"ok", "tree"} \subseteq DOMAIN r /\ Fruitful(r.tree)
      /\ r.ok => Handler(r) /\ Whole(r.tree, {}) /\ Story(mirror, r.queue, Image(r.tree))
  BY DEF Sequel
<1>2. x.ok = r.ok /\ x.tree = r.tree
  BY <1>1, TickTree
<1>3. tree' = r.tree /\ failed' = ~r.ok /\ config' = config
  BY <1>2 DEF Install
<1>4. Fruitful(tree)'
  BY <1>1, <1>3, TreePrimed
<1>5. ASSUME r.ok PROVE (Whole(tree, {}) /\ Story(mirror, queue, Image(tree)))'
  <2>1. x.queue = r.queue
    BY <1>1, <1>5, TickFields
  <2>2. queue' = r.queue
    BY <2>1 DEF Install
  <2>3. Whole(tree', {}) /\ Story(mirror', queue', Image(tree'))
    BY <1>1, <1>3, <1>5, <2>2
  <2> QED
    BY <1>3, <2>3, TreePrimed, StoryPrimed
<1> QED
  BY <1>3, <1>4, <1>5 DEF TreeInv

\* What comes of an event is installed.
LEMMA EventKeepsTree ==
  ASSUME Quiet, TreeInv, NEW q, NEW e, NEW b, NEW G, Begins(q, e, b, G),
         NEW r \in Outcomes(q, e), NEW x, x = r \/ x = Tick(r), Install(x), mirror' = mirror
  PROVE  TreeInv'
<1>1. Starts(q, b) /\ q.ok = TRUE /\ config \in Configs
  BY QuietFacts DEF Begins, Recorded
<1>2. PICK t : Underway(mirror, t, q)
  BY <1>1, BeginsUnderway
<1>3. Sequel(mirror, r)
  BY <1>1, <1>2, OutcomesSequel
<1> QED
  BY <1>3, SequelKeeps

LEMMA TokenKeepsTree ==
  ASSUME Quiet, TreeInv, NEW b \in Ids, NEW logprob \in Logprobs,
         NEW eos \in {FALSE, StopPossible}, TokenSampled(b, logprob, eos)
  PROVE  TreeInv'
<1>1. PICK r \in Sampled(b, logprob, eos) : Install(Tick(r)) /\ mirror' = mirror
  BY DEF TokenSampled
<1>2. PICK q, e : Begins(q, e, b, InForce \ {b}) /\ r \in Outcomes(q, e)
  BY TokenBegins DEF TokenSampled
<1> DEFINE x == Tick(r)
<1>3. Install(x) /\ x = Tick(r) /\ mirror' = mirror
  BY <1>1
<1> HIDE DEF x
<1> QED
  BY <1>2, <1>3, EventKeepsTree

LEMMA ExhaustedKeepsTree ==
  ASSUME Quiet, TreeInv, NEW b \in Ids, BranchExhausted(b)
  PROVE  TreeInv'
<1>1. PICK r \in Exhausted(b) : Install(Tick(r)) /\ mirror' = mirror
  BY DEF BranchExhausted
<1>2. PICK q, e : Begins(q, e, b, Held \ {b}) /\ r \in Outcomes(q, e)
  BY ExhaustedBegins DEF BranchExhausted
<1> DEFINE x == Tick(r)
<1>3. Install(x) /\ x = Tick(r) /\ mirror' = mirror
  BY <1>1
<1> HIDE DEF x
<1> QED
  BY <1>2, <1>3, EventKeepsTree

LEMMA ScoredKeepsTree ==
  ASSUME Quiet, TreeInv, NEW b \in Ids, NEW score \in Scores, ValueScored(b, score)
  PROVE  TreeInv'
<1>1. PICK r \in Scored(b, score) : Install(Tick(r)) /\ mirror' = mirror
  BY DEF ValueScored
<1>2. b \in DOMAIN waits /\ score \in Int
  BY BranchSchedulerAssumption DEF ValueScored, AcceptsValue
<1>3. PICK q, e : Begins(q, e, b, InForce) /\ r \in Outcomes(q, e)
  BY <1>2, ValueBegins
<1> DEFINE x == Tick(r)
<1>4. Install(x) /\ x = Tick(r) /\ mirror' = mirror
  BY <1>1
<1> HIDE DEF x
<1> QED
  BY <1>3, <1>4, EventKeepsTree

LEMMA ExpiredKeepsTree ==
  ASSUME Quiet, TreeInv, ResolveExpired
  PROVE  TreeInv'
<1>1. PICK b, score, r : /\ b \in DOMAIN waits /\ score \in Int
                         /\ r \in Scored(b, score) /\ Install(r)
  BY ExpiredScore
<1>2. PICK q, e : Begins(q, e, b, InForce) /\ r \in Outcomes(q, e)
  BY <1>1, ValueBegins
<1>3. mirror' = mirror
  BY DEF ResolveExpired
<1> QED
  BY <1>1, <1>2, <1>3, EventKeepsTree

\* The driver carries the queue out, and its tree is the scheduler's.
LEMMA PollKeepsTree ==
  ASSUME Quiet, TreeInv, Poll
  PROVE  TreeInv'
<1>1. /\ Fruitful(tree) /\ Whole(tree, {}) /\ Story(mirror, queue, Image(tree))
      /\ queue \in Seq(CommandSet)
  BY QuietFacts DEF TreeInv, Quiet, TypeInv
<1>2. Mirrored = Image(tree) /\ Image(tree) \in Sound
  BY <1>1, StoryEnds DEF Mirrored, Rebuilt
<1>3. /\ mirror' = Image(tree) /\ queue' = <<>> /\ tree' = tree /\ config' = config
  BY <1>2 DEF Poll, TakeQueue
<1>4. Fruitful(tree)' /\ Whole(tree, {})'
  <2>1. Fruitful(tree') /\ Whole(tree', {})
    BY <1>1, <1>3
  <2> QED
    BY <2>1, TreePrimed
<1>5. Story(mirror, queue, Image(tree))'
  <2>1. Story(mirror', queue', Image(tree'))
    BY <1>2, <1>3, StoryNone
  <2> QED
    BY <1>3, <2>1, StoryPrimed
<1> QED
  BY <1>4, <1>5 DEF TreeInv

\* The caller drains the search.
LEMMA DrainKeepsTree ==
  ASSUME Quiet, TreeInv, Drain
  PROVE  TreeInv'
<1> DEFINE k == Terminate(Current)
           f == ForgetPending(k)
           s == [f EXCEPT !.outstanding = {}]
           x == Enqueue(s)
<1>1. /\ Fruitful(tree) /\ Whole(tree, {}) /\ Story(mirror, queue, Image(tree)) /\ TypeInv
  BY QuietFacts DEF TreeInv, Quiet
<1>2. /\ Handler(Current) /\ Current.tree = tree /\ Current.queue = queue
      /\ Current.emitted = <<>> /\ Current.ok = TRUE
  BY <1>1, CurrentFields
<1>3. Told(tree, Current, {})
  <2>1. Story(Image(tree), <<>>, Image(tree))
    BY <1>1, ImageSound, StoryNone DEF TypeInv, TreeOK
  <2> QED
    BY <1>1, <1>2, <2>1 DEF Told
<1>4. Told(tree, k, {}) /\ Fruitful(k.tree) /\ Handler(k) /\ k.queue = queue
  BY <1>1, <1>2, <1>3, TerminateTold, TerminateHandling DEF Handling
<1> HIDE DEF k
<1>5. /\ Handler(f) /\ f.tree = k.tree /\ f.queue = queue /\ f.emitted = k.emitted
  BY <1>4, ForgetFields
<1> HIDE DEF f
<1>6. /\ Handler(s) /\ s.tree = k.tree /\ s.queue = queue /\ s.emitted = k.emitted
  BY <1>5 DEF Handler, Handlers
<1>7. [ForgetPending(Terminate(Current)) EXCEPT !.outstanding = {}] = s
  BY Zenon DEF f, k
<1> HIDE DEF s
<1>8. Underway(mirror, tree, s)
  BY <1>1, <1>4, <1>6 DEF Underway, Told
<1>9. Sequel(mirror, x)
  BY <1>8, EnqueueSequel
<1>10. Install(x) /\ mirror' = mirror
  <2>1. /\ Install(Enqueue([ForgetPending(Terminate(Current)) EXCEPT !.outstanding = {}]))
        /\ mirror' = mirror
    BY DEF Drain
  <2> QED
    BY <1>7, <2>1, Zenon
<1> HIDE DEF x
<1> QED
  BY <1>9, <1>10, SequelKeeps

LEMMA NewTreeWhole ==
  ASSUME TreeOK(NewTree), ActiveFrontier(NewTree) = {Root}
  PROVE  Whole(NewTree, {}) /\ Fruitful(NewTree)
<1> DEFINE t == NewTree
<1>1. t.state = [b \in Ids |-> IF b = Root THEN "active" ELSE "absent"]
  BY DEF NewTree
<1> HIDE DEF t
<1>2. Present(t) = {Root} /\ \A b \in Ids : t.state[b] # "expanded"
  BY <1>1, IdsFinite DEF Present
<1>3. Linked(t) /\ Barren(t) = {}
  BY <1>2 DEF Linked, Barren
<1> QED
  BY <1>3 DEF Whole, Fruitful, t

LEMMA InitTree == Init => TreeInv
<1> SUFFICES ASSUME Init PROVE TreeInv
  OBVIOUS
<1>1. tree = NewTree /\ queue = <<>> /\ mirror = Image(tree)
  BY DEF Init, NewScheduler, Image
<1>2. Whole(tree, {}) /\ Fruitful(tree) /\ TreeOK(tree)
  BY <1>1, NewTreeOK, NewTreeWhole
<1>3. Story(mirror, queue, Image(tree))
  BY <1>1, <1>2, ImageSound, StoryNone DEF TreeOK
<1> QED
  BY <1>2, <1>3 DEF TreeInv

\* The tree and the queue from the initial state on: as long as the search has
\* not failed the tree is whole and the queue tells how the driver's copy
\* becomes it; and a search that is over has a finalized branch.
THEOREM TreeInvariant == Spec => []TreeInv
<1>1. IInv /\ TreeInv /\ [Next]_vars => TreeInv'
  <2> SUFFICES ASSUME IInv, TreeInv, [Next]_vars PROVE TreeInv'
    OBVIOUS
  <2>1. CASE UNCHANGED <<scheduler, mirror>>
    <3>1. /\ tree' = tree /\ config' = config /\ queue' = queue /\ failed' = failed
          /\ mirror' = mirror
      BY <2>1 DEF scheduler
    <3>2. Fruitful(tree)'
      BY <3>1, TreePrimed DEF TreeInv
    <3>3. ASSUME ~failed PROVE (Whole(tree, {}) /\ Story(mirror, queue, Image(tree)))'
      <4>1. Whole(tree', {}) /\ Story(mirror', queue', Image(tree'))
        BY <3>1, <3>3 DEF TreeInv
      <4> QED
        BY <3>1, <4>1, TreePrimed, StoryPrimed
    <3> QED
      BY <3>1, <3>2, <3>3 DEF TreeInv
  <2>2. CASE Next /\ ~UNCHANGED <<scheduler, mirror>>
    <3>1. Quiet
      BY <2>2 DEF Quiet, Next, Tokens, Values, TokenSampled, MaySample, TokenRefused, BranchExhausted,
        ValueScored, ResolveExpired, Poll, Drain, Idle
    <3>2. CASE Tokens
      BY <3>1, <3>2, TokenKeepsTree DEF Tokens
    <3>3. CASE \E b \in Ids : BranchExhausted(b)
      BY <3>1, <3>3, ExhaustedKeepsTree
    <3>4. CASE Values
      BY <3>1, <3>4, ScoredKeepsTree DEF Values
    <3>5. CASE ResolveExpired
      BY <3>1, <3>5, ExpiredKeepsTree
    <3>6. CASE Poll
      BY <3>1, <3>6, PollKeepsTree
    <3>7. CASE Drain
      BY <3>1, <3>7, DrainKeepsTree
    <3> QED
      BY <2>2, <3>2, <3>3, <3>4, <3>5, <3>6, <3>7 DEF Next, TokenRefused
  <2> QED
    BY <2>1, <2>2 DEF vars
<1> QED
  BY <1>1, InitTree, SchedulerInvariant, PTL DEF Spec

\* Every expanded branch has a live child: ancestors are reclaimed with their
\* last descendant, and not before.
THEOREM NoZombies == Spec => []NoZombieParents
<1>1. TreeInv => NoZombieParents
  BY DEF TreeInv, Whole, Barren, NoZombieParents
<1> QED
  BY <1>1, TreeInvariant, PTL

\* A search that is over, were it by a failure, has a finalized branch.
THEOREM ResultExists == Spec => []SomethingFinalized
<1>1. TreeInv => SomethingFinalized
  BY DEF TreeInv, Fruitful, SomethingFinalized
<1> QED
  BY <1>1, TreeInvariant, PTL

\* The commands alone rebuild the tree: each is legal when its turn comes, and
\* after the last one the driver's copy has the scheduler's states and parents.
THEOREM CommandsReplay == Spec => []CommandsReplayTheTree
<1>1. IInv /\ TreeInv => CommandsReplayTheTree
  <2> SUFFICES ASSUME IInv, TreeInv, ~failed
               PROVE  /\ Mirrored.legal
                      /\ Mirrored.state = tree.state /\ Mirrored.parent = tree.parent
    BY DEF CommandsReplayTheTree
  <2>1. queue \in Seq(CommandSet) /\ tree \in Trees /\ Story(mirror, queue, Image(tree))
    BY DEF IInv, TypeInv, TreeOK, TreeInv
  <2>2. Mirrored = Image(tree)
    BY <2>1, StoryEnds DEF Mirrored, Rebuilt
  <2> QED
    BY <2>1, <2>2, ImageSound
<1> QED
  BY <1>1, TreeInvariant, SchedulerInvariant, PTL
=============================================================================
