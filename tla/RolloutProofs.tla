---------------------------- MODULE RolloutProofs ----------------------------
(***************************************************************************)
(* The two acceptors of a tree stream, for every number of prompts, words, *)
(* branches, tokens and frames on the way: what the server's accumulator   *)
(* let pass, and the SDK's models parse, its assembler takes, and the      *)
(* trees that rollout keeps and exports are those the engine completed.    *)
(*                                                                         *)
(* Mirrors says when an assembler and an accumulator were given the same   *)
(* events; MirrorStep, that one more event keeps them in step.  A stream   *)
(* on its way (Going) is an assembler some events behind: those events are *)
(* on the wire, in their order, as far as the connection let them through. *)
(*                                                                         *)
(* The deterministic engine is followed through its script: after k of its *)
(* events the accumulator is as Stage says, and takes the next.            *)
(***************************************************************************)
EXTENDS Rollout, SharedLemmas

-----------------------------------------------------------------------------
(* Sequences of whatever.                                                  *)

IsSeq(q) == \E X : q \in Seq(X)

\* What a longer sequence looks like.
LEMMA SeqLonger ==
  ASSUME NEW q, IsSeq(q), NEW x
  PROVE  /\ Len(q) \in Nat
         /\ IsSeq(Append(q, x)) /\ Len(Append(q, x)) = Len(q) + 1
         /\ \A i \in 1 .. Len(q) : Append(q, x)[i] = q[i]
         /\ Append(q, x)[Len(q) + 1] = x
<1>1. PICK X : q \in Seq(X)
  BY DEF IsSeq
<1> DEFINE Y == X \cup {x}
<1>2. q \in Seq(Y) /\ x \in Y
  BY <1>1
<1> HIDE DEF Y
<1>3. Append(q, x) \in Seq(Y)
  BY <1>2
<1> QED
  BY <1>2, <1>3 DEF IsSeq

\* And one joined from two, shortened, or cut off.
LEMMA SeqJoined ==
  ASSUME NEW p, IsSeq(p), NEW q, IsSeq(q)
  PROVE  /\ Len(p) \in Nat /\ Len(q) \in Nat
         /\ IsSeq(p \o q) /\ Len(p \o q) = Len(p) + Len(q)
         /\ \A i \in 1 .. Len(p) + Len(q) :
              (p \o q)[i] = IF i <= Len(p) THEN p[i] ELSE q[i - Len(p)]
<1>1. PICK X : p \in Seq(X)
  BY DEF IsSeq
<1>2. PICK Y : q \in Seq(Y)
  BY DEF IsSeq
<1> DEFINE Z == X \cup Y
<1>3. p \in Seq(Z) /\ q \in Seq(Z)
  BY <1>1, <1>2
<1> HIDE DEF Z
<1>4. p \o q \in Seq(Z)
  BY <1>3
<1> QED
  BY <1>3, <1>4 DEF IsSeq

LEMMA SeqShorter ==
  ASSUME NEW q, IsSeq(q), q # <<>>
  PROVE  /\ Len(q) \in Nat \ {0} /\ Head(q) = q[1]
         /\ IsSeq(Tail(q)) /\ Len(Tail(q)) = Len(q) - 1
         /\ \A i \in 1 .. Len(q) - 1 : Tail(q)[i] = q[i + 1]
<1>1. PICK X : q \in Seq(X)
  BY DEF IsSeq
<1> QED
  BY <1>1 DEF IsSeq

LEMMA SeqCut ==
  ASSUME NEW q, IsSeq(q), NEW n \in 0 .. Len(q)
  PROVE  /\ Len(q) \in Nat
         /\ IsSeq(SubSeq(q, 1, n)) /\ Len(SubSeq(q, 1, n)) = n
         /\ \A i \in 1 .. n : SubSeq(q, 1, n)[i] = q[i]
<1>1. PICK X : q \in Seq(X)
  BY DEF IsSeq
<1>2. Len(q) \in Nat
  BY <1>1
<1>3. SubSeq(q, 1, n) = [i \in 1 .. n |-> q[i]]
  BY <1>1, <1>2
<1>4. [i \in 1 .. n |-> q[i]] \in Seq(X)
  BY <1>1, <1>2
<1> QED
  BY <1>2, <1>3, <1>4 DEF IsSeq

\* A function on an interval from one is a sequence.
LEMMA SeqMade ==
  ASSUME NEW n \in Nat, NEW g
  PROVE  /\ IsSeq([i \in 1 .. n |-> g[i]]) /\ Len([i \in 1 .. n |-> g[i]]) = n
<1> DEFINE X == {g[i] : i \in 1 .. n}
           q == [i \in 1 .. n |-> g[i]]
<1>1. q \in [1 .. n -> X]
  OBVIOUS
<1>2. q \in Seq(X) /\ Len(q) = n
  <2> HIDE DEF X, q
  <2> QED
    BY <1>1
<1> QED
  BY <1>2 DEF IsSeq

\* A sequence is empty when its length is 0.
LEMMA SeqEmpty == IsSeq(<<>>) /\ Len(<<>>) = 0 /\ \A q : IsSeq(q) /\ Len(q) = 0 => q = <<>>
<1>1. <<>> \in Seq({})
  OBVIOUS
<1>2. ASSUME NEW q, IsSeq(q), Len(q) = 0 PROVE q = <<>>
  BY <1>2 DEF IsSeq
<1> QED
  BY <1>1, <1>2 DEF IsSeq

-----------------------------------------------------------------------------
(* Functions with one entry changed.                                       *)

IsFcn(f) == f = [c \in DOMAIN f |-> f[c]]

\* EXCEPT changes one entry and leaves the others.
LEMMA ExceptIs ==
  ASSUME NEW f, IsFcn(f), NEW b \in DOMAIN f, NEW x, NEW g, g = [f EXCEPT ![b] = x]
  PROVE  g = Entered(f, b, x)
BY DEF Entered, IsFcn

-----------------------------------------------------------------------------
(* What the server's accumulator and the assembler make of an event.       *)

EventTypes == {"branch_started", "token", "branch_pruned", "branch_merged", "done"}

Event(e) == e.type \in EventTypes /\ (e.type = "branch_started" => e.branch # NoBranch)

\* A stream with the fields named, and a trace.
StreamOf(parents, tokens, terminal, pruned, merged, finished) ==
  [parents |-> parents, tokens |-> tokens, terminal |-> terminal,
   pruned |-> pruned, merged |-> merged, finished |-> finished, error |-> FALSE]

\* Whether a stream was finished, a trace done.
Open == FALSE
Over == TRUE

\* The accumulator s, which takes e, becomes what these say.
Takes(s, e, p, k, t, n, m, f) ==
  /\ e.type = "branch_started" =>
       /\ e.branch \notin DOMAIN p /\ e.parent \in DOMAIN p \cup {NoBranch}
       /\ Accept(s, e) = StreamOf(Entered(p, e.branch, e.parent),
                                  Entered(k, e.branch, <<>>), t, n, m, f)
  /\ e.type = "token" =>
       /\ e.branch \in DOMAIN p \ t /\ e.index = Len(k[e.branch])
       /\ Accept(s, e) = StreamOf(p, Entered(k, e.branch, Append(k[e.branch], e.token)),
                                  t, n, m, f)
  /\ e.type = "branch_pruned" =>
       /\ e.branch \in DOMAIN p \ t
       /\ Accept(s, e) = StreamOf(p, k, t \cup {e.branch}, n + 1, m, f)
  /\ e.type = "branch_merged" =>
       /\ e.branch \in DOMAIN p \ t /\ e.into \in DOMAIN p \ t /\ e.into # e.branch
       /\ Accept(s, e) = StreamOf(p, k, t \cup {e.branch}, n, m + 1, f)
  /\ e.type = "done" =>
       /\ e.branch \in DOMAIN p \ t /\ t \cup {e.branch} = DOMAIN p
       /\ e.completion = TokensIn(s) /\ e.text = PathText(s, e.branch)
       /\ e.summary # "none" => SummaryFits(s, e)
       /\ Accept(s, e) = StreamOf(p, k, t \cup {e.branch}, n, m, Over)

\* Accept on the fields of an accumulator, event by event.
LEMMA AcceptIs ==
  ASSUME NEW p, NEW k, NEW t, NEW n, NEW m, NEW f \in BOOLEAN, NEW s,
         s = StreamOf(p, k, t, n, m, f), IsFcn(p), IsFcn(k), DOMAIN k = DOMAIN p,
         NEW e, Event(e), Accepts(s, e)
  PROVE  f = Open /\ Takes(s, e, p, k, t, n, m, f)
<1> DEFINE b == e.branch
<1>1. /\ s.parents = p /\ s.tokens = k /\ s.terminal = t /\ s.pruned = n /\ s.merged = m
      /\ s.finished = f /\ s.error = FALSE
  BY DEF StreamOf
<1>2. ~s.finished /\ f = Open
  BY <1>1 DEF Accepts, Open
<1>3. ASSUME e.type = "branch_started"
      PROVE  /\ b \notin DOMAIN p /\ e.parent \in DOMAIN p \cup {NoBranch}
             /\ Accept(s, e) = StreamOf(Entered(p, b, e.parent), Entered(k, b, <<>>), t, n, m, f)
  <2>1. b \notin DOMAIN p /\ e.parent \in DOMAIN p \cup {NoBranch}
    BY <1>1, <1>3 DEF Accepts, StartedIn
  <2>2. Accept(s, e) = [s EXCEPT !.parents = Entered(@, b, e.parent),
                                 !.tokens = Entered(@, b, <<>>)]
    BY <1>1, <1>3 DEF Accept
  <2> QED
    BY <2>1, <2>2 DEF StreamOf
<1>4. ASSUME e.type = "token"
      PROVE  /\ b \in DOMAIN p \ t /\ e.index = Len(k[b])
             /\ Accept(s, e) = StreamOf(p, Entered(k, b, Append(k[b], e.token)), t, n, m, f)
  <2>1. b \in DOMAIN p \ t /\ e.index = Len(k[b])
    BY <1>1, <1>4 DEF Accepts, Terminable, StartedIn
  <2>2. Accept(s, e) = [s EXCEPT !.tokens[b] = Append(@, e.token)]
    BY <1>1, <1>4 DEF Accept
  <2>3. [k EXCEPT ![b] = Append(k[b], e.token)] = Entered(k, b, Append(k[b], e.token))
    BY <2>1, ExceptIs
  <2>4. Accept(s, e) = StreamOf(p, [k EXCEPT ![b] = Append(k[b], e.token)], t, n, m, f)
    BY <2>2 DEF StreamOf
  <2> QED
    BY <2>1, <2>3, <2>4
<1>5. ASSUME e.type = "branch_pruned"
      PROVE  /\ b \in DOMAIN p \ t
             /\ Accept(s, e) = StreamOf(p, k, t \cup {b}, n + 1, m, f)
  <2>1. b \in DOMAIN p \ t
    BY <1>1, <1>5 DEF Accepts, Terminable, StartedIn
  <2>2. Accept(s, e) = [s EXCEPT !.terminal = @ \cup {b}, !.pruned = @ + 1]
    BY <1>1, <1>5 DEF Accept
  <2> QED
    BY <2>1, <2>2 DEF StreamOf
<1>6. ASSUME e.type = "branch_merged"
      PROVE  /\ b \in DOMAIN p \ t /\ e.into \in DOMAIN p \ t /\ e.into # b
             /\ Accept(s, e) = StreamOf(p, k, t \cup {b}, n, m + 1, f)
  <2>1. b \in DOMAIN p \ t /\ e.into \in DOMAIN p \ t /\ e.into # b
    BY <1>1, <1>6 DEF Accepts, Terminable, StartedIn
  <2>2. Accept(s, e) = [s EXCEPT !.terminal = @ \cup {b}, !.merged = @ + 1]
    BY <1>1, <1>6 DEF Accept
  <2> QED
    BY <2>1, <2>2 DEF StreamOf
<1>7. ASSUME e.type = "done"
      PROVE  /\ b \in DOMAIN p \ t /\ t \cup {b} = DOMAIN p
             /\ e.completion = TokensIn(s) /\ e.text = PathText(s, b)
             /\ e.summary # "none" => SummaryFits(s, e)
             /\ Accept(s, e) = StreamOf(p, k, t \cup {b}, n, m, Over)
  <2>1. /\ b \in DOMAIN p \ t /\ t \cup {b} = DOMAIN p
        /\ e.completion = TokensIn(s) /\ e.text = PathText(s, b)
        /\ e.summary # "none" => SummaryFits(s, e)
    BY <1>1, <1>7 DEF Accepts, Terminable, StartedIn
  <2>2. Accept(s, e) = [s EXCEPT !.terminal = @ \cup {b}, !.finished = Over]
    BY <1>1, <1>7 DEF Accept, Over
  <2> QED
    BY <2>1, <2>2 DEF StreamOf
<1> QED
  BY <1>2, <1>3, <1>4, <1>5, <1>6, <1>7 DEF Takes

\* A branch of a trace, and a trace, with the fields named.
Branch(parent, path, tokens, status) ==
  [parent |-> parent, path |-> path, tokens |-> tokens, status |-> status]

TraceOf(branches, done) == [branches |-> branches, done |-> done]

PathBelow(B, b, q) == IF q = NoBranch THEN <<b>> ELSE Append(B[q].path, b)

\* The assembler u, with the branches B and its e.branch as given, adds e.
Starts(u, e, B, f) ==
  Add(u, e) = TraceOf(Entered(B, e.branch,
    Branch(e.parent, PathBelow(B, e.branch, e.parent), <<>>, "live")), f)

Goes(u, e, B, f, q, w, k, a) ==
  /\ e.type = "token" =>
       Add(u, e) = TraceOf(Entered(B, e.branch, Branch(q, w, Append(k, e.token), a)), f)
  /\ e.type = "branch_pruned" =>
       Add(u, e) = TraceOf(Entered(B, e.branch, Branch(q, w, k, "pruned")), f)
  /\ e.type = "branch_merged" =>
       Add(u, e) = TraceOf(Entered(B, e.branch, Branch(q, w, k, "merged")), f)
  /\ e.type = "done" =>
       Add(u, e) = TraceOf(Entered(B, e.branch, Branch(q, w, k, "completed")), Over)

\* Add on the branches of an assembler, event by event.
LEMMA AddIs ==
  ASSUME NEW B, IsFcn(B), NEW f, NEW e
  PROVE  /\ e.type = "branch_started" => Starts(TraceOf(B, f), e, B, f)
         /\ \A q, w, k, a : e.branch \in DOMAIN B /\ B[e.branch] = Branch(q, w, k, a) =>
              Goes(TraceOf(B, f), e, B, f, q, w, k, a)
<1> DEFINE b == e.branch
           s == TraceOf(B, f)
<1>1. s.branches = B /\ s.done = f
  BY DEF TraceOf
<1>2. ASSUME e.type = "branch_started"
      PROVE  Add(s, e) = TraceOf(Entered(B, b,
                  Branch(e.parent, PathBelow(B, b, e.parent), <<>>, "live")), f)
  <2>1. BranchPath(s, b, e.parent) = PathBelow(B, b, e.parent)
    BY <1>1 DEF BranchPath, PathBelow
  <2>2. Add(s, e) = [s EXCEPT !.branches = Entered(@, b,
          [parent |-> e.parent, path |-> BranchPath(s, b, e.parent),
           tokens |-> <<>>, status |-> "live"])]
    BY <1>2 DEF Add
  <2> QED
    BY <2>1, <2>2 DEF TraceOf, Branch
<1>3. ASSUME NEW q, NEW w, NEW k, NEW a, b \in DOMAIN B, B[b] = Branch(q, w, k, a)
      PROVE  /\ e.type = "token" => Add(s, e) =
                   TraceOf(Entered(B, b, Branch(q, w, Append(k, e.token), a)), f)
             /\ e.type = "branch_pruned" => Add(s, e) =
                   TraceOf(Entered(B, b, Branch(q, w, k, "pruned")), f)
             /\ e.type = "branch_merged" => Add(s, e) =
                   TraceOf(Entered(B, b, Branch(q, w, k, "merged")), f)
             /\ e.type = "done" => Add(s, e) =
                   TraceOf(Entered(B, b, Branch(q, w, k, "completed")), Over)
  <2>1. \A x : [B EXCEPT ![b] = x] = Entered(B, b, x)
    BY <1>3, ExceptIs
  <2>2. ASSUME e.type = "token"
        PROVE  Add(s, e) = TraceOf(Entered(B, b, Branch(q, w, Append(k, e.token), a)), f)
    <3>1. Add(s, e) = [s EXCEPT !.branches[b].tokens = Append(@, e.token)]
      BY <2>2 DEF Add
    <3>2. [B[b] EXCEPT !.tokens = Append(@, e.token)] = Branch(q, w, Append(k, e.token), a)
      BY <1>3, SMTT(20) DEF Branch
    <3>3. Add(s, e) = TraceOf([B EXCEPT ![b] = [B[b] EXCEPT !.tokens = Append(@, e.token)]], f)
      BY <3>1 DEF TraceOf
    <3> QED
      BY <2>1, <3>2, <3>3
  <2>3. ASSUME NEW z, NEW g, Add(s, e) = [s EXCEPT !.branches[b].status = z, !.done = g]
        PROVE  Add(s, e) = TraceOf(Entered(B, b, Branch(q, w, k, z)), g)
    <3>1. [B[b] EXCEPT !.status = z] = Branch(q, w, k, z)
      BY <1>3 DEF Branch
    <3>2. Add(s, e) = TraceOf([B EXCEPT ![b] = [B[b] EXCEPT !.status = z]], g)
      BY <2>3 DEF TraceOf
    <3> QED
      BY <2>1, <3>1, <3>2
  <2>4. ASSUME NEW z, Add(s, e) = [s EXCEPT !.branches[b].status = z]
        PROVE  Add(s, e) = TraceOf(Entered(B, b, Branch(q, w, k, z)), f)
    <3>1. [B[b] EXCEPT !.status = z] = Branch(q, w, k, z)
      BY <1>3 DEF Branch
    <3>2. Add(s, e) = TraceOf([B EXCEPT ![b] = [B[b] EXCEPT !.status = z]], f)
      BY <2>4 DEF TraceOf
    <3> QED
      BY <2>1, <3>1, <3>2
  <2>5. e.type = "branch_pruned" => Add(s, e) = [s EXCEPT !.branches[b].status = "pruned"]
    BY DEF Add
  <2>6. e.type = "branch_merged" => Add(s, e) = [s EXCEPT !.branches[b].status = "merged"]
    BY DEF Add
  <2>7. e.type = "done" => Add(s, e) = [s EXCEPT !.branches[b].status = "completed", !.done = Over]
    BY DEF Add, Over
  <2> QED
    BY <2>2, <2>3, <2>4, <2>5, <2>6, <2>7
<1>4. e.type = "branch_started" => Starts(s, e, B, f)
  BY <1>2 DEF Starts
<1>5. \A q, w, k, a : b \in DOMAIN B /\ B[b] = Branch(q, w, k, a) => Goes(s, e, B, f, q, w, k, a)
  BY <1>3 DEF Goes
<1> HIDE DEF s
<1> QED
  BY <1>4, <1>5 DEF s

\* The path to b begins at a root and goes from parent to child.
PathFits(B, b) ==
  /\ B[b].path \in Seq(DOMAIN B) /\ Len(B[b].path) > 0 /\ B[b].path[Len(B[b].path)] = b
  /\ B[b].parent # NoBranch => B[b].parent \in DOMAIN B
  /\ B[b].path = PathBelow(B, b, B[b].parent)
  /\ \A i \in 1 .. Len(B[b].path) - 1 : B[B[b].path[i + 1]].parent = B[b].path[i]

\* PathFits depends on the paths and parents of the branches only.
LEMMA FitsIs ==
  ASSUME NEW B, NEW b, NEW v, NEW q, B[b].path = v, B[b].parent = q,
         v \in Seq(DOMAIN B), Len(v) > 0, v[Len(v)] = b, q # NoBranch => q \in DOMAIN B,
         v = PathBelow(B, b, q), \A i \in 1 .. Len(v) - 1 : B[v[i + 1]].parent = v[i]
  PROVE  PathFits(B, b)
BY DEF PathFits

Paths(B) == NoBranch \notin DOMAIN B /\ \A b \in DOMAIN B : PathFits(B, b)

\* A change of tokens or of a status leaves the paths as they are.
LEMMA PathsKept ==
  ASSUME NEW B, Paths(B), NEW b \in DOMAIN B, NEW x,
         x.parent = B[b].parent, x.path = B[b].path
  PROVE  Paths(Entered(B, b, x))
<1> DEFINE C == Entered(B, b, x)
<1>1. DOMAIN C = DOMAIN B /\ \A c \in DOMAIN B : C[c].parent = B[c].parent /\ C[c].path = B[c].path
  BY DEF Entered
<1> HIDE DEF C
<1>2. ASSUME NEW c \in DOMAIN B PROVE PathFits(C, c)
  <2>1. PathFits(B, c)
    BY DEF Paths
  <2>2. PathBelow(C, c, C[c].parent) = PathBelow(B, c, B[c].parent)
    BY <1>1, <2>1 DEF PathFits, PathBelow
  <2>3. \A i \in 1 .. Len(B[c].path) - 1 : B[c].path[i + 1] \in DOMAIN B
    BY <2>1 DEF PathFits
  <2> QED
    BY <1>1, <2>1, <2>2, <2>3 DEF PathFits
<1> QED
  BY <1>1, <1>2 DEF Paths, C

\* A branch that starts has the path of its parent and itself.
LEMMA PathsGrow ==
  ASSUME NEW B, Paths(B), NEW b, b \notin DOMAIN B, b # NoBranch, NEW x,
         x.parent \in DOMAIN B \cup {NoBranch}, x.path = PathBelow(B, b, x.parent)
  PROVE  Paths(Entered(B, b, x))
<1> DEFINE C == Entered(B, b, x)
           D == DOMAIN B
           q == x.parent
<1>1. DOMAIN C = D \cup {b} /\ C[b] = x /\ \A c \in D : C[c] = B[c]
  BY DEF Entered
<1>2. NoBranch \notin D /\ \A c \in D : PathFits(B, c)
  BY DEF Paths
<1> HIDE DEF C
<1>3. ASSUME NEW c \in D PROVE PathFits(C, c)
  <2>1. PathFits(B, c) /\ C[c] = B[c]
    BY <1>1, <1>2
  <2>2. PathBelow(C, c, C[c].parent) = PathBelow(B, c, B[c].parent)
    BY <1>1, <2>1 DEF PathFits, PathBelow
  <2>3. \A i \in 1 .. Len(B[c].path) - 1 : B[c].path[i + 1] \in D
    BY <2>1 DEF PathFits
  <2>4. B[c].path \in Seq(DOMAIN C)
    BY <1>1, <2>1 DEF PathFits
  <2> QED
    BY <1>1, <2>1, <2>2, <2>3, <2>4 DEF PathFits
<1>4. PathFits(C, b)
  <2>1. CASE q = NoBranch
    <3>1. C[b].path = <<b>>
      BY <1>1, <2>1 DEF PathBelow
    <3> DEFINE v == <<b>>
    <3>2. /\ v \in Seq(DOMAIN C) /\ Len(v) = 1 /\ v[Len(v)] = b
          /\ \A i \in 1 .. Len(v) - 1 : C[v[i + 1]].parent = v[i]
      BY <1>1
    <3>3. v = PathBelow(C, b, q)
      BY <2>1 DEF PathBelow
    <3>4. C[b].parent = q
      BY <1>1
    <3> HIDE DEF q, v
    <3> QED
      BY <2>1, <3>1, <3>2, <3>3, <3>4, FitsIs DEF v
  <2>2. CASE q # NoBranch
    <3> DEFINE w == B[q].path
               v == Append(w, b)
    <3>1. q \in D /\ PathFits(B, q) /\ C[q] = B[q]
      BY <1>1, <1>2, <2>2
    <3>2. /\ w \in Seq(D) /\ Len(w) \in Nat /\ Len(w) > 0 /\ w[Len(w)] = q
          /\ \A i \in 1 .. Len(w) - 1 : B[w[i + 1]].parent = w[i]
          /\ \A i \in 1 .. Len(w) : w[i] \in D
      BY <3>1 DEF PathFits
    <3>3. C[b].path = v /\ C[b].parent = q
      BY <1>1, <2>2 DEF PathBelow
    <3> HIDE DEF w
    <3>4. w \in Seq(DOMAIN C) /\ b \in DOMAIN C
      BY <1>1, <3>2
    <3>5. /\ v \in Seq(DOMAIN C) /\ Len(v) = Len(w) + 1 /\ v[Len(v)] = b
          /\ \A i \in 1 .. Len(w) : v[i] = w[i]
      BY <3>4
    <3> HIDE DEF v
    <3>6. \A i \in 1 .. Len(v) - 1 : C[v[i + 1]].parent = v[i]
      <4> SUFFICES ASSUME NEW i \in 1 .. Len(v) - 1 PROVE C[v[i + 1]].parent = v[i]
        OBVIOUS
      <4>1. CASE i = Len(w)
        BY <1>1, <3>2, <3>3, <3>5, <4>1
      <4>2. CASE i # Len(w)
        <5>1. i \in 1 .. Len(w) - 1 /\ i + 1 \in 1 .. Len(w)
          BY <3>2, <3>5, <4>2
        <5> QED
          BY <1>1, <3>2, <3>5, <5>1
      <4> QED
        BY <4>1, <4>2
    <3>7. v = PathBelow(C, b, q)
      BY <2>2, <3>1 DEF PathBelow, v, w
    <3>8. Len(v) > 0
      BY <3>2, <3>5
    <3>9. q \in DOMAIN C
      BY <1>1, <3>1
    <3> HIDE DEF q
    <3> QED
      BY <3>3, <3>5, <3>6, <3>7, <3>8, <3>9, FitsIs
  <2> QED
    BY <2>1, <2>2
<1> QED
  BY <1>1, <1>2, <1>3, <1>4 DEF Paths, C

\* The branches that ended as a says.
With(B, a) == {b \in DOMAIN B : B[b].status = a}

\* The branches of a status when one branch enters.
LEMMA WithEntered ==
  ASSUME NEW B, NEW b, NEW x, NEW a
  PROVE  /\ x.status = a => With(Entered(B, b, x), a) = With(B, a) \cup {b}
         /\ x.status # a => With(Entered(B, b, x), a) = With(B, a) \ {b}
<1> DEFINE C == Entered(B, b, x)
<1>1. DOMAIN C = DOMAIN B \cup {b} /\ C[b] = x /\ \A c \in DOMAIN B : c # b => C[c] = B[c]
  BY DEF Entered
<1> HIDE DEF C
<1> QED
  BY <1>1 DEF With, C

-----------------------------------------------------------------------------
(* The text of a branch: what was generated along its path.                *)

\* f joins the first n members of r.
Joins(f, r, n) == f = [i \in 1 .. n |-> IF i = 1 THEN r[i] ELSE f[i - 1] \o r[i]]

\* Joins, one part at a time.
LEMMA JoinsSteps ==
  ASSUME NEW f, NEW r, NEW n \in Nat, Joins(f, r, n)
  PROVE  /\ n >= 1 => f[1] = r[1]
         /\ \A i \in 1 .. n - 1 : f[i + 1] = f[i] \o r[i + 1]
<1>1. \A i \in 1 .. n : f[i] = IF i = 1 THEN r[i] ELSE f[i - 1] \o r[i]
  BY Zenon DEF Joins
<1>2. \A i \in 1 .. n - 1 : i + 1 \in 1 .. n /\ i + 1 # 1 /\ (i + 1) - 1 = i
  OBVIOUS
<1>3. n >= 1 => 1 \in 1 .. n
  OBVIOUS
<1>4. ASSUME NEW i \in 1 .. n - 1 PROVE f[i + 1] = f[i] \o r[i + 1]
  <2> DEFINE j == i + 1
  <2>1. j \in 1 .. n /\ j # 1 /\ j - 1 = i
    BY <1>2
  <2>2. f[j] = f[j - 1] \o r[j]
    <3> HIDE DEF j
    <3> QED
      BY <1>1, <2>1
  <2> QED
    BY <2>1, <2>2
<1> QED
  BY <1>1, <1>3, <1>4

\* Any list of texts can be joined.
LEMMA JoinsExists ==
  ASSUME NEW r, NEW n \in Nat
  PROVE  \E f : Joins(f, r, n)
<1> DEFINE S == {m \in Nat : \E f : Joins(f, r, m)}
<1>1. 0 \in S
  <2>1. Joins(<<>>, r, 0)
    <3>1. 1 .. 0 = {}
      OBVIOUS
    <3> QED
      BY <3>1 DEF Joins
  <2> QED
    BY <2>1
<1>2. ASSUME NEW m \in S PROVE m + 1 \in S
  <2>1. PICK f : Joins(f, r, m)
    OBVIOUS
  <2>2. m \in Nat /\ m + 1 \in Nat
    OBVIOUS
  <2> DEFINE x == IF m + 1 = 1 THEN r[m + 1] ELSE f[m] \o r[m + 1]
             g == [i \in 1 .. m + 1 |-> IF i = m + 1 THEN x ELSE f[i]]
  <2>3. \A i \in 1 .. m + 1 : g[i] = IF i = m + 1 THEN x ELSE f[i]
    OBVIOUS
  <2>4. \A i \in 1 .. m : f[i] = IF i = 1 THEN r[i] ELSE f[i - 1] \o r[i]
    BY <2>1, Zenon DEF Joins
  <2>5. g = [i \in 1 .. m + 1 |-> g[i]]
    OBVIOUS
  <2> HIDE DEF g
  <2>6. ASSUME NEW i \in 1 .. m + 1
        PROVE  g[i] = IF i = 1 THEN r[i] ELSE g[i - 1] \o r[i]
    <3>1. i = 1 \/ (i - 1 \in 1 .. m /\ i - 1 # m + 1 /\ g[i - 1] = f[i - 1])
      <4>1. i = 1 \/ (i - 1 \in 1 .. m /\ i - 1 # m + 1 /\ i - 1 \in 1 .. m + 1)
        BY <2>2
      <4> QED
        BY <2>3, <4>1
    <3>2. CASE i = m + 1
      <4>1. i - 1 = m
        BY <2>2, <3>2
      <4> QED
        BY <2>3, <3>1, <3>2, <4>1
    <3>3. CASE i # m + 1
      <4>1. i \in 1 .. m
        BY <2>2, <3>3
      <4> QED
        BY <2>3, <2>4, <3>1, <3>3, <4>1
    <3> QED
      BY <3>2, <3>3
  <2>7. Joins(g, r, m + 1)
    BY <2>5, <2>6, Zenon DEF Joins
  <2> QED
    BY <2>2, <2>7
<1> HIDE DEF S
<1>3. S \in SUBSET Nat
  BY DEF S
<1>4. S = Nat
  BY <1>1, <1>2, <1>3, NatSetInduction
<1> QED
  BY <1>4 DEF S

\* FlattenSeq is one such.
LEMMA FlattenJoins ==
  ASSUME NEW r, Len(r) \in Nat \ {0}
  PROVE  \E f : Joins(f, r, Len(r)) /\ FlattenSeq(r) = f[Len(r)]
<1>1. Len(r) \in Nat /\ Len(r) # 0
  OBVIOUS
<1> DEFINE f == CHOOSE f : Joins(f, r, Len(r))
<1>2. Joins(f, r, Len(r))
  <2>1. \E h : Joins(h, r, Len(r))
    BY <1>1, JoinsExists, Zenon
  <2> QED
    BY <2>1, Zenon
<1>3. FlattenSeq(r) = f[Len(r)]
  BY <1>1, Zenon DEF FlattenSeq, Joins
<1> HIDE DEF f
<1> QED
  BY <1>2, <1>3, Zenon

\* There is one way to join.
LEMMA JoinsSame ==
  ASSUME NEW n \in Nat, NEW r, NEW q, \A i \in 1 .. n : q[i] = r[i],
         NEW f, Joins(f, r, n), NEW m \in Nat, n <= m, NEW g, Joins(g, q, m)
  PROVE  \A i \in 1 .. n : f[i] = g[i]
<1> DEFINE S == {i \in Nat : i = 0 \/ i > n \/ f[i] = g[i]}
<1>1. /\ n >= 1 => f[1] = r[1]
      /\ \A i \in 1 .. n - 1 : f[i + 1] = f[i] \o r[i + 1]
  BY JoinsSteps, ZenonT(30)
<1>2. /\ m >= 1 => g[1] = q[1]
      /\ \A i \in 1 .. m - 1 : g[i + 1] = g[i] \o q[i + 1]
  BY JoinsSteps, ZenonT(30)
<1>3. ASSUME NEW i \in S PROVE i + 1 \in S
  <2>1. i \in Nat /\ (i = 0 \/ i > n \/ f[i] = g[i])
    OBVIOUS
  <2>2. CASE i + 1 > n
    BY <2>1, <2>2
  <2>3. CASE i = 0 /\ 1 <= n
    BY <1>1, <1>2, <2>3
  <2>4. CASE i \in 1 .. n - 1
    <3>1. i + 1 \in 1 .. n /\ i \in 1 .. m - 1 /\ ~(i > n) /\ i # 0
      BY <2>4
    <3>2. f[i] = g[i] /\ i \in 1 .. n - 1 /\ i + 1 \in 1 .. n
      BY <2>1, <2>4, <3>1
    <3>3. f[i + 1] = f[i] \o r[i + 1] /\ g[i + 1] = g[i] \o q[i + 1]
      BY <1>1, <1>2, <3>1, <3>2, Zenon
    <3>4. q[i + 1] = r[i + 1]
      BY <3>2
    <3>5. f[i + 1] = g[i + 1]
      BY <3>2, <3>3, <3>4, Zenon
    <3> QED
      BY <2>1, <3>5
  <2> QED
    BY <2>1, <2>2, <2>3, <2>4
<1> HIDE DEF S
<1>4. S \in SUBSET Nat /\ 0 \in S
  BY DEF S
<1>5. S = Nat
  BY <1>3, <1>4, NatSetInduction
<1> QED
  BY <1>5 DEF S

\* What an item more or one item makes of it.
Follows(g, f, q, n) == g[n + 1] = f[n] \o q[n + 1]

\* One more part is joined at the end.
LEMMA JoinsLonger ==
  ASSUME NEW n \in Nat \ {0}, NEW m \in Nat, n < m, NEW r, NEW q,
         \A i \in 1 .. n : q[i] = r[i],
         NEW f, Joins(f, r, n), NEW g, Joins(g, q, m)
  PROVE  Follows(g, f, q, n)
<1>1. n \in Nat /\ m \in Nat /\ n <= m /\ n \in 1 .. n /\ n \in 1 .. m - 1
  OBVIOUS
<1>2. \A i \in 1 .. n : f[i] = g[i]
  BY <1>1, JoinsSame
<1>3. \A i \in 1 .. m - 1 : g[i + 1] = g[i] \o q[i + 1]
  BY <1>1, JoinsSteps, ZenonT(30)
<1> QED
  BY <1>1, <1>2, <1>3 DEF Follows

\* FlattenSeq of a list with one more part.
LEMMA FlattenLonger ==
  ASSUME NEW r, Len(r) \in Nat \ {0}, NEW q, Len(q) = Len(r) + 1,
         \A i \in 1 .. Len(r) : q[i] = r[i]
  PROVE  FlattenSeq(q) = FlattenSeq(r) \o q[Len(q)]
<1>1. PICK f : Joins(f, r, Len(r)) /\ FlattenSeq(r) = f[Len(r)]
  BY FlattenJoins, Zenon
<1>2. Len(q) \in Nat \ {0} /\ Len(r) < Len(q) /\ Len(q) \in Nat
  OBVIOUS
<1>3. PICK g : Joins(g, q, Len(q)) /\ FlattenSeq(q) = g[Len(q)]
  BY <1>2, FlattenJoins, Zenon
<1>4. Follows(g, f, q, Len(r))
  BY <1>1, <1>2, <1>3, JoinsLonger, Zenon
<1>5. g[Len(r) + 1] = f[Len(r)] \o q[Len(r) + 1]
  BY <1>4 DEF Follows
<1> QED
  BY <1>1, <1>3, <1>5, Zenon

\* FlattenSeq of a list of one.
LEMMA FlattenOne ==
  ASSUME NEW r, Len(r) = 1
  PROVE  FlattenSeq(r) = r[1]
<1>1. 1 \in Nat /\ 1 \in Nat \ {0} /\ 1 >= 1
  OBVIOUS
<1>2. PICK f : Joins(f, r, Len(r)) /\ FlattenSeq(r) = f[Len(r)]
  BY <1>1, FlattenJoins, Zenon
<1>3. Joins(f, r, 1)
  BY <1>2, Zenon
<1>4. f[1] = r[1]
  BY <1>1, <1>3, JoinsSteps, Zenon
<1> QED
  BY <1>2, <1>4

\* TextOf, of a trace with the branches B.
Text(B, b) == FlattenSeq([n \in DOMAIN B[b].path |-> B[B[b].path[n]].tokens])

\* The text of a branch, or what comes before its tokens.
Prefix(f, q) == IF q = NoBranch THEN <<>> ELSE f[q]
TextBefore(B, q) == IF q = NoBranch THEN <<>> ELSE Text(B, q)

Extends(x, y, z) == x = y \o z

\* The text of a branch is that of its parent and its own tokens.
LEMMA TextBelow ==
  ASSUME NEW B, Paths(B), NEW b \in DOMAIN B, IsSeq(B[b].tokens)
  PROVE  Extends(Text(B, b), TextBefore(B, B[b].parent), B[b].tokens)
<1> DEFINE v == B[b].path
           q == B[b].parent
           k == B[b].tokens
           G == [n \in 1 .. Len(v) |-> B[v[n]].tokens]
<1>1. /\ v \in Seq(DOMAIN B) /\ Len(v) > 0 /\ v[Len(v)] = b
      /\ q # NoBranch => q \in DOMAIN B
      /\ v = PathBelow(B, b, q)
  BY DEF Paths, PathFits
<1>2. DOMAIN v = 1 .. Len(v) /\ Len(v) \in Nat
  BY <1>1
<1> HIDE DEF q, k
<1>3. Text(B, b) = FlattenSeq(G)
  BY <1>2 DEF Text
<1>4. Len(G) = Len(v) /\ G[Len(v)] = k
  <2> DEFINE g == [n \in 1 .. Len(v) |-> B[v[n]].tokens]
  <2>1. Len([n \in 1 .. Len(v) |-> g[n]]) = Len(v)
    <3> HIDE DEF g
    <3> QED
      BY <1>2, SeqMade
  <2>2. Len(v) \in 1 .. Len(v)
    BY <1>1, <1>2
  <2> HIDE DEF v
  <2> QED
    BY <1>1, <2>1, <2>2 DEF k
<1>5. CASE q = NoBranch
  <2>1. v = <<b>> /\ Len(v) = 1
    BY <1>1, <1>5 DEF PathBelow
  <2>2. FlattenSeq(G) = k
    <3> HIDE DEF G, v
    <3> QED
      BY <1>4, <2>1, FlattenOne
  <2>3. <<>> \o k = k
    BY DEF IsSeq, k
  <2> HIDE DEF G, v
  <2> QED
    BY <1>3, <1>5, <2>2, <2>3 DEF Extends, TextBefore, q, k
<1>6. CASE q # NoBranch
  <2> DEFINE w == B[q].path
             H == [n \in 1 .. Len(w) |-> B[w[n]].tokens]
  <2>1. w \in Seq(DOMAIN B) /\ Len(w) > 0
    BY <1>1, <1>6 DEF Paths, PathFits
  <2>2. DOMAIN w = 1 .. Len(w) /\ Len(w) \in Nat \ {0}
    BY <2>1
  <2>3. Text(B, q) = FlattenSeq(H)
    BY <2>2 DEF Text
  <2>4. Len(H) = Len(w)
    <3> DEFINE h == [n \in 1 .. Len(w) |-> B[w[n]].tokens]
    <3>1. Len([n \in 1 .. Len(w) |-> h[n]]) = Len(w)
      <4> HIDE DEF h
      <4> QED
        BY <2>2, SeqMade
    <3> QED
      BY <3>1
  <2>5. v = Append(w, b)
    BY <1>1, <1>6 DEF PathBelow
  <2> HIDE DEF v, w
  <2>6. Len(v) = Len(w) + 1 /\ \A i \in 1 .. Len(w) : v[i] = w[i]
    BY <2>1, <2>5
  <2>7. \A i \in 1 .. Len(H) : G[i] = H[i]
    BY <2>2, <2>4, <2>6
  <2> HIDE DEF G, H
  <2>8. Len(H) \in Nat \ {0} /\ Len(G) = Len(H) + 1 /\ G[Len(G)] = k
    BY <1>4, <2>2, <2>4, <2>6
  <2>9. FlattenSeq(G) = FlattenSeq(H) \o k
    BY <2>7, <2>8, FlattenLonger
  <2> QED
    BY <1>3, <1>6, <2>3, <2>9 DEF Extends, TextBefore, q, k
<1> QED
  BY <1>5, <1>6

IsText(f, s) ==
  f = [c \in StartedIn(s) |->
        (IF s.parents[c] = NoBranch THEN <<>> ELSE f[s.parents[c]]) \o s.tokens[c]]

LEMMA IsTextSteps ==
  ASSUME NEW f, NEW s, IsText(f, s), NEW c \in StartedIn(s)
  PROVE  Extends(f[c], Prefix(f, s.parents[c]), s.tokens[c])
<1>1. f[c] = (IF s.parents[c] = NoBranch THEN <<>> ELSE f[s.parents[c]]) \o s.tokens[c]
  BY Zenon DEF IsText
<1> QED
  BY <1>1, Zenon DEF Extends, Prefix

\* The parents and tokens of s are those of B.
Parallel(B, s) ==
  /\ Paths(B) /\ StartedIn(s) = DOMAIN B
  /\ \A b \in DOMAIN B :
       B[b].parent = s.parents[b] /\ B[b].tokens = s.tokens[b] /\ IsSeq(s.tokens[b])

\* PathText is determined by its recursion, as paths are finite.
LEMMA TextUnique ==
  ASSUME NEW B, NEW s, Parallel(B, s), NEW f, IsText(f, s), NEW b \in DOMAIN B
  PROVE  f[b] = Text(B, b)
<1> DEFINE S == {n \in Nat : \A c \in DOMAIN B : Len(B[c].path) = n => f[c] = Text(B, c)}
<1>1. \A c \in DOMAIN B : PathFits(B, c) /\ B[c].path \in Seq(DOMAIN B)
                           /\ Len(B[c].path) \in Nat \ {0}
  BY DEF Parallel, Paths, PathFits
<1>2. \A c \in DOMAIN B : Extends(f[c], Prefix(f, B[c].parent), B[c].tokens)
  BY IsTextSteps DEF Parallel
<1>3. \A c \in DOMAIN B : Extends(Text(B, c), TextBefore(B, B[c].parent), B[c].tokens)
  BY TextBelow DEF Parallel
<1>4. ASSUME NEW n \in S PROVE n + 1 \in S
  <2>1. n \in Nat /\ \A c \in DOMAIN B : Len(B[c].path) = n => f[c] = Text(B, c)
    OBVIOUS
  <2>2. ASSUME NEW c \in DOMAIN B, Len(B[c].path) = n + 1 PROVE f[c] = Text(B, c)
    <3> DEFINE q == B[c].parent
    <3>1. ASSUME q # NoBranch PROVE q \in DOMAIN B /\ Len(B[q].path) = n
      <4>1. q \in DOMAIN B /\ B[c].path = Append(B[q].path, c)
        BY <1>1, <3>1 DEF PathFits, PathBelow
      <4> DEFINE w == B[q].path
      <4>2. w \in Seq(DOMAIN B) /\ Len(Append(w, c)) = n + 1
        BY <1>1, <2>2, <4>1
      <4>3. Len(w) = n
        <5> HIDE DEF w
        <5>1. Len(Append(w, c)) = Len(w) + 1 /\ Len(w) \in Nat
          BY <4>2
        <5> QED
          BY <2>1, <4>2, <5>1
      <4> QED
        BY <4>1, <4>3
    <3>2. Prefix(f, q) = TextBefore(B, q)
      BY <2>1, <3>1 DEF Prefix, TextBefore
    <3> QED
      BY <1>2, <1>3, <3>2 DEF Extends
  <2> QED
    BY <2>1, <2>2
<1>5. S \in SUBSET Nat /\ 0 \in S
  BY <1>1
<1> HIDE DEF S
<1>6. S = Nat
  BY <1>4, <1>5, NatSetInduction
<1> QED
  BY <1>1, <1>6 DEF S

\* The text along the path satisfies the recursion.
LEMMA TextExists ==
  ASSUME NEW B, NEW s, Parallel(B, s)
  PROVE  \E f : IsText(f, s)
<1> DEFINE f == [c \in DOMAIN B |-> Text(B, c)]
<1>1. ASSUME NEW c \in StartedIn(s)
      PROVE  f[c] = (IF s.parents[c] = NoBranch THEN <<>> ELSE f[s.parents[c]]) \o s.tokens[c]
  <2>1. Extends(Text(B, c), TextBefore(B, s.parents[c]), s.tokens[c]) /\ c \in DOMAIN B
    BY TextBelow DEF Parallel
  <2>2. s.parents[c] # NoBranch => s.parents[c] \in DOMAIN B
    BY DEF Parallel, Paths, PathFits
  <2> QED
    BY <2>1, <2>2 DEF Extends, TextBefore
<1>2. f = [c \in StartedIn(s) |-> f[c]]
  BY DEF Parallel
<1> HIDE DEF f
<1>3. IsText(f, s)
  BY <1>1, <1>2, Zenon DEF IsText
<1> QED
  BY <1>3

\* What PathText computes upwards is the text along the path.
LEMMA SameText ==
  ASSUME NEW B, NEW s, Parallel(B, s), NEW b \in DOMAIN B
  PROVE  PathText(s, b) = Text(B, b)
<1> DEFINE f == CHOOSE f : IsText(f, s)
<1>1. IsText(f, s)
  BY TextExists, Zenon
<1>2. PathText(s, b) = f[b]
  BY Zenon DEF PathText, IsText
<1> HIDE DEF f
<1> QED
  BY <1>1, <1>2, TextUnique

-----------------------------------------------------------------------------
(* An assembler and an accumulator that were given the same events.        *)

Statuses == {"live", "pruned", "merged", "completed"}

\* The branch x of the assembler has parent q and tokens c, and is live or not.
Mirrored(x, q, c, live) ==
  /\ IsSeq(c)
  /\ \E w, a : x = Branch(q, w, c, a) /\ a \in Statuses /\ (live <=> a = "live")

Tallied(B, n, m, f) ==
  /\ n = Cardinality(With(B, "pruned")) /\ m = Cardinality(With(B, "merged"))
  /\ Cardinality(With(B, "completed")) = IF f = Over THEN 1 ELSE 0

\* Branches B, and the accumulator's parents, tokens, terminal branches and
\* counters.
Match(B, p, k, t, n, m, f) ==
  /\ IsFcn(B) /\ IsFcn(p) /\ IsFcn(k) /\ DOMAIN p = DOMAIN B /\ DOMAIN k = DOMAIN B
  /\ IsFiniteSet(DOMAIN B) /\ t \subseteq DOMAIN B
  /\ f \in {Open, Over} /\ (f = Over => t = DOMAIN B)
  /\ Paths(B)
  /\ \A b \in DOMAIN B : Mirrored(B[b], p[b], k[b], b \notin t)
  /\ Tallied(B, n, m, f)

LEMMA OpenNotOver == Open # Over
BY DEF Open, Over

LEMMA BranchFields ==
  ASSUME NEW q, NEW w, NEW c, NEW a
  PROVE  /\ Branch(q, w, c, a).parent = q /\ Branch(q, w, c, a).path = w
         /\ Branch(q, w, c, a).tokens = c /\ Branch(q, w, c, a).status = a
BY DEF Branch

\* What remains as it was when the branch b is replaced.
LEMMA MirroredOthers ==
  ASSUME NEW B, NEW p, NEW k, NEW t, \A c \in DOMAIN B : Mirrored(B[c], p[c], k[c], c \notin t),
         NEW b, NEW u, \A c \in DOMAIN B : c # b => (c \in u <=> c \in t),
         NEW C, NEW q, NEW l, DOMAIN C = DOMAIN B \cup {b},
         \A c \in DOMAIN B : c # b => C[c] = B[c] /\ q[c] = p[c] /\ l[c] = k[c],
         Mirrored(C[b], q[b], l[b], b \notin u)
  PROVE  \A c \in DOMAIN C : Mirrored(C[c], q[c], l[c], c \notin u)
<1>1. ASSUME NEW c \in DOMAIN C, c # b PROVE Mirrored(C[c], q[c], l[c], c \notin u)
  <2>1. c \in DOMAIN B /\ Mirrored(B[c], p[c], k[c], c \notin t)
    BY <1>1
  <2>2. C[c] = B[c] /\ q[c] = p[c] /\ l[c] = k[c] /\ (c \in u <=> c \in t)
    BY <1>1, <2>1
  <2> QED
    BY <2>1, <2>2 DEF Mirrored
<1> QED
  BY <1>1

LEMMA FiniteWith ==
  ASSUME NEW B, IsFiniteSet(DOMAIN B), NEW a
  PROVE  IsFiniteSet(With(B, a)) /\ Cardinality(With(B, a)) \in Nat
<1>1. With(B, a) \subseteq DOMAIN B
  BY DEF With
<1> QED
  BY <1>1, FS_Subset, FS_CardinalityType

\* A branch that starts keeps the two in step.
LEMMA MatchStarted ==
  ASSUME NEW B, NEW p, NEW k, NEW t, NEW n, NEW m, Match(B, p, k, t, n, m, Open),
         NEW b, b \notin DOMAIN B, b # NoBranch, NEW q, q \in DOMAIN B \cup {NoBranch}
  PROVE  Match(Entered(B, b, Branch(q, PathBelow(B, b, q), <<>>, "live")),
               Entered(p, b, q), Entered(k, b, <<>>), t, n, m, Open)
<1> DEFINE w == PathBelow(B, b, q)
           x == Branch(q, w, <<>>, "live")
           C == Entered(B, b, x)
           P == Entered(p, b, q)
           K == Entered(k, b, <<>>)
<1>0. /\ DOMAIN p = DOMAIN B /\ DOMAIN k = DOMAIN B
      /\ IsFiniteSet(DOMAIN B) /\ t \subseteq DOMAIN B /\ Paths(B)
      /\ \A c \in DOMAIN B : Mirrored(B[c], p[c], k[c], c \notin t)
      /\ Tallied(B, n, m, Open)
  BY DEF Match
<1>1. /\ x.parent = q /\ x.path = w /\ x.tokens = <<>> /\ x.status = "live"
      /\ Mirrored(x, q, <<>>, TRUE)
  BY BranchFields, SeqEmpty DEF Mirrored, Statuses
<1> HIDE DEF x
<1>2. /\ IsFcn(C) /\ DOMAIN C = DOMAIN B \cup {b} /\ C[b] = x
      /\ \A c \in DOMAIN B : c # b => C[c] = B[c]
  BY DEF Entered, IsFcn
<1>3. /\ IsFcn(P) /\ DOMAIN P = DOMAIN B \cup {b} /\ P[b] = q
      /\ \A c \in DOMAIN B : c # b => P[c] = p[c]
  BY <1>0 DEF Entered, IsFcn
<1>4. /\ IsFcn(K) /\ DOMAIN K = DOMAIN B \cup {b} /\ K[b] = <<>>
      /\ \A c \in DOMAIN B : c # b => K[c] = k[c]
  BY <1>0 DEF Entered, IsFcn
<1>5. Paths(C)
  BY <1>0, <1>1, PathsGrow
<1>6. \A a : a # "live" => With(C, a) = With(B, a)
  <2>1. \A a : a # "live" => With(C, a) = With(B, a) \ {b}
    BY <1>1, WithEntered
  <2> QED
    BY <2>1 DEF With
<1> HIDE DEF C, P, K
<1>7. Tallied(C, n, m, Open)
  BY <1>0, <1>6 DEF Tallied
<1>8. \A c \in DOMAIN C : Mirrored(C[c], P[c], K[c], c \notin t)
  <2>1. b \notin t /\ Mirrored(C[b], P[b], K[b], b \notin t)
    <3>1. b \notin t
      BY <1>0
    <3>2. (b \notin t) = TRUE
      BY <3>1
    <3> QED
      BY <1>1, <1>2, <1>3, <1>4, <3>1, <3>2
  <2> QED
    BY <1>0, <1>2, <1>3, <1>4, <2>1, MirroredOthers
<1>9. IsFiniteSet(DOMAIN C)
  BY <1>0, <1>2, FS_AddElement
<1>10. Match(C, P, K, t, n, m, Open)
  BY <1>0, <1>2, <1>3, <1>4, <1>5, <1>7, <1>8, <1>9, OpenNotOver DEF Match
<1> QED
  BY <1>10 DEF C, P, K, x

\* So does a token.
LEMMA MatchToken ==
  ASSUME NEW B, NEW p, NEW k, NEW t, NEW n, NEW m, Match(B, p, k, t, n, m, Open),
         NEW b \in DOMAIN B, NEW q, NEW w, NEW c, NEW a, B[b] = Branch(q, w, c, a), NEW y
  PROVE  Match(Entered(B, b, Branch(q, w, Append(c, y), a)),
               p, Entered(k, b, Append(c, y)), t, n, m, Open)
<1> DEFINE x == Branch(q, w, Append(c, y), a)
           C == Entered(B, b, x)
           K == Entered(k, b, Append(c, y))
<1>0. /\ IsFcn(p) /\ DOMAIN p = DOMAIN B /\ DOMAIN k = DOMAIN B
      /\ IsFiniteSet(DOMAIN B) /\ t \subseteq DOMAIN B /\ Paths(B)
      /\ \A d \in DOMAIN B : Mirrored(B[d], p[d], k[d], d \notin t)
      /\ Tallied(B, n, m, Open)
  BY DEF Match
<1>1. B[b].parent = q /\ B[b].path = w /\ B[b].tokens = c /\ B[b].status = a
  BY BranchFields
<1>2. p[b] = q /\ k[b] = c /\ a \in Statuses /\ IsSeq(c) /\ (b \notin t <=> a = "live")
  <2>1. Mirrored(B[b], p[b], k[b], b \notin t)
    BY <1>0
  <2>2. PICK v, z : /\ B[b] = Branch(p[b], v, k[b], z) /\ z \in Statuses
                    /\ (b \notin t <=> z = "live")
    BY <2>1 DEF Mirrored
  <2>3. p[b] = q /\ k[b] = c /\ z = a
    BY <1>1, <2>2, BranchFields
  <2> QED
    BY <2>1, <2>2, <2>3 DEF Mirrored
<1>3. x.parent = q /\ x.path = w /\ x.status = a /\ Mirrored(x, q, Append(c, y), b \notin t)
  BY <1>2, BranchFields, SeqLonger DEF Mirrored
<1> HIDE DEF x
<1>4. /\ IsFcn(C) /\ DOMAIN C = DOMAIN B /\ C[b] = x
      /\ \A d \in DOMAIN B : d # b => C[d] = B[d]
  BY DEF Entered, IsFcn
<1>5. /\ IsFcn(K) /\ DOMAIN K = DOMAIN B /\ K[b] = Append(c, y)
      /\ \A d \in DOMAIN B : d # b => K[d] = k[d]
  BY <1>0 DEF Entered, IsFcn
<1>6. Paths(C)
  BY <1>0, <1>1, <1>3, PathsKept
<1> HIDE DEF C, K
<1>7. \A z : With(C, z) = With(B, z)
  BY <1>1, <1>3, <1>4 DEF With
<1>8. Tallied(C, n, m, Open)
  BY <1>0, <1>7 DEF Tallied
<1>9. \A d \in DOMAIN C : Mirrored(C[d], p[d], K[d], d \notin t)
  <2>1. Mirrored(C[b], p[b], K[b], b \notin t)
    BY <1>2, <1>3, <1>4, <1>5
  <2> QED
    BY <1>0, <1>4, <1>5, <2>1, MirroredOthers
<1>10. Match(C, p, K, t, n, m, Open)
  BY <1>0, <1>4, <1>5, <1>6, <1>8, <1>9, OpenNotOver DEF Match
<1> QED
  BY <1>10 DEF C, K, x

\* So does a branch that is pruned, merged or completed.
LEMMA MatchEnded ==
  ASSUME NEW B, NEW p, NEW k, NEW t, NEW n, NEW m, Match(B, p, k, t, n, m, Open),
         NEW b \in DOMAIN B, b \notin t,
         NEW q, NEW w, NEW c, NEW a, B[b] = Branch(q, w, c, a),
         NEW z \in {"pruned", "merged", "completed"},
         z = "completed" => t \cup {b} = DOMAIN B,
         NEW i, i = (IF z = "pruned" THEN n + 1 ELSE n),
         NEW j, j = (IF z = "merged" THEN m + 1 ELSE m),
         NEW g, g = (IF z = "completed" THEN Over ELSE Open)
  PROVE  Match(Entered(B, b, Branch(q, w, c, z)), p, k, t \cup {b}, i, j, g)
<1> DEFINE x == Branch(q, w, c, z)
           C == Entered(B, b, x)
           u == t \cup {b}
<1>0. /\ IsFcn(p) /\ IsFcn(k) /\ DOMAIN p = DOMAIN B /\ DOMAIN k = DOMAIN B
      /\ IsFiniteSet(DOMAIN B) /\ t \subseteq DOMAIN B /\ Paths(B)
      /\ \A d \in DOMAIN B : Mirrored(B[d], p[d], k[d], d \notin t)
      /\ Tallied(B, n, m, Open)
  BY DEF Match
<1>1. B[b].parent = q /\ B[b].path = w /\ B[b].tokens = c /\ B[b].status = a
  BY BranchFields
<1>2. p[b] = q /\ k[b] = c /\ a = "live" /\ IsSeq(c)
  <2>1. Mirrored(B[b], p[b], k[b], b \notin t)
    BY <1>0
  <2>2. PICK v, y : /\ B[b] = Branch(p[b], v, k[b], y) /\ y \in Statuses
                    /\ (b \notin t <=> y = "live")
    BY <2>1 DEF Mirrored
  <2>3. p[b] = q /\ k[b] = c /\ y = a
    BY <1>1, <2>2, BranchFields
  <2> QED
    BY <2>1, <2>2, <2>3 DEF Mirrored
<1>3. /\ x.parent = q /\ x.path = w /\ x.status = z
      /\ Mirrored(x, q, c, b \notin u)
  <2>1. b \in u /\ z # "live" /\ z \in Statuses
    BY DEF Statuses
  <2> QED
    BY <1>2, <2>1, BranchFields DEF Mirrored
<1> HIDE DEF x
<1>4. /\ IsFcn(C) /\ DOMAIN C = DOMAIN B /\ C[b] = x
      /\ \A d \in DOMAIN B : d # b => C[d] = B[d]
  BY DEF Entered, IsFcn
<1>5. Paths(C)
  BY <1>0, <1>1, <1>3, PathsKept
<1> HIDE DEF C
<1>6. \A y : y # "live" => With(C, y) = IF y = z THEN With(B, y) \cup {b} ELSE With(B, y)
  BY <1>1, <1>2, <1>3, <1>4 DEF With
<1>7. \A y : y # "live" => b \notin With(B, y)
  BY <1>1, <1>2 DEF With
<1>8. \A y : y # "live" => Cardinality(With(C, y)) =
        IF y = z THEN Cardinality(With(B, y)) + 1 ELSE Cardinality(With(B, y))
  BY <1>0, <1>6, <1>7, FiniteWith, FS_AddElement
<1>9. /\ n = Cardinality(With(B, "pruned")) /\ m = Cardinality(With(B, "merged"))
      /\ Cardinality(With(B, "completed")) = 0
  BY <1>0, OpenNotOver DEF Tallied
<1>10. Tallied(C, i, j, g)
  <2>1. i = Cardinality(With(C, "pruned")) /\ j = Cardinality(With(C, "merged"))
    BY <1>8, <1>9
  <2>2. Cardinality(With(C, "completed")) = IF g = Over THEN 1 ELSE 0
    BY <1>8, <1>9, OpenNotOver
  <2> QED
    BY <2>1, <2>2 DEF Tallied
<1>11. \A d \in DOMAIN C : Mirrored(C[d], p[d], k[d], d \notin u)
  <2>1. Mirrored(C[b], p[b], k[b], b \notin u)
    BY <1>2, <1>3, <1>4
  <2>2. \A d \in DOMAIN B : d # b => (d \in u <=> d \in t)
    OBVIOUS
  <2> HIDE DEF u
  <2> QED
    BY <1>0, <1>4, <2>1, <2>2, MirroredOthers
<1>12. g \in {Open, Over} /\ (g = Over => u = DOMAIN C) /\ u \subseteq DOMAIN C
  BY <1>0, <1>4, OpenNotOver
<1> HIDE DEF u
<1>13. Match(C, p, k, u, i, j, g)
  BY <1>0, <1>4, <1>5, <1>10, <1>11, <1>12 DEF Match
<1> QED
  BY <1>13 DEF C, x, u

Mirrors(u, s) ==
  \E B, p, k, t, n, m, f :
    u = TraceOf(B, f) /\ s = StreamOf(p, k, t, n, m, f) /\ Match(B, p, k, t, n, m, f)

LEMMA TraceFields ==
  ASSUME NEW B, NEW f
  PROVE  TraceOf(B, f).branches = B /\ TraceOf(B, f).done = f
BY DEF TraceOf

\* The branch b is live for both, or for neither.
LEMMA MatchBranch ==
  ASSUME NEW B, NEW p, NEW k, NEW t, NEW n, NEW m, NEW f, Match(B, p, k, t, n, m, f),
         NEW b \in DOMAIN B
  PROVE  /\ \E w, a : B[b] = Branch(p[b], w, k[b], a)
         /\ B[b].parent = p[b] /\ B[b].tokens = k[b] /\ IsSeq(k[b])
         /\ B[b].status \in Statuses /\ (b \notin t <=> B[b].status = "live")
<1>1. Mirrored(B[b], p[b], k[b], b \notin t)
  BY DEF Match
<1>2. PICK v, y : /\ B[b] = Branch(p[b], v, k[b], y) /\ y \in Statuses
                  /\ (b \notin t <=> y = "live")
  BY <1>1 DEF Mirrored
<1>3. B[b].parent = p[b] /\ B[b].tokens = k[b] /\ B[b].status = y
  BY <1>2, BranchFields
<1> QED
  BY <1>1, <1>2, <1>3 DEF Mirrored

\* A frame that the models of the SDK parse is one the assembler takes, and
\* the ratio of the summary is never why they do not.
Readable(u, e) ==
  "low ratio" \notin ParseErrors(e) /\ (ParseErrors(e) = {} => Addable(u, e))

\* The summary the accumulator lets pass is the one the assembler expects.
LEMMA SameSummary ==
  ASSUME NEW B, NEW p, NEW k, NEW t, NEW n, NEW m, Match(B, p, k, t, n, m, Open),
         NEW e, e.type = "done", e.summary # "none",
         NEW s, s = StreamOf(p, k, t, n, m, Open), Accepts(s, e)
  PROVE  Completes(TraceOf(B, Open), e)
<1> DEFINE b == e.branch
           u == TraceOf(B, Open)
           observed == [c \in DOMAIN u.branches |-> Len(u.branches[c].tokens)]
<1>1. /\ s.parents = p /\ s.tokens = k /\ s.terminal = t /\ s.pruned = n /\ s.merged = m
      /\ StartedIn(s) = DOMAIN p
  BY DEF StreamOf, StartedIn
<1>2. u.branches = B
  BY TraceFields
<1>3. DOMAIN p = DOMAIN B /\ t \subseteq DOMAIN B /\ Tallied(B, n, m, Open) /\ Paths(B)
  BY DEF Match
<1>4. \A c \in DOMAIN B :
        /\ B[c].parent = p[c] /\ B[c].tokens = k[c] /\ IsSeq(k[c])
        /\ B[c].status \in Statuses /\ (c \notin t <=> B[c].status = "live")
  BY MatchBranch
<1>5. /\ b \in DOMAIN B \ t /\ t \cup {b} = DOMAIN B
      /\ e.completion = TokensIn(s) /\ e.branches = Cardinality(DOMAIN B)
      /\ e.pruned = n /\ e.merged = m /\ e.spent = SpentIn(s)
      /\ e.text = PathText(s, b)
  BY <1>1, <1>3 DEF Accepts, SummaryFits, Terminable
<1>6. observed = SpentIn(s) /\ DOMAIN observed = StartedIn(s)
  BY <1>1, <1>2, <1>3, <1>4 DEF SpentIn
<1>7. e.completion = SumFunctionOnSet(observed, DOMAIN observed)
  BY <1>5, <1>6 DEF TokensIn
<1>8. Ended(u, "live") = 1
  <2>1. {c \in DOMAIN B : B[c].status = "live"} = {b}
    BY <1>3, <1>4, <1>5
  <2>2. Cardinality({b}) = 1
    BY FS_Singleton
  <2> HIDE DEF b, u
  <2> QED
    BY <1>2, <2>1, <2>2 DEF Ended
<1>9. n = Ended(u, "pruned") /\ m = Ended(u, "merged")
  BY <1>2, <1>3 DEF Ended, Tallied, With
<1>10. e.text = TextOf(u, b)
  <2>1. Parallel(B, s)
    BY <1>1, <1>3, <1>4 DEF Parallel
  <2>2. PathText(s, b) = Text(B, b)
    BY <1>5, <2>1, SameText
  <2>3. TextOf(u, b) = Text(B, b)
    BY <1>2 DEF TextOf, Text
  <2> QED
    BY <1>5, <2>2, <2>3
<1>11. KnownLive(u, b)
  BY <1>2, <1>4, <1>5 DEF KnownLive
<1>12. e.branches = Cardinality(DOMAIN u.branches)
  BY <1>2, <1>5
<1>13. e.spent = observed /\ e.pruned = n /\ e.merged = m
  BY <1>5, <1>6
<1> HIDE DEF u, b
<1>14. Completes(u, e)
  BY <1>7, <1>8, <1>9, <1>10, <1>11, <1>12, <1>13, Zenon DEF Completes, b
<1> QED
  BY <1>14 DEF u

\* An event the accumulator accepts can be added if it can be parsed, and both
\* stay in step.
LEMMA MirrorStep ==
  ASSUME NEW u, NEW s, Mirrors(u, s), NEW e, Event(e), Accepts(s, e)
  PROVE  Readable(u, e) /\ Mirrors(Add(u, e), Accept(s, e))
<1> DEFINE b == e.branch
<1>1. PICK B, p, k, t, n, m, f :
        u = TraceOf(B, f) /\ s = StreamOf(p, k, t, n, m, f) /\ Match(B, p, k, t, n, m, f)
  BY Zenon DEF Mirrors
<1>2. /\ IsFcn(B) /\ IsFcn(p) /\ IsFcn(k) /\ DOMAIN p = DOMAIN B /\ DOMAIN k = DOMAIN B
      /\ f \in BOOLEAN /\ t \subseteq DOMAIN B
  BY <1>1 DEF Match, Open, Over
<1>3. f = Open /\ Takes(s, e, p, k, t, n, m, f)
  BY <1>1, <1>2, AcceptIs
<1>4. u.branches = B /\ u.done = Open /\ Match(B, p, k, t, n, m, Open)
      /\ u = TraceOf(B, Open)
  BY <1>1, <1>3, TraceFields
<1>5. CASE e.type = "branch_started"
  <2> DEFINE C == Entered(B, b, Branch(e.parent, PathBelow(B, b, e.parent), <<>>, "live"))
  <2>1. b \notin DOMAIN B /\ e.parent \in DOMAIN B \cup {NoBranch} /\ b # NoBranch
    BY <1>2, <1>3, <1>5 DEF Event, Takes
  <2>2. Add(u, e) = TraceOf(C, Open)
    BY <1>2, <1>4, <1>5, AddIs DEF Starts
  <2>3. Match(C, Entered(p, b, e.parent), Entered(k, b, <<>>), t, n, m, Open)
    BY <1>4, <2>1, MatchStarted
  <2>4. Readable(u, e)
    BY <1>4, <1>5, <2>1 DEF Readable, ParseErrors, Addable, Open
  <2> HIDE DEF C
  <2> QED
    BY <1>3, <1>5, <2>2, <2>3, <2>4 DEF Mirrors, Takes
<1>6. ASSUME e.type # "branch_started"
      PROVE  Readable(u, e) /\ Mirrors(Add(u, e), Accept(s, e))
  <2>1. b \in DOMAIN B \ t /\ e.type \in {"token", "branch_pruned", "branch_merged", "done"}
    BY <1>2, <1>3, <1>6 DEF Event, EventTypes, Takes
  <2>2. PICK w, a : B[b] = Branch(p[b], w, k[b], a)
    BY <1>4, <2>1, MatchBranch
  <2>9. Goes(u, e, B, Open, p[b], w, k[b], a)
    BY <1>2, <1>4, <2>1, <2>2, AddIs
  <2>3. \A c \in DOMAIN B \ t : KnownLive(u, c)
    BY <1>4, MatchBranch DEF KnownLive
  <2>4. CASE e.type = "token"
    <3> DEFINE C == Entered(B, b, Branch(p[b], w, Append(k[b], e.token), a))
    <3>1. Add(u, e) = TraceOf(C, Open)
      BY <2>4, <2>9 DEF Goes
    <3>2. Match(C, p, Entered(k, b, Append(k[b], e.token)), t, n, m, Open)
      BY <1>4, <2>1, <2>2, MatchToken
    <3>3. B[b].tokens = k[b]
      BY <1>4, <2>1, MatchBranch
    <3>4. Readable(u, e)
      BY <1>2, <1>3, <1>4, <2>1, <2>3, <2>4, <3>3 DEF Readable, ParseErrors, Addable, Open, Takes
    <3> HIDE DEF C
    <3> QED
      BY <1>3, <2>4, <3>1, <3>2, <3>4 DEF Mirrors, Takes
  <2>5. ASSUME NEW z \in {"pruned", "merged", "completed"},
               z = "completed" => t \cup {b} = DOMAIN B,
               NEW i, i = (IF z = "pruned" THEN n + 1 ELSE n),
               NEW j, j = (IF z = "merged" THEN m + 1 ELSE m),
               NEW g, g = (IF z = "completed" THEN Over ELSE Open)
        PROVE  Match(Entered(B, b, Branch(p[b], w, k[b], z)), p, k, t \cup {b}, i, j, g)
    BY <1>4, <2>1, <2>2, <2>5, MatchEnded
  <2>6. CASE e.type = "branch_pruned"
    <3> DEFINE C == Entered(B, b, Branch(p[b], w, k[b], "pruned"))
    <3>1. Add(u, e) = TraceOf(C, Open)
      BY <2>6, <2>9 DEF Goes
    <3>2. Match(C, p, k, t \cup {b}, n + 1, m, Open)
      BY <2>5
    <3>3. Readable(u, e)
      BY <1>4, <2>1, <2>3, <2>6 DEF Readable, ParseErrors, Addable, Open
    <3> HIDE DEF C
    <3> QED
      BY <1>3, <2>6, <3>1, <3>2, <3>3 DEF Mirrors, Takes
  <2>7. CASE e.type = "branch_merged"
    <3> DEFINE C == Entered(B, b, Branch(p[b], w, k[b], "merged"))
    <3>1. Add(u, e) = TraceOf(C, Open)
      BY <2>7, <2>9 DEF Goes
    <3>2. Match(C, p, k, t \cup {b}, n, m + 1, Open)
      BY <2>5
    <3>3. Readable(u, e)
      BY <1>2, <1>3, <1>4, <2>1, <2>3, <2>7 DEF Readable, ParseErrors, Addable, Open, Takes
    <3> HIDE DEF C
    <3> QED
      BY <1>3, <2>7, <3>1, <3>2, <3>3 DEF Mirrors, Takes
  <2>8. CASE e.type = "done"
    <3> DEFINE C == Entered(B, b, Branch(p[b], w, k[b], "completed"))
    <3>1. Add(u, e) = TraceOf(C, Over)
      BY <2>8, <2>9 DEF Goes
    <3>2. Match(C, p, k, t \cup {b}, n, m, Over)
      BY <1>2, <1>3, <2>5, <2>8 DEF Takes
    <3>3. Readable(u, e)
      <4>1. "low ratio" \notin ParseErrors(e)
        BY <1>3, <2>8 DEF ParseErrors, Takes, SummaryFits
      <4>2. ASSUME ParseErrors(e) = {} PROVE Completes(u, e)
        <5>1. e.summary # "none"
          BY <2>8, <4>2 DEF ParseErrors
        <5> QED
          BY <1>1, <1>3, <1>4, <2>8, <5>1, SameSummary
      <4> QED
        BY <1>4, <2>8, <4>1, <4>2 DEF Readable, Addable, Open
    <3> HIDE DEF C
    <3> QED
      BY <1>3, <2>8, <3>1, <3>2, <3>3 DEF Mirrors, Takes
  <2> QED
    BY <2>1, <2>4, <2>6, <2>7, <2>8
<1> QED
  BY <1>5, <1>6

\* What the assembler knows about the tree, and the accumulator knows as well.
LEMMA MirrorWhole ==
  ASSUME NEW u, NEW s, Mirrors(u, s)
  PROVE  /\ u.done = s.finished /\ u.done \in BOOLEAN /\ s.error = FALSE
         /\ "error" \in DOMAIN s
         /\ DOMAIN u.branches = StartedIn(s) /\ IsFiniteSet(StartedIn(s))
         /\ \A b \in StartedIn(s) :
              u.branches[b].parent = s.parents[b] /\ u.branches[b].tokens = s.tokens[b]
         /\ u.done = TRUE => Ended(u, "completed") = 1 /\ Ended(u, "live") = 0
<1>1. PICK B, p, k, t, n, m, f :
        u = TraceOf(B, f) /\ s = StreamOf(p, k, t, n, m, f) /\ Match(B, p, k, t, n, m, f)
  BY Zenon DEF Mirrors
<1>2. /\ s.parents = p /\ s.tokens = k /\ s.finished = f /\ s.error = FALSE
      /\ "error" \in DOMAIN s /\ StartedIn(s) = DOMAIN p
  BY <1>1 DEF StreamOf, StartedIn
<1>3. u.branches = B /\ u.done = f
  BY <1>1, TraceFields
<1>4. /\ DOMAIN p = DOMAIN B /\ IsFiniteSet(DOMAIN B) /\ f \in {Open, Over}
      /\ (f = Over => t = DOMAIN B) /\ Tallied(B, n, m, f)
  BY <1>1 DEF Match
<1>5. f \in BOOLEAN /\ (f = TRUE => f = Over)
  BY <1>4 DEF Open, Over
<1>6. \A b \in DOMAIN B :
        B[b].parent = p[b] /\ B[b].tokens = k[b] /\ (b \notin t <=> B[b].status = "live")
  BY <1>1, MatchBranch
<1>7. ASSUME f = Over PROVE Ended(u, "completed") = 1 /\ Ended(u, "live") = 0
  <2>1. Cardinality(With(B, "completed")) = 1
    BY <1>4, <1>7 DEF Tallied
  <2>2. {b \in DOMAIN B : B[b].status = "live"} = {}
    BY <1>4, <1>6, <1>7
  <2>3. Ended(u, "live") = 0
    BY <1>3, <2>2, FS_EmptySet DEF Ended
  <2> QED
    BY <1>3, <2>1, <2>3 DEF Ended, With
<1> QED
  BY <1>2, <1>3, <1>4, <1>5, <1>6, <1>7

\* The exported paths and texts are those of the accumulator.
LEMMA MirrorExports ==
  ASSUME NEW u, NEW s, Mirrors(u, s), NEW b \in DOMAIN u.branches,
         NEW z, z.parents = s.parents, z.tokens = s.tokens
  PROVE  LET path == u.branches[b].path
         IN /\ Last(path) = b /\ Range(path) \subseteq DOMAIN u.branches
            /\ \A n \in 1 .. Len(path) - 1 : u.branches[path[n + 1]].parent = path[n]
            /\ TextOf(u, b) = PathText(z, b)
<1>1. PICK B, p, k, t, n, m, f :
        u = TraceOf(B, f) /\ s = StreamOf(p, k, t, n, m, f) /\ Match(B, p, k, t, n, m, f)
  BY Zenon DEF Mirrors
<1>2. z.parents = p /\ z.tokens = k /\ StartedIn(z) = DOMAIN p
  BY <1>1 DEF StreamOf, StartedIn
<1>3. u.branches = B
  BY <1>1, TraceFields
<1>4. DOMAIN p = DOMAIN B /\ Paths(B)
  BY <1>1 DEF Match
<1>5. \A c \in DOMAIN B : B[c].parent = p[c] /\ B[c].tokens = k[c] /\ IsSeq(k[c])
  BY <1>1, MatchBranch
<1>6. Parallel(B, z)
  BY <1>2, <1>4, <1>5 DEF Parallel
<1>7. PathText(z, b) = Text(B, b)
  BY <1>3, <1>6, SameText
<1>8. TextOf(u, b) = Text(B, b)
  BY <1>3 DEF TextOf, Text
<1> DEFINE v == B[b].path
<1>9. /\ v \in Seq(DOMAIN B) /\ Len(v) > 0 /\ v[Len(v)] = b
      /\ \A i \in 1 .. Len(v) - 1 : B[v[i + 1]].parent = v[i]
  BY <1>3, <1>4 DEF Paths, PathFits
<1>10. Last(v) = b /\ Range(v) \subseteq DOMAIN B
  <2> HIDE DEF v
  <2> QED
    BY <1>9 DEF Last, Range
<1> QED
  BY <1>3, <1>7, <1>8, <1>9, <1>10

\* Nothing was fed to either yet.
LEMMA MirrorNew == Mirrors(NewTrace, NewStream)
<1> DEFINE z == <<>>
<1>1. DOMAIN z = {} /\ IsFcn(z)
  BY DEF IsFcn
<1>2. IsFiniteSet({}) /\ Cardinality({}) = 0
  BY FS_EmptySet
<1>3. NewTrace = TraceOf(z, Open) /\ NewStream = StreamOf(z, z, {}, 0, 0, Open)
  BY DEF NewTrace, NewStream, TraceOf, StreamOf, Open
<1> HIDE DEF z
<1>4. \A a : With(z, a) = {}
  BY <1>1 DEF With
<1>5. Tallied(z, 0, 0, Open)
  BY <1>2, <1>4, OpenNotOver DEF Tallied
<1>6. Match(z, z, z, {}, 0, 0, Open)
  BY <1>1, <1>2, <1>5, OpenNotOver DEF Match, Paths
<1> QED
  BY <1>3, <1>6 DEF Mirrors

-----------------------------------------------------------------------------
(* What the accumulator took and the assembler was not given yet.          *)

Takings(h, e) ==
  \A i \in 1 .. Len(e) : Event(e[i]) /\ Accepts(h[i - 1], e[i]) /\ h[i] = Accept(h[i - 1], e[i])

\* Given the events e, the assembler u catches up with the accumulator s.
Run(u, s, e) ==
  /\ IsSeq(e) /\ \E v : Mirrors(v, s)
  /\ \E h : Mirrors(u, h[0]) /\ h[Len(e)] = s /\ Takings(h, e)

\* With nothing on the way the two are in step.
LEMMA RunNone ==
  ASSUME NEW u, NEW s, Mirrors(u, s)
  PROVE  Run(u, s, <<>>)
<1> DEFINE h == [i \in {0} |-> s]
<1>1. h[0] = s /\ 1 .. 0 = {}
  OBVIOUS
<1>2. IsSeq(<<>>) /\ Len(<<>>) = 0
  BY SeqEmpty
<1> HIDE DEF h
<1>3. Takings(h, <<>>)
  BY <1>1, <1>2 DEF Takings
<1>4. Mirrors(u, h[0]) /\ h[Len(<<>>)] = s
  BY <1>1, <1>2
<1> QED
  BY <1>2, <1>3, <1>4 DEF Run

\* A finished assembler has nothing more to come.
LEMMA RunOver ==
  ASSUME NEW u, NEW s, NEW e, Run(u, s, e)
  PROVE  /\ u.done = TRUE => e = <<>>
         /\ e = <<>> => Mirrors(u, s)
<1>1. PICK h : Mirrors(u, h[0]) /\ h[Len(e)] = s /\ Takings(h, e)
  BY DEF Run
<1>2. ASSUME e = <<>> PROVE Mirrors(u, s)
  BY <1>1, <1>2, SeqEmpty
<1>3. ASSUME u.done = TRUE, e # <<>> PROVE FALSE
  <2>1. Len(e) \in Nat \ {0}
    BY <1>3, SeqShorter DEF Run
  <2>2. Accepts(h[1 - 1], e[1]) /\ 1 - 1 = 0
    BY <1>1, <2>1 DEF Takings
  <2>3. h[0].finished = TRUE
    BY <1>1, <1>3, MirrorWhole
  <2> QED
    BY <2>2, <2>3 DEF Accepts
<1> QED
  BY <1>2, <1>3

\* The assembler is given the first of them.
LEMMA RunRead ==
  ASSUME NEW u, NEW s, NEW e, Run(u, s, e), e # <<>>
  PROVE  Readable(u, e[1]) /\ Run(Add(u, e[1]), s, Tail(e))
<1>1. PICK h : Mirrors(u, h[0]) /\ h[Len(e)] = s /\ Takings(h, e)
  BY DEF Run
<1>2. /\ Len(e) \in Nat \ {0} /\ IsSeq(Tail(e)) /\ Len(Tail(e)) = Len(e) - 1
      /\ \A i \in 1 .. Len(e) - 1 : Tail(e)[i] = e[i + 1]
  BY SeqShorter DEF Run
<1>3. \A i \in 1 .. Len(e) :
        Event(e[i]) /\ Accepts(h[i - 1], e[i]) /\ h[i] = Accept(h[i - 1], e[i])
  BY <1>1 DEF Takings
<1>4. Event(e[1]) /\ Accepts(h[0], e[1]) /\ h[1] = Accept(h[0], e[1])
  <2>1. 1 \in 1 .. Len(e) /\ 1 - 1 = 0
    BY <1>2
  <2> QED
    BY <1>3, <2>1
<1>5. Readable(u, e[1]) /\ Mirrors(Add(u, e[1]), h[1])
  BY <1>1, <1>4, MirrorStep
<1> DEFINE g == [i \in 0 .. Len(e) - 1 |-> h[i + 1]]
<1>6. \A i \in 0 .. Len(e) - 1 : g[i] = h[i + 1]
  OBVIOUS
<1> HIDE DEF g
<1>7. g[0] = h[1] /\ g[Len(Tail(e))] = s
  BY <1>1, <1>2, <1>6
<1>8. ASSUME NEW i \in 1 .. Len(Tail(e))
      PROVE  /\ Event(Tail(e)[i]) /\ Accepts(g[i - 1], Tail(e)[i])
             /\ g[i] = Accept(g[i - 1], Tail(e)[i])
  <2>1. Tail(e)[i] = e[i + 1] /\ g[i] = h[i + 1]
    BY <1>2, <1>6
  <2>2. i - 1 \in 0 .. Len(e) - 1 /\ (i - 1) + 1 = i /\ i + 1 \in 1 .. Len(e) /\ (i + 1) - 1 = i
    BY <1>2
  <2>3. g[i - 1] = h[i]
    BY <1>6, <2>2
  <2>4. Event(e[i + 1]) /\ Accepts(h[i], e[i + 1]) /\ h[i + 1] = Accept(h[i], e[i + 1])
    BY <1>3, <2>2
  <2> QED
    BY <2>1, <2>3, <2>4
<1>9. Takings(g, Tail(e))
  BY <1>8 DEF Takings
<1> QED
  BY <1>2, <1>5, <1>7, <1>9 DEF Run

\* The accumulator takes one more.
LEMMA RunSend ==
  ASSUME NEW u, NEW s, NEW e, Run(u, s, e), NEW x, Event(x), Accepts(s, x)
  PROVE  Run(u, Accept(s, x), Append(e, x))
<1>1. PICK h : Mirrors(u, h[0]) /\ h[Len(e)] = s /\ Takings(h, e)
  BY DEF Run
<1> DEFINE n == Len(e)
           q == Append(e, x)
<1>2. /\ n \in Nat /\ IsSeq(q) /\ Len(q) = n + 1 /\ q[n + 1] = x
      /\ \A i \in 1 .. n : q[i] = e[i]
  BY SeqLonger DEF Run
<1>3. \E v : Mirrors(v, Accept(s, x))
  BY MirrorStep DEF Run
<1>4. \A i \in 1 .. n : Event(e[i]) /\ Accepts(h[i - 1], e[i]) /\ h[i] = Accept(h[i - 1], e[i])
  BY <1>1 DEF Takings
<1> DEFINE g == [i \in 0 .. n + 1 |-> IF i = n + 1 THEN Accept(s, x) ELSE h[i]]
<1>5. \A i \in 0 .. n + 1 : g[i] = IF i = n + 1 THEN Accept(s, x) ELSE h[i]
  OBVIOUS
<1> HIDE DEF g, q
<1>6. g[0] = h[0] /\ g[n + 1] = Accept(s, x) /\ g[n] = s
  BY <1>1, <1>2, <1>5
<1>7. ASSUME NEW i \in 1 .. n + 1
      PROVE  Event(q[i]) /\ Accepts(g[i - 1], q[i]) /\ g[i] = Accept(g[i - 1], q[i])
  <2>1. CASE i = n + 1
    <3>1. i - 1 = n
      BY <1>2, <2>1
    <3> QED
      BY <1>2, <1>6, <2>1, <3>1
  <2>2. CASE i # n + 1
    <3>1. i \in 1 .. n /\ i \in 0 .. n + 1 /\ i - 1 \in 0 .. n + 1 /\ i - 1 # n + 1
      BY <1>2, <2>2
    <3>2. g[i] = h[i] /\ g[i - 1] = h[i - 1] /\ q[i] = e[i]
      BY <1>2, <1>5, <2>2, <3>1
    <3> QED
      BY <1>4, <3>1, <3>2
  <2> QED
    BY <2>1, <2>2
<1>8. Takings(g, q)
  BY <1>2, <1>7 DEF Takings
<1>9. Mirrors(u, g[0]) /\ g[Len(q)] = Accept(s, x)
  BY <1>1, <1>2, <1>6
<1>10. Run(u, Accept(s, x), q)
  BY <1>2, <1>3, <1>8, <1>9 DEF Run
<1> QED
  BY <1>10 DEF q

-----------------------------------------------------------------------------
(* A stream on its way: the assembler, the accumulator, the server and the *)
(* wire between them.                                                      *)

Closers == {DoneMark, ErrorFrame, TornFrame}

\* An accumulator that refused an event.
Broken(s) == [s EXCEPT !.error = TRUE]

\* On the wire there are the first k events of e, and then what ends a stream.
OnWire(w, e, k) ==
  /\ IsSeq(w) /\ k \in 0 .. Len(e) /\ k <= Len(w)
  /\ \A i \in 1 .. k : w[i] = e[i]
  /\ \A i \in k + 1 .. Len(w) : w[i] \in Closers

\* As long as the connection holds nothing is lost.
Going(u, z, server_, w) ==
  \E s, e, k :
    /\ Run(u, s, e) /\ OnWire(w, e, k)
    /\ z = s \/ z = Broken(s)
    /\ server_ = "streaming" => z = s /\ k = Len(e) /\ k = Len(w)

\* What ends a stream is not an event.
LEMMA ClosersApart ==
  /\ \A x \in Closers : ~Event(x)
  /\ DoneMark.type = "[DONE]" /\ ErrorFrame.type = "error" /\ TornFrame.type = "torn"
BY DEF Closers, DoneMark, ErrorFrame, TornFrame, Event, EventTypes

\* A refused event changes nothing but the error flag.
LEMMA BrokenFields ==
  ASSUME NEW v, NEW s, Mirrors(v, s)
  PROVE  /\ Broken(s).parents = s.parents /\ Broken(s).tokens = s.tokens
         /\ Broken(s).finished = s.finished /\ Broken(s).error = TRUE
         /\ StartedIn(Broken(s)) = StartedIn(s)
<1>1. PICK B, p, k, t, n, m, f :
        v = TraceOf(B, f) /\ s = StreamOf(p, k, t, n, m, f) /\ Match(B, p, k, t, n, m, f)
  BY Zenon DEF Mirrors
<1> QED
  BY <1>1 DEF Broken, StreamOf, StartedIn

\* Accept lets an event pass, or breaks the accumulator.
LEMMA AcceptOrBreak ==
  ASSUME NEW v, NEW s, Mirrors(v, s), NEW x, Event(x)
  PROVE  /\ Accepts(s, x) => Accept(s, x).error = FALSE
         /\ ~Accepts(s, x) => Accept(s, x) = Broken(s) /\ Accept(s, x).error = TRUE
<1>1. ASSUME Accepts(s, x) PROVE Accept(s, x).error = FALSE
  BY <1>1, MirrorStep, MirrorWhole
<1>2. ASSUME ~Accepts(s, x) PROVE Accept(s, x) = Broken(s)
  BY <1>2 DEF Accept, Broken
<1> QED
  BY <1>1, <1>2, BrokenFields

\* Nothing is on its way when the request is made.
LEMMA GoingNew ==
  ASSUME NEW v
  PROVE  Going(NewTrace, NewStream, v, <<>>)
<1>1. Run(NewTrace, NewStream, <<>>)
  BY MirrorNew, RunNone
<1>2. IsSeq(<<>>) /\ Len(<<>>) = 0 /\ OnWire(<<>>, <<>>, 0)
  BY SeqEmpty DEF OnWire
<1> QED
  BY <1>1, <1>2 DEF Going

\* Cutting the response leaves the wire as it is.
LEMMA GoingCut ==
  ASSUME NEW u, NEW z, NEW v, NEW w, Going(u, z, v, w)
  PROVE  Going(u, z, "cut", w) /\ IsSeq(w)
<1>1. PICK s, e, k :
        /\ Run(u, s, e) /\ OnWire(w, e, k) /\ (z = s \/ z = Broken(s))
  BY DEF Going
<1> QED
  BY <1>1 DEF Going, OnWire

\* Sending an event, or refusing it.
LEMMA GoingSend ==
  ASSUME NEW u, NEW z, NEW w, Going(u, z, "streaming", w), NEW x, Event(x)
  PROVE  /\ Accept(z, x).error = TRUE => Going(u, Accept(z, x), "cut", w)
         /\ Accept(z, x).error # TRUE => Going(u, Accept(z, x), "streaming", Append(w, x))
<1>1. PICK s, e, k :
        /\ Run(u, s, e) /\ OnWire(w, e, k)
        /\ z = s /\ k = Len(e) /\ k = Len(w)
  BY DEF Going
<1>2. PICK v : Mirrors(v, s)
  BY <1>1 DEF Run
<1>3. ASSUME ~Accepts(s, x) PROVE Accept(z, x).error = TRUE /\ Going(u, Accept(z, x), "cut", w)
  <2>1. Accept(s, x) = Broken(s) /\ Accept(s, x).error = TRUE
    BY <1>2, <1>3, AcceptOrBreak
  <2> QED
    BY <1>1, <2>1 DEF Going
<1>4. ASSUME Accepts(s, x)
      PROVE  Accept(z, x).error = FALSE /\ Going(u, Accept(z, x), "streaming", Append(w, x))
  <2>1. Accept(s, x).error = FALSE
    BY <1>2, <1>4, AcceptOrBreak
  <2> DEFINE q == Append(e, x)
             y == Append(w, x)
             r == Accept(s, x)
  <2>2. Run(u, r, q)
    BY <1>1, <1>4, RunSend
  <2>3. /\ Len(e) \in Nat /\ IsSeq(q) /\ Len(q) = Len(e) + 1 /\ q[Len(e) + 1] = x
        /\ \A i \in 1 .. Len(e) : q[i] = e[i]
    <3>1. IsSeq(e)
      BY <1>1 DEF Run
    <3> QED
      BY <3>1, SeqLonger
  <2>4. /\ IsSeq(w) /\ IsSeq(y) /\ Len(y) = Len(w) + 1 /\ y[Len(w) + 1] = x
        /\ \A i \in 1 .. Len(w) : y[i] = w[i]
    <3>1. IsSeq(w)
      BY <1>1 DEF OnWire
    <3> QED
      BY <3>1, SeqLonger
  <2> HIDE DEF q, y, r
  <2>5. \A i \in 1 .. Len(e) : w[i] = e[i]
    BY <1>1 DEF OnWire
  <2>6. ASSUME NEW i \in 1 .. Len(q) PROVE y[i] = q[i]
    <3>1. i = Len(e) + 1 \/ i \in 1 .. Len(e)
      BY <2>3
    <3>2. Len(e) = Len(w)
      BY <1>1
    <3>3. CASE i = Len(e) + 1
      BY <2>3, <2>4, <3>2, <3>3
    <3>4. CASE i \in 1 .. Len(e)
      <4>1. i \in 1 .. Len(w)
        BY <3>2, <3>4
      <4> QED
        BY <2>3, <2>4, <2>5, <3>4, <4>1
    <3> QED
      BY <3>1, <3>3, <3>4
  <2>7. OnWire(y, q, Len(q)) /\ Len(q) = Len(y)
    <3>3. Len(e) = Len(w)
      BY <1>1
    <3>1. Len(q) \in Nat /\ Len(y) = Len(q)
      BY <2>3, <2>4, <3>3
    <3>2. Len(q) \in 0 .. Len(q) /\ Len(q) <= Len(y) /\ Len(q) + 1 .. Len(y) = {}
      BY <3>1
    <3> QED
      BY <2>4, <2>6, <3>1, <3>2 DEF OnWire
  <2> QED
    BY <1>1, <2>1, <2>2, <2>7 DEF Going, r, y
<1> QED
  BY <1>3, <1>4

\* The frames that end the stream are sent after the events.
LEMMA GoingClose ==
  ASSUME NEW u, NEW z, NEW w, Going(u, z, "streaming", w), NEW c,
         c = <<DoneMark>> \/ c = <<ErrorFrame, DoneMark>>
  PROVE  Going(u, z, "closed", w \o c)
<1>1. PICK s, e, k :
        /\ Run(u, s, e) /\ OnWire(w, e, k) /\ z = s
  BY DEF Going
<1>2. IsSeq(c) /\ Len(c) \in Nat /\ \A i \in 1 .. Len(c) : c[i] \in Closers
  <2>1. {DoneMark, ErrorFrame} \subseteq Closers
    BY DEF Closers
  <2>2. c \in Seq(Closers)
    <3>1. \A x \in Closers : \A y \in Closers :
            <<x>> \in Seq(Closers) /\ <<x, y>> \in Seq(Closers)
      OBVIOUS
    <3> QED
      BY <2>1, <3>1
  <2>3. \A i \in 1 .. Len(c) : c[i] \in Closers
    BY <2>2
  <2> QED
    BY <2>2, <2>3 DEF IsSeq
<1> DEFINE y == w \o c
<1>3. /\ IsSeq(w) /\ IsSeq(y) /\ Len(w) \in Nat /\ Len(y) = Len(w) + Len(c)
      /\ \A i \in 1 .. Len(w) + Len(c) : y[i] = IF i <= Len(w) THEN w[i] ELSE c[i - Len(w)]
  BY <1>1, <1>2, SeqJoined DEF OnWire
<1> HIDE DEF y
<1>4. /\ k \in 0 .. Len(e) /\ k <= Len(w) /\ Len(e) \in Nat
      /\ \A i \in 1 .. k : w[i] = e[i]
      /\ \A i \in k + 1 .. Len(w) : w[i] \in Closers
  BY <1>1, SeqLonger DEF OnWire, Run
<1>5. \A i \in Len(w) + 1 .. Len(y) : i - Len(w) \in 1 .. Len(c) /\ y[i] = c[i - Len(w)]
  BY <1>2, <1>3
<1>6. \A i \in 1 .. Len(w) : y[i] = w[i]
  BY <1>2, <1>3
<1>7. OnWire(y, e, k)
  <2>1. \A i \in 1 .. k : y[i] = e[i]
    BY <1>3, <1>4, <1>6
  <2>2. ASSUME NEW i \in k + 1 .. Len(y) PROVE y[i] \in Closers
    <3>1. i \in k + 1 .. Len(w) \/ i \in Len(w) + 1 .. Len(y)
      BY <1>3, <1>4
    <3>2. CASE i \in k + 1 .. Len(w)
      BY <1>3, <1>4, <1>6, <3>2
    <3>3. CASE i \in Len(w) + 1 .. Len(y)
      BY <1>2, <1>5, <3>3
    <3> QED
      BY <3>1, <3>2, <3>3
  <2> QED
    BY <1>2, <1>3, <1>4, <2>1, <2>2 DEF OnWire
<1>8. Going(u, z, "closed", y)
  BY <1>1, <1>7 DEF Going
<1> QED
  BY <1>8 DEF y

\* Losing the end of the wire leaves a prefix of the events.
LEMMA GoingLose ==
  ASSUME NEW u, NEW z, NEW v, NEW w, Going(u, z, v, w),
         NEW n \in 0 .. Len(w), NEW c, c = <<>> \/ c = <<TornFrame>>
  PROVE  Going(u, z, "cut", SubSeq(w, 1, n) \o c)
<1>1. PICK s, e, k :
        /\ Run(u, s, e) /\ OnWire(w, e, k) /\ (z = s \/ z = Broken(s))
  BY DEF Going
<1> DEFINE p == SubSeq(w, 1, n)
           y == p \o c
<1>2. IsSeq(c) /\ Len(c) \in Nat /\ \A i \in 1 .. Len(c) : c[i] \in Closers
  <2>1. CASE c = <<>>
    BY <2>1, SeqEmpty
  <2>2. CASE c = <<TornFrame>>
    <3>1. c \in Seq(Closers) /\ Len(c) = 1 /\ c[1] = TornFrame
      BY <2>2 DEF Closers
    <3>2. \A i \in 1 .. Len(c) : c[i] = TornFrame
      BY <3>1
    <3>3. TornFrame \in Closers
      BY DEF Closers
    <3> QED
      BY <3>1, <3>2, <3>3, ClosersApart DEF IsSeq
  <2> QED
    BY <2>1, <2>2
<1>3. IsSeq(p) /\ Len(p) = n /\ Len(w) \in Nat /\ \A i \in 1 .. n : p[i] = w[i]
  BY <1>1, SeqCut DEF OnWire
<1> HIDE DEF p
<1>4. /\ IsSeq(y) /\ Len(y) = n + Len(c)
      /\ \A i \in 1 .. n + Len(c) : y[i] = IF i <= n THEN p[i] ELSE c[i - n]
  BY <1>2, <1>3, SeqJoined
<1> HIDE DEF y
<1>5. /\ k \in 0 .. Len(e) /\ k <= Len(w) /\ Len(e) \in Nat
      /\ \A i \in 1 .. k : w[i] = e[i]
      /\ \A i \in k + 1 .. Len(w) : w[i] \in Closers
  BY <1>1, SeqLonger DEF OnWire, Run
<1>6. \A i \in 1 .. n : y[i] = w[i] /\ i \in 1 .. Len(w)
  BY <1>2, <1>3, <1>4
<1>7. \A i \in n + 1 .. Len(y) : i - n \in 1 .. Len(c) /\ y[i] = c[i - n]
  BY <1>2, <1>3, <1>4
<1> DEFINE j == IF k <= n THEN k ELSE n
<1>8. j \in 0 .. Len(e) /\ j <= n /\ j <= k /\ j <= Len(y) /\ (j = k \/ j = n)
  BY <1>2, <1>3, <1>4, <1>5
<1> HIDE DEF j
<1>9. OnWire(y, e, j)
  <2>1. \A i \in 1 .. j : y[i] = e[i]
    BY <1>3, <1>5, <1>6, <1>8
  <2>2. ASSUME NEW i \in j + 1 .. Len(y) PROVE y[i] \in Closers
    <3>1. i \in j + 1 .. n \/ i \in n + 1 .. Len(y)
      BY <1>2, <1>3, <1>4, <1>8
    <3>2. CASE i \in j + 1 .. n
      <4>1. j = k /\ i \in k + 1 .. Len(w) /\ i \in 1 .. n
        BY <1>3, <1>5, <1>8, <3>2
      <4> QED
        BY <1>5, <1>6, <4>1
    <3>3. CASE i \in n + 1 .. Len(y)
      BY <1>2, <1>7, <3>3
    <3> QED
      BY <3>1, <3>2, <3>3
  <2> QED
    BY <1>4, <1>8, <2>1, <2>2 DEF OnWire
<1>10. Going(u, z, "cut", y)
  BY <1>1, <1>9 DEF Going
<1> QED
  BY <1>10 DEF y, p

\* The next frame is an event the assembler takes once it is parsed, or one
\* that ends a stream.
LEMMA GoingRead ==
  ASSUME NEW u, NEW z, NEW v, NEW w, Going(u, z, v, w), w # <<>>
  PROVE  \/ /\ Event(Head(w)) /\ Readable(u, Head(w))
            /\ Going(Add(u, Head(w)), z, v, Tail(w))
         \/ Head(w) \in Closers /\ Going(u, z, v, Tail(w))
<1>1. PICK s, e, k :
        /\ Run(u, s, e) /\ OnWire(w, e, k) /\ (z = s \/ z = Broken(s))
        /\ v = "streaming" => z = s /\ k = Len(e) /\ k = Len(w)
  BY DEF Going
<1> DEFINE y == Tail(w)
<1>2. /\ Len(w) \in Nat \ {0} /\ Head(w) = w[1] /\ IsSeq(y) /\ Len(y) = Len(w) - 1
      /\ \A i \in 1 .. Len(w) - 1 : y[i] = w[i + 1]
  BY <1>1, SeqShorter DEF OnWire
<1> HIDE DEF y
<1>3. /\ k \in 0 .. Len(e) /\ k <= Len(w) /\ Len(e) \in Nat /\ IsSeq(e)
      /\ \A i \in 1 .. k : w[i] = e[i]
      /\ \A i \in k + 1 .. Len(w) : w[i] \in Closers
  BY <1>1, SeqLonger DEF OnWire, Run
<1>5. CASE k = 0
  <2>1. Head(w) \in Closers
    BY <1>2, <1>3, <1>5
  <2>2. \A i \in 1 .. Len(y) : y[i] \in Closers
    BY <1>2, <1>3, <1>5
  <2>3. OnWire(y, e, 0)
    BY <1>2, <1>3, <2>2 DEF OnWire
  <2>4. v # "streaming"
    BY <1>1, <1>2, <1>5
  <2>5. Going(u, z, v, y)
    BY <1>1, <2>3, <2>4 DEF Going
  <2> QED
    BY <2>1, <2>5 DEF y
<1>6. CASE k # 0
  <2> DEFINE q == Tail(e)
  <2>1. e # <<>>
    BY <1>3, <1>6, SeqEmpty
  <2>2. w[1] = e[1]
    BY <1>3, <1>6
  <2>3. /\ IsSeq(q) /\ Len(q) = Len(e) - 1 /\ Len(e) \in Nat \ {0}
        /\ \A i \in 1 .. Len(e) - 1 : q[i] = e[i + 1]
    BY <1>3, <2>1, SeqShorter
  <2>4. Readable(u, e[1]) /\ Run(Add(u, e[1]), s, q)
    BY <1>1, <2>1, RunRead
  <2>5. Event(e[1])
    <3>1. 1 \in 1 .. Len(e)
      BY <2>3
    <3> QED
      BY <1>1, <3>1 DEF Run, Takings
  <2> HIDE DEF q
  <2>6. OnWire(y, q, k - 1)
    <3>1. k - 1 \in 0 .. Len(q) /\ k - 1 <= Len(y)
      BY <1>2, <1>3, <1>6, <2>3
    <3>2. ASSUME NEW i \in 1 .. k - 1 PROVE y[i] = q[i]
      <4>1. i \in 1 .. Len(w) - 1 /\ i \in 1 .. Len(e) - 1 /\ i + 1 \in 1 .. k
        BY <1>2, <1>3
      <4> QED
        BY <1>2, <1>3, <2>3, <4>1
    <3>3. ASSUME NEW i \in (k - 1) + 1 .. Len(y) PROVE y[i] \in Closers
      <4>1. i \in 1 .. Len(w) - 1 /\ i + 1 \in k + 1 .. Len(w)
        BY <1>2, <1>3, <1>6
      <4> QED
        BY <1>2, <1>3, <4>1
    <3> QED
      BY <1>2, <3>1, <3>2, <3>3 DEF OnWire
  <2>7. v = "streaming" => z = s /\ k - 1 = Len(q) /\ k - 1 = Len(y)
    BY <1>1, <1>2, <2>3
  <2>8. Going(Add(u, e[1]), z, v, y)
    BY <1>1, <2>4, <2>6, <2>7 DEF Going
  <2> QED
    BY <1>2, <2>2, <2>4, <2>5, <2>8 DEF y
<1> QED
  BY <1>5, <1>6

\* What the theorems say of a finished assembler.
SameTree(u, z) ==
  /\ z.finished
  /\ DOMAIN u.branches = StartedIn(z)
  /\ \A b \in StartedIn(z) :
       /\ u.branches[b].parent = z.parents[b]
       /\ u.branches[b].tokens = z.tokens[b]
  /\ Ended(u, "completed") = 1 /\ Ended(u, "live") = 0

Lineages(u, z) ==
  \A b \in DOMAIN u.branches :
    LET path == u.branches[b].path
    IN /\ Last(path) = b /\ Range(path) \subseteq DOMAIN u.branches
       /\ \A n \in 1 .. Len(path) - 1 : u.branches[path[n + 1]].parent = path[n]
       /\ TextOf(u, b) = PathText(z, b)

\* When the assembler is done it has the tree of the accumulator.
LEMMA GoingDone ==
  ASSUME NEW u, NEW z, NEW v, NEW w, Going(u, z, v, w), u.done = TRUE
  PROVE  SameTree(u, z) /\ Lineages(u, z)
<1>1. PICK s, e, k : Run(u, s, e) /\ (z = s \/ z = Broken(s))
  BY DEF Going
<1>2. Mirrors(u, s)
  BY <1>1, RunOver
<1>3. /\ z.parents = s.parents /\ z.tokens = s.tokens
      /\ z.finished = s.finished /\ StartedIn(z) = StartedIn(s)
  BY <1>1, <1>2, BrokenFields
<1>4. /\ s.finished = TRUE /\ DOMAIN u.branches = StartedIn(s)
      /\ \A b \in StartedIn(s) :
           u.branches[b].parent = s.parents[b] /\ u.branches[b].tokens = s.tokens[b]
      /\ Ended(u, "completed") = 1 /\ Ended(u, "live") = 0
  BY <1>2, MirrorWhole
<1>5. SameTree(u, z)
  BY <1>3, <1>4 DEF SameTree
<1>6. ASSUME NEW b \in DOMAIN u.branches
      PROVE  LET path == u.branches[b].path
             IN /\ Last(path) = b /\ Range(path) \subseteq DOMAIN u.branches
                /\ \A n \in 1 .. Len(path) - 1 : u.branches[path[n + 1]].parent = path[n]
                /\ TextOf(u, b) = PathText(z, b)
  BY <1>2, <1>3, MirrorExports
<1>7. Lineages(u, z)
  BY <1>6, Zenon DEF Lineages
<1> QED
  BY <1>5, <1>7

-----------------------------------------------------------------------------
(* What the engines yield are events.                                      *)

Events(q) == IsSeq(q) /\ \A i \in 1 .. Len(q) : Event(q[i])

\* Sequences of events, joined or made one by one.
LEMMA EventsJoined ==
  ASSUME NEW p, Events(p), NEW q, Events(q)
  PROVE  Events(p \o q)
<1> DEFINE r == p \o q
<1>1. /\ Len(p) \in Nat /\ Len(q) \in Nat
      /\ IsSeq(r) /\ Len(r) = Len(p) + Len(q)
      /\ \A i \in 1 .. Len(p) + Len(q) : r[i] = IF i <= Len(p) THEN p[i] ELSE q[i - Len(p)]
  BY SeqJoined DEF Events
<1> HIDE DEF r
<1>2. ASSUME NEW i \in 1 .. Len(r) PROVE Event(r[i])
  <2>1. CASE i <= Len(p)
    <3>1. i \in 1 .. Len(p) /\ r[i] = p[i]
      BY <1>1, <2>1
    <3> QED
      BY <3>1 DEF Events
  <2>2. CASE ~(i <= Len(p))
    <3>1. i - Len(p) \in 1 .. Len(q) /\ r[i] = q[i - Len(p)]
      BY <1>1, <2>2
    <3> QED
      BY <3>1 DEF Events
  <2> QED
    BY <2>1, <2>2
<1>3. Events(r)
  BY <1>1, <1>2 DEF Events
<1> QED
  BY <1>3 DEF r

LEMMA EventsMade ==
  ASSUME NEW n \in Nat, NEW g, \A i \in 1 .. n : Event(g[i])
  PROVE  Events([i \in 1 .. n |-> g[i]])
<1> DEFINE q == [i \in 1 .. n |-> g[i]]
<1>1. IsSeq(q) /\ Len(q) = n
  BY SeqMade
<1>2. \A i \in 1 .. n : q[i] = g[i]
  OBVIOUS
<1> HIDE DEF q
<1>3. Events(q)
  BY <1>1, <1>2 DEF Events
<1> QED
  BY <1>3 DEF q

\* The deterministic engine yields events.
LEMMA InTurnsEvents ==
  ASSUME NEW n \in Nat, NEW samples, DOMAIN samples = 0 .. n - 1
  PROVE  Events(InTurns(samples))
<1> DEFINE places == {p \in (1 .. MaxTokens) \X DOMAIN samples : p[1] <= Len(samples[p[2]])}
           earlier(p, q) == p[1] < q[1] \/ (p[1] = q[1] /\ p[2] < q[2])
           turn(j) == CHOOSE p \in places : Cardinality({q \in places : earlier(q, p)}) = j - 1
           g == [j \in 1 .. Cardinality(places) |->
                  TokenEvent(turn(j)[2], turn(j)[1] - 1, samples[turn(j)[2]][turn(j)[1]])]
<1>1. Cardinality(places) \in Nat
  <2>1. IsFiniteSet(1 .. MaxTokens)
    BY RolloutAssumption, FS_Interval
  <2>2. IsFiniteSet(0 .. n - 1)
    BY FS_Interval
  <2>3. IsFiniteSet((1 .. MaxTokens) \X DOMAIN samples)
    BY <2>1, <2>2, FS_Product
  <2>4. places \subseteq (1 .. MaxTokens) \X DOMAIN samples
    OBVIOUS
  <2> HIDE DEF places
  <2> QED
    BY <2>3, <2>4, FS_Subset, FS_CardinalityType
<1>2. InTurns(samples) = g
  BY Zenon DEF InTurns
<1>3. \A j \in 1 .. Cardinality(places) :
        g[j] = TokenEvent(turn(j)[2], turn(j)[1] - 1, samples[turn(j)[2]][turn(j)[1]])
  BY Zenon
<1> HIDE DEF turn
<1>4. \A j \in 1 .. Cardinality(places) : Event(g[j])
  <2>1. \A a, b, c : Event(TokenEvent(a, b, c))
    BY DEF Event, TokenEvent, EventTypes
  <2> HIDE DEF g
  <2> QED
    BY <1>3, <2>1
<1>5. g = [j \in 1 .. Cardinality(places) |-> g[j]]
  BY Zenon
<1> HIDE DEF places, g
<1>6. Events([j \in 1 .. Cardinality(places) |-> g[j]])
  BY <1>1, <1>4, EventsMade
<1> QED
  BY <1>2, <1>5, <1>6, Zenon

LEMMA DemoEvents ==
  ASSUME NEW n \in Nat \ {0}, NEW samples, DOMAIN samples = 0 .. n - 1, NEW winner
  PROVE  Events(DemoScript(samples, winner))
<1>1. Cardinality(DOMAIN samples) = n
  <2>1. 0 \in Int /\ n - 1 \in Int
    OBVIOUS
  <2>2. Cardinality(0 .. n - 1) = IF 0 > n - 1 THEN 0 ELSE (n - 1) - 0 + 1
    BY <2>1, FS_Interval
  <2> QED
    BY <2>2
<1> DEFINE loser(j) == IF j <= winner THEN j - 1 ELSE j
           A == [i \in 1 .. n |-> Started(i - 1, NoBranch)]
           B == InTurns(samples)
           C == [j \in 1 .. n - 1 |-> IF Merges(n, j) THEN MergedInto(loser(j), winner)
                                      ELSE Pruned(loser(j))]
           D == <<DemoDone(samples, winner)>>
<1>2. DemoScript(samples, winner) = A \o B \o C \o D
  BY <1>1, Zenon DEF DemoScript
<1>3. Events(A)
  <2>1. \A i \in 1 .. n : A[i] = Started(i - 1, NoBranch)
    OBVIOUS
  <2>2. \A i \in 1 .. n : Event(A[i])
    BY <2>1 DEF Event, Started, EventTypes, NoBranch
  <2>3. A = [i \in 1 .. n |-> A[i]] /\ n \in Nat
    OBVIOUS
  <2> HIDE DEF A
  <2>4. Events([i \in 1 .. n |-> A[i]])
    BY <2>2, <2>3, EventsMade
  <2> QED
    BY <2>3, <2>4, Zenon
<1>4. Events(B)
  BY InTurnsEvents
<1>5. Events(C)
  <2>1. \A j \in 1 .. n - 1 :
          C[j] = IF Merges(n, j) THEN MergedInto(loser(j), winner) ELSE Pruned(loser(j))
    OBVIOUS
  <2>2. \A a, b : Event(MergedInto(a, b)) /\ Event(Pruned(a))
    BY DEF Event, MergedInto, Pruned, EventTypes
  <2>3. C = [j \in 1 .. n - 1 |-> C[j]] /\ n - 1 \in Nat
    OBVIOUS
  <2> HIDE DEF C, loser
  <2>4. \A j \in 1 .. n - 1 : Event(C[j])
    BY <2>1, <2>2
  <2>5. Events([j \in 1 .. n - 1 |-> C[j]])
    BY <2>3, <2>4, EventsMade
  <2> QED
    BY <2>3, <2>5, Zenon
<1>6. Events(D)
  <2> DEFINE x == DemoDone(samples, winner)
  <2>1. Event(x)
    BY DEF DemoDone, Event, EventTypes
  <2> HIDE DEF x
  <2>2. <<x>> \in Seq({x}) /\ Len(<<x>>) = 1 /\ <<x>>[1] = x
    OBVIOUS
  <2>3. \A i \in 1 .. Len(<<x>>) : <<x>>[i] = x
    OBVIOUS
  <2>4. Events(<<x>>)
    <3> DEFINE q == <<x>>
    <3>1. IsSeq(q) /\ \A i \in 1 .. Len(q) : q[i] = x
      BY <2>2, <2>3 DEF IsSeq
    <3> HIDE DEF q
    <3>2. Events(q)
      BY <2>1, <3>1 DEF Events
    <3> QED
      BY <3>2 DEF q
  <2> QED
    BY <2>4 DEF x
<1> HIDE DEF A, B, C, D
<1>7. Events(A \o B)
  BY <1>3, <1>4, EventsJoined
<1>8. Events(A \o B \o C)
  BY <1>5, <1>7, EventsJoined
<1>9. Events(A \o B \o C \o D)
  BY <1>6, <1>8, EventsJoined
<1> QED
  BY <1>2, <1>9

\* So does any engine.
LEMMA AnyAreEvents ==
  ASSUME NEW s, IsFiniteSet(StartedIn(s)), NEW e \in AnyEvents(s)
  PROVE  Event(e)
<1> DEFINE next == Cardinality(StartedIn(s))
           ids == 0 .. Min({next, MaxBranches - 1})
           index(b) == IF b \in StartedIn(s) THEN {Len(s.tokens[b]), 0} ELSE {0}
           fitting == {d \in AnyDones(s) : Accepts(s, d)}
<1>1. ids \subseteq Nat
  <2>1. next \in Nat /\ MaxBranches - 1 \in Nat
    BY FS_CardinalityType, RolloutAssumption
  <2> HIDE DEF next
  <2>2. Min({next, MaxBranches - 1}) \in Nat
    <3>1. \E x \in {next, MaxBranches - 1} : \A y \in {next, MaxBranches - 1} : x <= y
      BY <2>1
    <3> QED
      BY <2>1, <3>1 DEF Min
  <2> QED
    BY <2>2
<1> DEFINE S1 == {Started(b, p) : b \in ids, p \in {NoBranch} \cup ids}
           S2 == UNION {{TokenEvent(b, i, w) : i \in index(b), w \in Words} :
                          b \in {c \in ids : TokensIn(s) < MaxTokens}}
           S3 == {Pruned(b) : b \in ids}
           S4 == {MergedInto(b, c) : b, c \in ids}
           S5 == UNION {Slips(d) : d \in fitting}
<1>2. AnyEvents(s) = S1 \cup S2 \cup S3 \cup S4 \cup AnyDones(s) \cup S5
  BY SMT DEF AnyEvents
<1>3. \A d \in AnyDones(s) : d.type = "done" /\ "type" \in DOMAIN d
  BY DEF AnyDones, TrueDone
<1> HIDE DEF ids, index
<1>4. ASSUME e \in S1 PROVE Event(e)
  <2>1. \A z : z \in S1 <=> \E b \in ids : \E p \in {NoBranch} \cup ids : z = Started(b, p)
    OBVIOUS
  <2> HIDE DEF S1
  <2>2. PICK b \in ids : \E p \in {NoBranch} \cup ids : e = Started(b, p)
    BY <1>4, <2>1
  <2> QED
    BY <1>1, <2>2 DEF Started, Event, EventTypes, NoBranch
<1>5. ASSUME e \in S2 PROVE Event(e)
  <2> DEFINE T(b) == {TokenEvent(b, i, w) : i \in index(b), w \in Words}
  <2>1. \A b : \A z : z \in T(b) <=> \E i \in index(b) : \E w \in Words : z = TokenEvent(b, i, w)
    OBVIOUS
  <2>2. \E b : e \in T(b)
    <3> HIDE DEF T
    <3> QED
      BY <1>5 DEF T
  <2> HIDE DEF T
  <2>3. PICK b : \E i \in index(b) : \E w \in Words : e = TokenEvent(b, i, w)
    BY <2>1, <2>2
  <2> QED
    BY <2>3 DEF TokenEvent, Event, EventTypes
<1>6. ASSUME e \in S3 PROVE Event(e)
  BY <1>6 DEF Pruned, Event, EventTypes
<1>7. ASSUME e \in S4 PROVE Event(e)
  <2>1. \A z : z \in S4 <=> \E b \in ids : \E c \in ids : z = MergedInto(b, c)
    OBVIOUS
  <2> HIDE DEF S4
  <2>2. PICK b \in ids : \E c \in ids : e = MergedInto(b, c)
    BY <1>7, <2>1
  <2> QED
    BY <2>2 DEF MergedInto, Event, EventTypes
<1>8. e.type = "done" => Event(e)
  BY DEF Event, EventTypes
<1>9. ASSUME e \in AnyDones(s) PROVE Event(e)
  BY <1>3, <1>8, <1>9
<1>10. ASSUME e \in S5 PROVE Event(e)
  <2>1. PICK d \in AnyDones(s) : e \in Slips(d)
    BY <1>10
  <2>2. d.type = "done" /\ "type" \in DOMAIN d
    BY <1>3
  <2>3. e.type = "done"
    BY <2>1, <2>2 DEF Slips
  <2> QED
    BY <1>8, <2>3
<1> HIDE DEF S1, S2, S3, S4, S5
<1> QED
  BY <1>2, <1>4, <1>5, <1>6, <1>7, <1>9, <1>10

-----------------------------------------------------------------------------
(* The invariant.  Events the server sent and the assembler has not read   *)
(* are on the wire in their order; between two responses nothing is left.  *)

Left ==
  server = "idle" => trace = NewTrace /\ stream = NewStream /\ wire = <<>> /\ script = <<>>

RolloutInv ==
  AcceptorsAgree /\ Events(script) /\ Left /\ Going(trace, stream, server, wire)

\* No event at all, and all but the first.
LEMMA NoEvents == Events(<<>>)
BY SeqEmpty DEF Events

LEMMA EventsTail ==
  ASSUME NEW q, Events(q), q # <<>>
  PROVE  Event(Head(q)) /\ Events(Tail(q))
<1> DEFINE r == Tail(q)
<1>1. /\ Len(q) \in Nat \ {0} /\ Head(q) = q[1] /\ IsSeq(r) /\ Len(r) = Len(q) - 1
      /\ \A i \in 1 .. Len(q) - 1 : r[i] = q[i + 1]
  BY SeqShorter DEF Events
<1> HIDE DEF r
<1>2. 1 \in 1 .. Len(q) /\ \A i \in 1 .. Len(r) : i + 1 \in 1 .. Len(q)
  BY <1>1
<1>3. Event(q[1]) /\ \A i \in 1 .. Len(r) : Event(r[i])
  BY <1>1, <1>2 DEF Events
<1>4. Events(r)
  BY <1>1, <1>3 DEF Events
<1> QED
  BY <1>1, <1>3, <1>4 DEF r

\* The branches an accumulator knows are finitely many.
LEMMA GoingFinite ==
  ASSUME NEW u, NEW z, NEW v, NEW w, Going(u, z, v, w)
  PROVE  IsFiniteSet(StartedIn(z))
<1>1. PICK s, e, k : Run(u, s, e) /\ (z = s \/ z = Broken(s))
  BY DEF Going
<1>2. PICK t : Mirrors(t, s)
  BY <1>1 DEF Run
<1>3. IsFiniteSet(StartedIn(s))
  BY <1>2, MirrorWhole
<1>4. StartedIn(z) = StartedIn(s)
  BY <1>1, <1>2, BrokenFields
<1> QED
  BY <1>3, <1>4

\* One lemma for each action that the invariant is kept.
LEMMA SendKeeps ==
  ASSUME RolloutInv, NEW e, Event(e), Send(e), Events(script')
  PROVE  RolloutInv'
<1>1. /\ server = "streaming" /\ stream' = Accept(stream, e)
      /\ trace' = trace /\ outcome' = outcome
      /\ IF stream'.error THEN server' = "cut" /\ wire' = wire
                          ELSE wire' = Append(wire, e) /\ server' = server
  BY DEF Send, clientVars
<1>2. Going(trace, stream, "streaming", wire)
  BY <1>1 DEF RolloutInv
<1>3. /\ Accept(stream, e).error = TRUE => Going(trace, Accept(stream, e), "cut", wire)
      /\ Accept(stream, e).error # TRUE =>
           Going(trace, Accept(stream, e), "streaming", Append(wire, e))
  BY <1>2, GoingSend
<1>4. server' # "idle" /\ Going(trace', stream', server', wire')
  <2>1. CASE stream'.error = TRUE
    BY <1>1, <1>3, <2>1
  <2>2. CASE stream'.error # TRUE
    BY <1>1, <1>3, <2>2
  <2> QED
    BY <2>1, <2>2
<1> QED
  BY <1>1, <1>4 DEF RolloutInv, AcceptorsAgree, Left

LEMMA DemoYieldsKeeps ==
  ASSUME RolloutInv, DemoYields
  PROVE  RolloutInv'
<1>1. Send(Head(script)) /\ script # <<>> /\ script' = Tail(script) /\ Events(script)
  BY DEF DemoYields, RolloutInv
<1>2. Event(Head(script)) /\ Events(script')
  BY <1>1, EventsTail
<1> QED
  BY <1>1, <1>2, SendKeeps

LEMMA AnyYieldsKeeps ==
  ASSUME RolloutInv, AnyYields
  PROVE  RolloutInv'
<1>1. PICK e \in AnyEvents(stream) : Send(e)
  BY DEF AnyYields
<1>2. Events(script')
  BY DEF AnyYields, RolloutInv
<1>3. IsFiniteSet(StartedIn(stream))
  BY GoingFinite DEF RolloutInv
<1>4. Event(e)
  BY <1>3, AnyAreEvents
<1> QED
  BY <1>1, <1>2, <1>4, SendKeeps

LEMMA CutKeeps ==
  ASSUME RolloutInv, Cut
  PROVE  RolloutInv'
<1>1. Going(trace, stream, "cut", wire)
  BY GoingCut DEF RolloutInv
<1> QED
  BY <1>1 DEF Cut, clientVars, RolloutInv, AcceptorsAgree, Left

LEMMA CloseKeeps ==
  ASSUME RolloutInv, server = "streaming", NEW c, Close(c),
         c = <<DoneMark>> \/ c = <<ErrorFrame, DoneMark>>
  PROVE  RolloutInv'
<1>1. Going(trace, stream, "streaming", wire)
  BY DEF RolloutInv
<1>2. Going(trace, stream, "closed", wire \o c)
  BY <1>1, GoingClose
<1> QED
  BY <1>2 DEF Close, clientVars, RolloutInv, AcceptorsAgree, Left

LEMMA LoseConnectionKeeps ==
  ASSUME RolloutInv, LoseConnection
  PROVE  RolloutInv'
<1>1. PICK n \in 0 .. Len(wire) - 1 :
        \E torn \in {<<>>, <<TornFrame>>} : wire' = SubSeq(wire, 1, n) \o torn
  BY DEF LoseConnection
<1>2. PICK torn \in {<<>>, <<TornFrame>>} : wire' = SubSeq(wire, 1, n) \o torn
  BY <1>1
<1>3. Going(trace, stream, server, wire)
  BY DEF RolloutInv
<1>4. Len(wire) \in Nat
  BY <1>3, GoingCut, SeqLonger
<1>5. n \in 0 .. Len(wire)
  BY <1>4
<1>6. Going(trace, stream, "cut", SubSeq(wire, 1, n) \o torn)
  BY <1>3, <1>5, GoingLose
<1> QED
  BY <1>2, <1>6 DEF LoseConnection, clientVars, RolloutInv, AcceptorsAgree, Left

LEMMA LeaveKeeps ==
  ASSUME RolloutInv, Leave, outcome' \notin {"invalid", "low ratio"}
  PROVE  RolloutInv'
<1>1. Going(NewTrace, NewStream, "idle", <<>>)
  BY GoingNew
<1> QED
  BY <1>1, NoEvents DEF Leave, RolloutInv, AcceptorsAgree, Left

LEMMA FinishKeeps ==
  ASSUME RolloutInv, Finish
  PROVE  RolloutInv'
<1>1. Leave /\ outcome' \notin {"invalid", "low ratio"}
  BY DEF Finish, Missing, Raise, RolloutInv, AcceptorsAgree
<1> QED
  BY <1>1, LeaveKeeps

LEMMA AskKeeps ==
  ASSUME RolloutInv, Ask
  PROVE  RolloutInv'
<1>1. /\ server = "idle" /\ outcome = "running"
      /\ stream' = stream /\ wire' = wire /\ trace' = trace
  BY DEF Ask
<1>2. trace = NewTrace /\ stream = NewStream /\ wire = <<>> /\ script = <<>>
  BY <1>1 DEF RolloutInv, Left
<1>3. Going(trace', stream', server', wire')
  BY <1>1, <1>2, GoingNew
<1>4. CASE script' = <<>> /\ server' = "streaming" /\ outcome' = outcome
  BY <1>1, <1>3, <1>4, NoEvents DEF RolloutInv, AcceptorsAgree, Left
<1>5. CASE outcome' = "http error" /\ script' = script /\ server' = server
  BY <1>1, <1>2, <1>3, <1>5, NoEvents DEF RolloutInv, AcceptorsAgree, Left
<1>6. CASE /\ \E n \in 1 .. MaxBranches : \E s \in Samples(MaxTokens, n) :
                \E winner \in DemoWinners(s) : script' = DemoScript(s, winner)
           /\ server' = "streaming" /\ outcome' = outcome
  <2>1. PICK n \in 1 .. MaxBranches : \E s \in Samples(MaxTokens, n) :
               \E winner \in DemoWinners(s) : script' = DemoScript(s, winner)
    BY <1>6
  <2>2. PICK s \in Samples(MaxTokens, n) :
               \E winner \in DemoWinners(s) : script' = DemoScript(s, winner)
    BY <2>1
  <2>3. PICK winner : script' = DemoScript(s, winner)
    BY <2>2
  <2>4. n \in Nat \ {0}
    BY RolloutAssumption
  <2>5. DOMAIN s = 0 .. n - 1
    BY DEF Samples
  <2>6. Events(script')
    BY <2>3, <2>4, <2>5, DemoEvents
  <2> QED
    BY <1>1, <1>3, <1>6, <2>6 DEF RolloutInv, AcceptorsAgree, Left
<1> QED
  BY <1>4, <1>5, <1>6 DEF Ask

\* The frame that is read is an event, which the assembler takes unless the
\* models refuse it, or ends the stream.
LEMMA ReadKeeps ==
  ASSUME RolloutInv, Read
  PROVE  RolloutInv'
<1> DEFINE x == Head(wire)
<1>1. server # "idle" /\ wire # <<>> /\ Going(trace, stream, server, wire)
  BY DEF Read, RolloutInv
<1>2. \/ Event(x) /\ Readable(trace, x) /\ Going(Add(trace, x), stream, server, Tail(wire))
      \/ x \in Closers /\ Going(trace, stream, server, Tail(wire))
  BY <1>1, GoingRead
<1>3. CASE Event(x) /\ Readable(trace, x) /\ Going(Add(trace, x), stream, server, Tail(wire))
  <2>1. x.type # "[DONE]" /\ x.type # "error" /\ x.type # "torn"
    BY <1>3 DEF Event, EventTypes
  <2>2. CASE ParseErrors(x) # {}
    <3>1. PICK error \in ParseErrors(x) : Raise(error)
      BY <2>1, <2>2 DEF Read
    <3>2. error \notin {"invalid", "low ratio"}
      BY <1>3, <3>1 DEF Readable, ParseErrors
    <3> QED
      BY <3>1, <3>2, LeaveKeeps DEF Raise
  <2>3. CASE ParseErrors(x) = {}
    <3>1. /\ trace' = Add(trace, x) /\ wire' = Tail(wire) /\ script' = script
          /\ server' = server /\ stream' = stream /\ outcome' = outcome
      BY <1>3, <2>1, <2>3 DEF Read, Readable
    <3> QED
      BY <1>1, <1>3, <3>1 DEF RolloutInv, AcceptorsAgree, Left
  <2> QED
    BY <2>2, <2>3
<1>4. CASE x \in Closers /\ Going(trace, stream, server, Tail(wire))
  <2>1. CASE x = DoneMark
    <3>1. Finish
      BY <2>1, ClosersApart DEF Read
    <3> QED
      BY <3>1, FinishKeeps
  <2>2. CASE x = ErrorFrame
    <3>1. Raise("event after done") \/ Raise("stream error")
      BY <2>2, ClosersApart DEF Read
    <3> QED
      BY <3>1, LeaveKeeps DEF Raise
  <2>3. CASE x = TornFrame
    <3>1. \/ Raise("parse error")
          \/ /\ wire' = Tail(wire) /\ script' = script /\ trace' = trace
             /\ server' = server /\ stream' = stream /\ outcome' = outcome
      BY <2>3, ClosersApart DEF Read, clientVars
    <3>2. CASE Raise("parse error")
      BY <3>2, LeaveKeeps DEF Raise
    <3>3. CASE /\ wire' = Tail(wire) /\ script' = script /\ trace' = trace
               /\ server' = server /\ stream' = stream /\ outcome' = outcome
      BY <1>1, <1>4, <3>3 DEF RolloutInv, AcceptorsAgree, Left
    <3> QED
      BY <3>1, <3>2, <3>3
  <2> QED
    BY <1>4, <2>1, <2>2, <2>3 DEF Closers
<1> QED
  BY <1>2, <1>3, <1>4

LEMMA RolloutStart == Init => RolloutInv
BY GoingNew, NoEvents DEF Init, RolloutInv, AcceptorsAgree, Left

LEMMA RolloutStep == RolloutInv /\ [Next]_vars => RolloutInv'
<1> SUFFICES ASSUME RolloutInv, [Next]_vars PROVE RolloutInv'
  OBVIOUS
<1>1. CASE DemoYields
  BY <1>1, DemoYieldsKeeps
<1>2. CASE AnyYields
  BY <1>2, AnyYieldsKeeps
<1>3. CASE EngineEnds
  <2>1. server = "streaming" /\ (Cut \/ Close(<<DoneMark>>))
    BY <1>3 DEF EngineEnds
  <2> QED
    BY <2>1, CutKeeps, CloseKeeps
<1>4. CASE OutOfPages
  BY <1>4, CloseKeeps DEF OutOfPages
<1>5. CASE EngineFails
  BY <1>5, CutKeeps DEF EngineFails
<1>6. CASE LoseConnection
  BY <1>6, LoseConnectionKeeps
<1>7. CASE Ask
  BY <1>7, AskKeeps
<1>8. CASE Read
  BY <1>8, ReadKeeps
<1>9. CASE ReadEnd
  <2>1. Finish \/ Raise("transport error")
    BY <1>9 DEF ReadEnd
  <2> QED
    BY <2>1, FinishKeeps, LeaveKeeps DEF Raise
<1>10. CASE TimeOut
  BY <1>10, LeaveKeeps DEF TimeOut, Raise
<1>11. CASE UNCHANGED vars
  BY <1>11 DEF vars, clientVars, RolloutInv, AcceptorsAgree, Left
<1> QED
  BY <1>1, <1>2, <1>3, <1>4, <1>5, <1>6, <1>7, <1>8, <1>9, <1>10, <1>11
     DEF Next, Serve, Consume

\* Whatever is sent, lost and read, the invariant holds.
LEMMA RolloutSafe == Spec => []RolloutInv
BY RolloutStart, RolloutStep, PTL DEF Spec

\* TraceAssembler takes every event that the server's accumulator let pass and
\* the SDK's models parse (TraceAssembler.add after EventAccumulator.accept);
\* these refuse a done event whose summary is missing or extended, and no
\* other.  For any engine, any number of branches and tokens and any break of
\* the connection.
THEOREM AcceptorsNeverDisagree == Spec => []AcceptorsAgree
<1>1. RolloutInv => AcceptorsAgree
  BY DEF RolloutInv
<1> QED
  BY <1>1, RolloutSafe, PTL

\* The samples and preference pairs of a finished trace follow each branch's
\* lineage, and their text is what the engine generated along it.
THEOREM ExportsAreFaithful == Spec => []ExportsFaithful
<1>1. RolloutInv => ExportsFaithful
  <2> SUFFICES ASSUME RolloutInv, trace.done PROVE ExportsFaithful
    BY DEF ExportsFaithful
  <2>1. Going(trace, stream, server, wire) /\ trace.done = TRUE
    BY DEF RolloutInv
  <2>2. Lineages(trace, stream)
    BY <2>1, GoingDone
  <2> QED
    BY <2>2, Zenon DEF Lineages, ExportsFaithful
<1> QED
  BY <1>1, RolloutSafe, PTL

\* rollout keeps only whole trees: a step that adds one to its list has the
\* branches, parents and tokens the server accepted up to the done event.
THEOREM KeptTreesAreWhole == Spec => OnlyWholeTrees
<1>1. RolloutInv /\ [Next]_vars => (trees' # trees => SameTree(trace, stream))
  <2> SUFFICES ASSUME RolloutInv, [Next]_vars, trees' # trees PROVE SameTree(trace, stream)
    OBVIOUS
  <2>1. Finish
    BY DEF Next, Serve, Consume, DemoYields, AnyYields, EngineEnds, OutOfPages, EngineFails,
           Send, Close, Cut, LoseConnection, Ask, Read, ReadEnd, TimeOut, Raise, Leave,
           vars, clientVars
  <2>2. trace.done
    BY <2>1 DEF Finish, Missing, Raise, Complete
  <2>3. Going(trace, stream, server, wire) /\ trace.done = TRUE
    BY <2>2 DEF RolloutInv
  <2> QED
    BY <2>3, GoingDone
<1>2. RolloutInv /\ [Next]_vars => [trees' # trees => SameTree(trace, stream)]_vars
  BY <1>1
<1>3. Spec => [][trees' # trees => SameTree(trace, stream)]_vars
  BY <1>2, RolloutSafe, PTL DEF Spec
<1> QED
  BY <1>3 DEF OnlyWholeTrees, SameTree

-----------------------------------------------------------------------------
(* The script of the deterministic engine.                                 *)

\* The places in samples that hold a token, in the order of the turns.
Tokens(samples) == {p \in (1 .. MaxTokens) \X DOMAIN samples : p[1] <= Len(samples[p[2]])}

EarlierTurn(p, q) == p[1] < q[1] \/ (p[1] = q[1] /\ p[2] < q[2])

TokenAt(samples, p) == TokenEvent(p[2], p[1] - 1, samples[p[2]][p[1]])

\* t lists the places in that order.
Turns(t, samples) ==
  LET total == Cardinality(Tokens(samples))
  IN /\ total \in Nat
     /\ \A j \in 1 .. total : t[j] \in Tokens(samples)
     /\ \A p \in Tokens(samples) : \E j \in 1 .. total : t[j] = p
     /\ \A i, j \in 1 .. total : i < j => EarlierTurn(t[i], t[j])
     /\ InTurns(samples) = [j \in 1 .. total |-> TokenAt(samples, t[j])]

LEMMA TokensFinite ==
  ASSUME NEW n \in Nat, NEW samples, DOMAIN samples = 0 .. n - 1
  PROVE  IsFiniteSet(Tokens(samples)) /\ Cardinality(Tokens(samples)) \in Nat
<1>1. IsFiniteSet(1 .. MaxTokens)
  BY RolloutAssumption, FS_Interval
<1>2. IsFiniteSet(0 .. n - 1)
  BY FS_Interval
<1>3. IsFiniteSet((1 .. MaxTokens) \X DOMAIN samples)
  BY <1>1, <1>2, FS_Product
<1>4. Tokens(samples) \subseteq (1 .. MaxTokens) \X DOMAIN samples
  BY DEF Tokens
<1> QED
  BY <1>3, <1>4, FS_Subset, FS_CardinalityType

LEMMA TurnsExist ==
  ASSUME NEW n \in Nat, NEW samples, DOMAIN samples = 0 .. n - 1
  PROVE  \E t : Turns(t, samples)
<1> DEFINE P == Tokens(samples)
           R == {pair \in P \X P : EarlierTurn(pair[1], pair[2])}
<1>1. \A p, q \in P : <<p, q>> \in R <=> EarlierTurn(p, q)
  OBVIOUS
<1>2. \A p \in P : /\ p[1] \in Int /\ p[2] \in Int /\ p = <<p[1], p[2]>>
  BY RolloutAssumption DEF Tokens
<1> HIDE DEF R, P
<1>3. StrictOrder(R, P)
  <2>1. \A p \in P : <<p, p>> \notin R
    BY <1>1, <1>2 DEF EarlierTurn
  <2>2. \A p, q \in P : p # q => <<p, q>> \in R \/ <<q, p>> \in R
    <3> TAKE p, q \in P
    <3> HAVE p # q
    <3>1. p[1] # q[1] \/ p[2] # q[2]
      BY <1>2
    <3> QED
      BY <1>1, <1>2, <3>1 DEF EarlierTurn
  <2>3. \A p, q, r \in P : <<p, q>> \in R /\ <<q, r>> \in R => <<p, r>> \in R
    BY <1>1, <1>2 DEF EarlierTurn
  <2> QED
    BY <2>1, <2>2, <2>3 DEF StrictOrder
<1>4. IsFiniteSet(P)
  BY TokensFinite DEF P
<1>5. PICK t : Ordered(t, R, P)
  BY <1>3, <1>4, InOrder
<1> DEFINE N == Cardinality(P)
           turn(j) == CHOOSE p \in P : Cardinality({q \in P : EarlierTurn(q, p)}) = j - 1
<1>6. \A p \in P : Below(R, P, p) = {q \in P : EarlierTurn(q, p)}
  BY <1>1 DEF Below
<1>7. ASSUME NEW j \in 1 .. N PROVE turn(j) = t[j]
  <2>1. turn(j) = CHOOSE p \in P : Cardinality(Below(R, P, p)) = j - 1
    BY <1>6, Zenon
  <2> QED
    BY <1>5, <2>1, Zenon DEF Ordered
<1>8. InTurns(samples) = [j \in 1 .. N |-> TokenAt(samples, turn(j))]
  BY Zenon DEF InTurns, TokenAt, EarlierTurn, P, Tokens
<1>9. InTurns(samples) = [j \in 1 .. N |-> TokenAt(samples, t[j])]
  <2> HIDE DEF turn
  <2> QED
    BY <1>7, <1>8, Zenon
<1>10. \A i, j \in 1 .. N : i < j => EarlierTurn(t[i], t[j])
  <2>1. \A j \in 1 .. N : t[j] \in P
    BY <1>5 DEF Ordered
  <2>2. \A i, j \in 1 .. N : i < j => <<t[i], t[j]>> \in R
    BY <1>5 DEF Ordered
  <2> QED
    BY <1>1, <2>1, <2>2
<1>11. N \in Nat /\ (\A j \in 1 .. N : t[j] \in P) /\ \A p \in P : \E j \in 1 .. N : t[j] = p
  BY <1>5 DEF Ordered
<1> QED
  BY <1>9, <1>10, <1>11, Zenon DEF Turns, P

\* The branch that ends jth is not the winner.
Loser(winner, j) == IF j <= winner THEN j - 1 ELSE j

Ending(n, winner, j) ==
  IF Merges(n, j) THEN MergedInto(Loser(winner, j), winner) ELSE Pruned(Loser(winner, j))

\* The events of the script d, place by place.
ScriptIs(d, n, samples, winner, t) ==
  LET total == Cardinality(Tokens(samples))
  IN /\ IsSeq(d) /\ Len(d) = n + total + n
     /\ \A i \in 1 .. n : d[i] = Started(i - 1, NoBranch)
     /\ \A j \in 1 .. total : d[n + j] = TokenAt(samples, t[j])
     /\ \A j \in 1 .. n - 1 : d[n + total + j] = Ending(n, winner, j)
     /\ d[n + total + n] = DemoDone(samples, winner)

LEMMA CardinalityBelow ==
  ASSUME NEW n \in Nat \ {0}
  PROVE  Cardinality(0 .. n - 1) = n
<1>1. 0 \in Int /\ n - 1 \in Int
  OBVIOUS
<1>2. Cardinality(0 .. n - 1) = IF 0 > n - 1 THEN 0 ELSE (n - 1) - 0 + 1
  BY <1>1, FS_Interval
<1> QED
  BY <1>2

LEMMA DemoScriptIs ==
  ASSUME NEW n \in Nat \ {0}, NEW samples, DOMAIN samples = 0 .. n - 1, NEW winner,
         NEW t, Turns(t, samples)
  PROVE  ScriptIs(DemoScript(samples, winner), n, samples, winner, t)
<1>1. Cardinality(DOMAIN samples) = n
  BY CardinalityBelow
<1> DEFINE T == Cardinality(Tokens(samples))
           A == [i \in 1 .. n |-> Started(i - 1, NoBranch)]
           B == [j \in 1 .. T |-> TokenAt(samples, t[j])]
           C == [j \in 1 .. n - 1 |-> Ending(n, winner, j)]
           x == DemoDone(samples, winner)
           D == <<x>>
<1>2. DemoScript(samples, winner) = A \o B \o C \o D
  <2>1. InTurns(samples) = B
    BY DEF Turns
  <2> QED
    BY <1>1, <2>1, Zenon DEF DemoScript, Ending, Loser
<1>3. T \in Nat
  BY DEF Turns
<1> HIDE DEF T
<1>4. /\ IsSeq(A) /\ Len(A) = n /\ \A i \in 1 .. n : A[i] = Started(i - 1, NoBranch)
  <2>1. \A i \in 1 .. n : A[i] = Started(i - 1, NoBranch)
    OBVIOUS
  <2>2. A = [i \in 1 .. n |-> A[i]]
    OBVIOUS
  <2> HIDE DEF A
  <2>3. IsSeq([i \in 1 .. n |-> A[i]]) /\ Len([i \in 1 .. n |-> A[i]]) = n
    BY SeqMade
  <2> QED
    BY <2>1, <2>2, <2>3, Zenon
<1>5. /\ IsSeq(B) /\ Len(B) = T /\ \A j \in 1 .. T : B[j] = TokenAt(samples, t[j])
  <2>1. \A j \in 1 .. T : B[j] = TokenAt(samples, t[j])
    OBVIOUS
  <2>2. B = [j \in 1 .. T |-> B[j]]
    OBVIOUS
  <2> HIDE DEF B
  <2>3. IsSeq([j \in 1 .. T |-> B[j]]) /\ Len([j \in 1 .. T |-> B[j]]) = T
    BY <1>3, SeqMade
  <2> QED
    BY <2>1, <2>2, <2>3, Zenon
<1>6. /\ IsSeq(C) /\ Len(C) = n - 1 /\ \A j \in 1 .. n - 1 : C[j] = Ending(n, winner, j)
  <2>1. \A j \in 1 .. n - 1 : C[j] = Ending(n, winner, j)
    OBVIOUS
  <2>2. C = [j \in 1 .. n - 1 |-> C[j]] /\ n - 1 \in Nat
    OBVIOUS
  <2> HIDE DEF C
  <2>3. IsSeq([j \in 1 .. n - 1 |-> C[j]]) /\ Len([j \in 1 .. n - 1 |-> C[j]]) = n - 1
    BY <2>2, SeqMade
  <2> QED
    BY <2>1, <2>2, <2>3, Zenon
<1> HIDE DEF x
<1>7. IsSeq(D) /\ Len(D) = 1 /\ D[1] = x
  <2>1. D \in Seq({x})
    OBVIOUS
  <2> QED
    BY <2>1 DEF IsSeq
<1> HIDE DEF A, B, C, D
<1> DEFINE AB == A \o B
           ABC == AB \o C
           d == ABC \o D
<1>8. /\ IsSeq(AB) /\ Len(AB) = n + T
      /\ \A i \in 1 .. n + T : AB[i] = IF i <= n THEN A[i] ELSE B[i - n]
  BY <1>4, <1>5, SeqJoined
<1> HIDE DEF AB
<1>9. /\ IsSeq(ABC) /\ Len(ABC) = n + T + (n - 1)
      /\ \A i \in 1 .. n + T + (n - 1) : ABC[i] = IF i <= n + T THEN AB[i] ELSE C[i - (n + T)]
  <2>1. /\ IsSeq(ABC) /\ Len(ABC) = Len(AB) + Len(C)
        /\ \A i \in 1 .. Len(AB) + Len(C) :
             ABC[i] = IF i <= Len(AB) THEN AB[i] ELSE C[i - Len(AB)]
    BY <1>6, <1>8, SeqJoined
  <2> HIDE DEF ABC
  <2> QED
    BY <1>6, <1>8, <2>1
<1> HIDE DEF ABC
<1>10. /\ IsSeq(d) /\ Len(d) = n + T + (n - 1) + 1
       /\ \A i \in 1 .. n + T + (n - 1) + 1 :
            d[i] = IF i <= n + T + (n - 1) THEN ABC[i] ELSE D[i - (n + T + (n - 1))]
  <2>1. /\ IsSeq(d) /\ Len(d) = Len(ABC) + Len(D)
        /\ \A i \in 1 .. Len(ABC) + Len(D) :
             d[i] = IF i <= Len(ABC) THEN ABC[i] ELSE D[i - Len(ABC)]
    BY <1>7, <1>9, SeqJoined
  <2> HIDE DEF d
  <2> QED
    BY <1>7, <1>9, <2>1
<1>11. d = DemoScript(samples, winner)
  BY <1>2 DEF ABC, AB
<1> HIDE DEF d
<1>12. \A i \in 1 .. n : d[i] = Started(i - 1, NoBranch)
  <2> TAKE i \in 1 .. n
  <2>1. /\ i \in 1 .. n + T + (n - 1) + 1 /\ i <= n + T + (n - 1) /\ i <= n + T
        /\ i \in 1 .. n + T + (n - 1) /\ i \in 1 .. n + T /\ i <= n
    BY <1>3
  <2>2. d[i] = A[i]
    BY <1>8, <1>9, <1>10, <2>1
  <2> QED
    BY <1>4, <2>2
<1>13. \A j \in 1 .. T : d[n + j] = TokenAt(samples, t[j])
  <2> TAKE j \in 1 .. T
  <2>1. /\ n + j \in 1 .. n + T + (n - 1) + 1 /\ n + j <= n + T + (n - 1) /\ n + j <= n + T
        /\ n + j \in 1 .. n + T + (n - 1) /\ n + j \in 1 .. n + T /\ ~(n + j <= n)
        /\ (n + j) - n = j
    BY <1>3
  <2>2. d[n + j] = B[j]
    BY <1>8, <1>9, <1>10, <2>1
  <2> QED
    BY <1>5, <2>2
<1>14. \A j \in 1 .. n - 1 : d[n + T + j] = Ending(n, winner, j)
  <2> TAKE j \in 1 .. n - 1
  <2>1. /\ n + T + j \in 1 .. n + T + (n - 1) + 1 /\ n + T + j <= n + T + (n - 1)
        /\ n + T + j \in 1 .. n + T + (n - 1) /\ ~(n + T + j <= n + T)
        /\ (n + T + j) - (n + T) = j
    BY <1>3
  <2>2. d[n + T + j] = C[j]
    BY <1>9, <1>10, <2>1
  <2> QED
    BY <1>6, <2>2
<1>15. d[n + T + n] = x
  <2>1. /\ n + T + n \in 1 .. n + T + (n - 1) + 1 /\ ~(n + T + n <= n + T + (n - 1))
        /\ (n + T + n) - (n + T + (n - 1)) = 1
    BY <1>3
  <2> QED
    BY <1>7, <1>10, <2>1
<1>16. Len(d) = n + T + n
  BY <1>3, <1>10
<1> QED
  BY <1>10, <1>11, <1>12, <1>13, <1>14, <1>15, <1>16 DEF ScriptIs, T, x

-----------------------------------------------------------------------------
(* The accumulator, after some of its events.                              *)

Roots(k) == [b \in 0 .. k - 1 |-> NoBranch]
Blank(k) == [b \in 0 .. k - 1 |-> <<>>]

\* k branches have started.
Starting(z, k) == z = StreamOf(Roots(k), Blank(k), {}, 0, 0, Open)

\* Each branch has as many of its tokens as the first j places hold.
Received(c, samples, t, j) ==
  /\ IsFcn(c) /\ DOMAIN c = DOMAIN samples
  /\ \A b \in DOMAIN samples : \E l \in 0 .. Len(samples[b]) :
       /\ IsSeq(c[b]) /\ Len(c[b]) = l /\ \A i \in 1 .. l : c[b][i] = samples[b][i]
       /\ \A i \in 1 .. Len(samples[b]) : i <= l <=> \E h \in 1 .. j : t[h] = <<i, b>>

Turning(z, n, samples, t, j) ==
  \E c : z = StreamOf(Roots(n), c, {}, 0, 0, Open) /\ Received(c, samples, t, j)

\* j branches have ended.
Losers(winner, j) == {Loser(winner, i) : i \in 1 .. j}

PrunedOf(n, j) == Cardinality({i \in 1 .. j : ~Merges(n, i)})
MergedOf(n, j) == Cardinality({i \in 1 .. j : Merges(n, i)})

Closing(z, n, samples, winner, j) ==
  z = StreamOf(Roots(n), samples, Losers(winner, j), PrunedOf(n, j), MergedOf(n, j), Open)

\* Samples as they are drawn: each a sequence.
Drawn(samples, n) ==
  /\ IsFcn(samples) /\ DOMAIN samples = 0 .. n - 1
  /\ \A b \in 0 .. n - 1 : IsSeq(samples[b]) /\ Len(samples[b]) \in 0 .. MaxTokens

LEMMA StreamFields ==
  ASSUME NEW p, NEW k, NEW t, NEW n, NEW m, NEW f, NEW s, s = StreamOf(p, k, t, n, m, f)
  PROVE  /\ s.parents = p /\ s.tokens = k /\ s.terminal = t /\ s.pruned = n /\ s.merged = m
         /\ s.finished = f /\ s.error = FALSE
BY DEF StreamOf

LEMMA StartStep ==
  ASSUME NEW k \in Nat, NEW z, Starting(z, k)
  PROVE  Starting(Accept(z, Started(k, NoBranch)), k + 1)
<1> DEFINE e == Started(k, NoBranch)
<1>1. e.type = "branch_started" /\ e.branch = k /\ e.parent = NoBranch
  BY DEF Started
<1>2. Event(e)
  BY DEF Event, EventTypes, Started, NoBranch
<1> HIDE DEF e
<1>3. IsFcn(Roots(k)) /\ IsFcn(Blank(k)) /\ DOMAIN Roots(k) = 0 .. k - 1
      /\ DOMAIN Blank(k) = 0 .. k - 1
  BY DEF IsFcn, Roots, Blank
<1>4. k \notin 0 .. k - 1
  OBVIOUS
<1>5. Accepts(z, e)
  <2>1. z.parents = Roots(k) /\ z.finished = FALSE
    BY DEF Starting, StreamOf, Open
  <2>2. StartedIn(z) = 0 .. k - 1
    BY <1>3, <2>1 DEF StartedIn
  <2> QED
    BY <1>1, <1>4, <2>1, <2>2 DEF Accepts
<1>6. z = StreamOf(Roots(k), Blank(k), {}, 0, 0, Open) /\ Open \in BOOLEAN
  BY DEF Starting, Open
<1>7. Takes(z, e, Roots(k), Blank(k), {}, 0, 0, Open)
  BY <1>2, <1>3, <1>5, <1>6, AcceptIs
<1>8. Accept(z, e) = StreamOf(Entered(Roots(k), k, NoBranch), Entered(Blank(k), k, <<>>),
                              {}, 0, 0, Open)
  BY <1>1, <1>7 DEF Takes
<1>9. 0 .. (k + 1) - 1 = (0 .. k - 1) \cup {k}
  OBVIOUS
<1>10. Entered(Roots(k), k, NoBranch) = Roots(k + 1)
  BY <1>3, <1>9 DEF Entered, Roots
<1>11. Entered(Blank(k), k, <<>>) = Blank(k + 1)
  BY <1>3, <1>9 DEF Entered, Blank
<1> QED
  BY <1>8, <1>10, <1>11 DEF Starting, e

LEMMA TurningBegins ==
  ASSUME NEW n \in Nat, NEW samples, Drawn(samples, n), NEW t, NEW z, Starting(z, n)
  PROVE  Turning(z, n, samples, t, 0)
<1> DEFINE c == Blank(n)
<1>1. IsFcn(c) /\ DOMAIN c = 0 .. n - 1 /\ \A b \in 0 .. n - 1 : c[b] = <<>>
  BY DEF Blank, IsFcn
<1> HIDE DEF c
<1>2. ASSUME NEW b \in DOMAIN samples
      PROVE  \E l \in 0 .. Len(samples[b]) :
               /\ IsSeq(c[b]) /\ Len(c[b]) = l /\ \A i \in 1 .. l : c[b][i] = samples[b][i]
               /\ \A i \in 1 .. Len(samples[b]) : i <= l <=> \E h \in 1 .. 0 : t[h] = <<i, b>>
  <2>1. c[b] = <<>> /\ Len(samples[b]) \in Nat
    BY <1>1, RolloutAssumption DEF Drawn
  <2>2. IsSeq(c[b]) /\ Len(c[b]) = 0
    BY <2>1, SeqEmpty
  <2>3. 0 \in 0 .. Len(samples[b]) /\ 1 .. 0 = {}
    BY <2>1
  <2>4. \A i \in 1 .. Len(samples[b]) : ~(i <= 0)
    BY <2>1
  <2> WITNESS 0 \in 0 .. Len(samples[b])
  <2> QED
    BY <2>2, <2>3, <2>4
<1>3. Received(c, samples, t, 0)
  BY <1>1, <1>2 DEF Received, Drawn
<1>4. z = StreamOf(Roots(n), c, {}, 0, 0, Open)
  BY DEF Starting, c
<1> QED
  BY <1>3, <1>4 DEF Turning

\* The place that comes next holds the next token of its branch.
LEMMA NextIndex ==
  ASSUME NEW n \in Nat, NEW samples, Drawn(samples, n), NEW t, Turns(t, samples),
         NEW j \in Nat, j + 1 \in 1 .. Cardinality(Tokens(samples)),
         NEW c, Received(c, samples, t, j)
  PROVE  LET i == t[j + 1][1]
             b == t[j + 1][2]
         IN /\ b \in DOMAIN samples /\ i \in 1 .. Len(samples[b]) /\ t[j + 1] = <<i, b>>
            /\ IsSeq(c[b]) /\ Len(c[b]) = i - 1
<1> DEFINE i == t[j + 1][1]
           b == t[j + 1][2]
           N == Cardinality(Tokens(samples))
<1>1. t[j + 1] \in Tokens(samples) /\ N \in Nat
  BY DEF Turns
<1>2. /\ b \in DOMAIN samples /\ i \in 1 .. MaxTokens /\ i <= Len(samples[b])
      /\ t[j + 1] = <<i, b>>
  BY <1>1 DEF Tokens
<1>3. Len(samples[b]) \in Nat /\ MaxTokens \in Nat
  BY <1>2, RolloutAssumption DEF Drawn
<1>4. i \in 1 .. Len(samples[b]) /\ i \in Nat /\ b \in Int
  BY <1>2, <1>3 DEF Drawn
<1>5. PICK l \in 0 .. Len(samples[b]) :
        /\ IsSeq(c[b]) /\ Len(c[b]) = l
        /\ \A k \in 1 .. Len(samples[b]) : k <= l <=> \E h \in 1 .. j : t[h] = <<k, b>>
  BY <1>2 DEF Received
<1>6. \A g, h \in 1 .. N : g < h => EarlierTurn(t[g], t[h])
  BY DEF Turns
<1> HIDE DEF i, b, N
<1>7. ~(i <= l)
  <2> SUFFICES ASSUME i <= l PROVE FALSE
    OBVIOUS
  <2>1. PICK h \in 1 .. j : t[h] = <<i, b>>
    BY <1>4, <1>5
  <2>2. h \in 1 .. N /\ j + 1 \in 1 .. N /\ h < j + 1
    BY <1>1 DEF N
  <2>3. EarlierTurn(<<i, b>>, <<i, b>>)
    BY <1>2, <1>6, <2>1, <2>2
  <2> QED
    BY <1>4, <2>3 DEF EarlierTurn
<1>8. ASSUME NEW k \in 1 .. Len(samples[b]), k < i PROVE k <= l
  <2>1. <<k, b>> \in Tokens(samples)
    <3>1. k \in 1 .. MaxTokens
      BY <1>2, <1>3, <1>8
    <3> QED
      BY <1>2, <1>3, <3>1 DEF Tokens
  <2>2. PICK h \in 1 .. N : t[h] = <<k, b>>
    BY <2>1 DEF Turns, N
  <2>3. ~(j + 1 <= h)
    <3> SUFFICES ASSUME j + 1 <= h PROVE FALSE
      OBVIOUS
    <3>1. CASE j + 1 = h
      BY <1>2, <1>8, <2>2, <3>1
    <3>2. CASE j + 1 < h
      <4>1. EarlierTurn(<<i, b>>, <<k, b>>)
        BY <1>2, <1>6, <2>2, <3>2 DEF N
      <4> QED
        BY <1>4, <1>8, <4>1 DEF EarlierTurn
    <3> QED
      BY <1>1, <3>1, <3>2
  <2>4. h \in 1 .. j
    BY <1>1, <2>3
  <2> QED
    BY <1>5, <2>2, <2>4
<1>9. l = i - 1
  <2>1. CASE i = 1
    BY <1>3, <1>4, <1>7, <2>1
  <2>2. CASE i # 1
    <3>1. i - 1 \in 1 .. Len(samples[b]) /\ i - 1 < i
      BY <1>3, <1>4, <2>2
    <3>2. i - 1 <= l
      BY <1>8, <3>1
    <3> QED
      BY <1>3, <1>4, <1>7, <3>2
  <2> QED
    BY <2>1, <2>2
<1> QED
  BY <1>2, <1>4, <1>5, <1>9 DEF i, b

LEMMA TurnStep ==
  ASSUME NEW n \in Nat, NEW samples, Drawn(samples, n), NEW t, Turns(t, samples),
         NEW j \in Nat, j + 1 \in 1 .. Cardinality(Tokens(samples)),
         NEW z, Turning(z, n, samples, t, j)
  PROVE  Turning(Accept(z, TokenAt(samples, t[j + 1])), n, samples, t, j + 1)
<1> DEFINE e == TokenAt(samples, t[j + 1])
           i == t[j + 1][1]
           b == t[j + 1][2]
<1>1. PICK c : z = StreamOf(Roots(n), c, {}, 0, 0, Open) /\ Received(c, samples, t, j)
  BY DEF Turning
<1>2. /\ b \in DOMAIN samples /\ i \in 1 .. Len(samples[b]) /\ t[j + 1] = <<i, b>>
      /\ IsSeq(c[b]) /\ Len(c[b]) = i - 1
  BY <1>1, NextIndex
<1>3. /\ e.type = "token" /\ e.branch = b /\ e.index = i - 1 /\ e.token = samples[b][i]
      /\ Event(e)
  BY DEF TokenAt, TokenEvent, Event, EventTypes
<1>4. /\ IsFcn(Roots(n)) /\ DOMAIN Roots(n) = 0 .. n - 1 /\ IsFcn(c)
      /\ DOMAIN c = 0 .. n - 1 /\ DOMAIN samples = 0 .. n - 1
  BY <1>1 DEF IsFcn, Roots, Received, Drawn
<1> HIDE DEF e, i, b
<1>5. Accepts(z, e)
  BY <1>1, <1>2, <1>3, <1>4, StreamFields DEF Accepts, Terminable, StartedIn, Open
<1>6. Open \in BOOLEAN
  BY DEF Open
<1>7. Takes(z, e, Roots(n), c, {}, 0, 0, Open)
  BY <1>1, <1>3, <1>4, <1>5, <1>6, AcceptIs
<1> DEFINE d == Entered(c, b, Append(c[b], samples[b][i]))
<1>8. Accept(z, e) = StreamOf(Roots(n), d, {}, 0, 0, Open)
  BY <1>3, <1>7 DEF Takes
<1>9. /\ IsFcn(d) /\ DOMAIN d = DOMAIN samples
      /\ d[b] = Append(c[b], samples[b][i])
      /\ \A a \in DOMAIN samples : a # b => d[a] = c[a]
  BY <1>2, <1>4 DEF Entered, IsFcn
<1> HIDE DEF d
<1>10. ASSUME NEW a \in DOMAIN samples
       PROVE  \E l \in 0 .. Len(samples[a]) :
                /\ IsSeq(d[a]) /\ Len(d[a]) = l /\ \A k \in 1 .. l : d[a][k] = samples[a][k]
                /\ \A k \in 1 .. Len(samples[a]) :
                     k <= l <=> \E h \in 1 .. j + 1 : t[h] = <<k, a>>
  <2>1. PICK l \in 0 .. Len(samples[a]) :
          /\ IsSeq(c[a]) /\ Len(c[a]) = l /\ \A k \in 1 .. l : c[a][k] = samples[a][k]
          /\ \A k \in 1 .. Len(samples[a]) : k <= l <=> \E h \in 1 .. j : t[h] = <<k, a>>
    BY <1>1 DEF Received
  <2>2. Len(samples[a]) \in Nat
    BY <1>4, RolloutAssumption DEF Drawn
  <2>3. \A k : (\E h \in 1 .. j + 1 : t[h] = <<k, a>>)
               <=> (\E h \in 1 .. j : t[h] = <<k, a>>) \/ t[j + 1] = <<k, a>>
    <3>1. 1 .. j + 1 = (1 .. j) \cup {j + 1}
      OBVIOUS
    <3> QED
      BY <3>1
  <2>4. CASE a # b
    <3>1. \A k : t[j + 1] # <<k, a>>
      BY <1>2, <2>4
    <3>2. d[a] = c[a]
      BY <1>9, <2>4
    <3> QED
      BY <2>1, <2>3, <3>1, <3>2
  <2>5. CASE a = b
    <3>1. l = i - 1 /\ i \in 1 .. Len(samples[a]) /\ i \in 0 .. Len(samples[a])
      BY <1>2, <2>1, <2>2, <2>5
    <3>2. /\ IsSeq(d[a]) /\ Len(d[a]) = i
          /\ \A k \in 1 .. l : d[a][k] = c[a][k]
          /\ d[a][i] = samples[a][i]
      <4>1. d[a] = Append(c[a], samples[a][i]) /\ IsSeq(c[a]) /\ Len(c[a]) = i - 1
        BY <1>2, <1>9, <2>5
      <4> DEFINE q == c[a]
                 x == samples[a][i]
      <4>2. /\ IsSeq(Append(q, x)) /\ Len(Append(q, x)) = Len(q) + 1
            /\ \A k \in 1 .. Len(q) : Append(q, x)[k] = q[k]
            /\ Append(q, x)[Len(q) + 1] = x
        BY <4>1, SeqLonger
      <4>3. (i - 1) + 1 = i
        BY <2>2, <3>1
      <4> QED
        BY <2>1, <3>1, <4>1, <4>2, <4>3
    <3>3. \A k \in 1 .. i : d[a][k] = samples[a][k]
      <4> TAKE k \in 1 .. i
      <4>1. k \in 1 .. l \/ k = i
        BY <2>2, <3>1
      <4> QED
        BY <2>1, <3>2, <4>1
    <3>4. \A k \in 1 .. Len(samples[a]) : k <= i <=> \E h \in 1 .. j + 1 : t[h] = <<k, a>>
      <4> TAKE k \in 1 .. Len(samples[a])
      <4>1. k <= i <=> k <= l \/ k = i
        BY <2>2, <3>1
      <4>2. t[j + 1] = <<k, a>> <=> k = i
        BY <1>2, <2>5
      <4>3. k <= l <=> \E h \in 1 .. j : t[h] = <<k, a>>
        BY <2>1
      <4> QED
        BY <2>3, <4>1, <4>2, <4>3
    <3> QED
      BY <3>1, <3>2, <3>3, <3>4
  <2> QED
    BY <2>4, <2>5
<1>11. Received(d, samples, t, j + 1)
  BY <1>9, <1>10 DEF Received
<1> QED
  BY <1>8, <1>11 DEF Turning, e

\* When every place was read, each branch has all its tokens.
LEMMA ClosingBegins ==
  ASSUME NEW n \in Nat, NEW samples, Drawn(samples, n), NEW t, Turns(t, samples),
         NEW winner, NEW z, Turning(z, n, samples, t, Cardinality(Tokens(samples)))
  PROVE  Closing(z, n, samples, winner, 0)
<1> DEFINE N == Cardinality(Tokens(samples))
<1>1. PICK c : z = StreamOf(Roots(n), c, {}, 0, 0, Open) /\ Received(c, samples, t, N)
  BY DEF Turning
<1>2. DOMAIN samples = 0 .. n - 1 /\ IsFcn(samples) /\ IsFcn(c) /\ DOMAIN c = 0 .. n - 1
  BY <1>1 DEF Drawn, Received
<1>3. ASSUME NEW b \in 0 .. n - 1 PROVE c[b] = samples[b]
  <2>1. IsSeq(samples[b]) /\ Len(samples[b]) \in Nat /\ Len(samples[b]) <= MaxTokens
    BY RolloutAssumption DEF Drawn
  <2>2. PICK l \in 0 .. Len(samples[b]) :
          /\ IsSeq(c[b]) /\ Len(c[b]) = l /\ \A i \in 1 .. l : c[b][i] = samples[b][i]
          /\ \A i \in 1 .. Len(samples[b]) : i <= l <=> \E h \in 1 .. N : t[h] = <<i, b>>
    BY <1>1, <1>2 DEF Received
  <2> HIDE DEF N
  <2>3. \A i \in 1 .. Len(samples[b]) : \E h \in 1 .. N : t[h] = <<i, b>>
    <3> TAKE i \in 1 .. Len(samples[b])
    <3>1. i \in 1 .. MaxTokens /\ i <= Len(samples[b])
      BY <2>1, RolloutAssumption
    <3>2. <<i, b>> \in Tokens(samples)
      BY <1>2, <3>1 DEF Tokens
    <3> QED
      BY <3>2 DEF Turns, N
  <2>4. l = Len(samples[b])
    <3>1. CASE Len(samples[b]) = 0
      BY <3>1
    <3>2. CASE Len(samples[b]) # 0
      <4>1. Len(samples[b]) \in 1 .. Len(samples[b])
        BY <2>1, <3>2
      <4>2. Len(samples[b]) <= l
        BY <2>2, <2>3, <4>1
      <4> QED
        BY <2>1, <4>2
    <3> QED
      BY <3>1, <3>2
  <2>5. PICK X : c[b] \in Seq(X)
    BY <2>2 DEF IsSeq
  <2>6. PICK Y : samples[b] \in Seq(Y)
    BY <2>1 DEF IsSeq
  <2> DEFINE p == c[b]
             q == samples[b]
  <2>7. p \in Seq(X \cup Y) /\ q \in Seq(X \cup Y) /\ Len(p) = Len(q)
        /\ \A i \in 1 .. Len(p) : p[i] = q[i]
    BY <2>2, <2>4, <2>5, <2>6
  <2> HIDE DEF p, q
  <2>8. p = q
    BY <2>7
  <2> QED
    BY <2>8 DEF p, q
<1>4. c = samples
  <2>1. c = [b \in 0 .. n - 1 |-> c[b]] /\ samples = [b \in 0 .. n - 1 |-> samples[b]]
    BY <1>2 DEF IsFcn
  <2> QED
    BY <1>3, <2>1
<1>5. Losers(winner, 0) = {} /\ PrunedOf(n, 0) = 0 /\ MergedOf(n, 0) = 0
  <2>1. 1 .. 0 = {}
    OBVIOUS
  <2>2. Losers(winner, 0) = {} /\ {i \in 1 .. 0 : ~Merges(n, i)} = {}
        /\ {i \in 1 .. 0 : Merges(n, i)} = {}
    BY <2>1 DEF Losers
  <2> QED
    BY <2>2, FS_EmptySet DEF PrunedOf, MergedOf
<1> QED
  BY <1>1, <1>4, <1>5 DEF Closing

\* The losers are the branches but the winner, each once.
LEMMA LosersAre ==
  ASSUME NEW n \in Nat \ {0}, NEW winner \in 0 .. n - 1
  PROVE  /\ \A j \in 1 .. n - 1 :
              /\ Loser(winner, j) \in 0 .. n - 1 /\ Loser(winner, j) # winner
              /\ Loser(winner, j) \notin Losers(winner, j - 1)
              /\ Losers(winner, j) = Losers(winner, j - 1) \cup {Loser(winner, j)}
              /\ winner \notin Losers(winner, j - 1)
         /\ winner \notin Losers(winner, n - 1)
         /\ Losers(winner, n - 1) \cup {winner} = 0 .. n - 1
<1>1. ASSUME NEW j \in Nat PROVE winner \notin Losers(winner, j)
  BY DEF Losers, Loser
<1>2. ASSUME NEW j \in 1 .. n - 1
      PROVE  /\ Loser(winner, j) \in 0 .. n - 1 /\ Loser(winner, j) # winner
             /\ Loser(winner, j) \notin Losers(winner, j - 1)
             /\ Losers(winner, j) = Losers(winner, j - 1) \cup {Loser(winner, j)}
             /\ winner \notin Losers(winner, j - 1)
  <2>1. Loser(winner, j) \in 0 .. n - 1 /\ Loser(winner, j) # winner
    BY DEF Loser
  <2>2. Loser(winner, j) \notin Losers(winner, j - 1)
    BY DEF Losers, Loser
  <2>3. 1 .. j = (1 .. j - 1) \cup {j}
    OBVIOUS
  <2>4. Losers(winner, j) = Losers(winner, j - 1) \cup {Loser(winner, j)}
    BY <2>3 DEF Losers
  <2>5. j - 1 \in Nat
    OBVIOUS
  <2> QED
    BY <1>1, <2>1, <2>2, <2>4, <2>5
<1>3. winner \notin Losers(winner, n - 1)
  BY <1>1
<1>4. Losers(winner, n - 1) \cup {winner} = 0 .. n - 1
  <2>1. \A b \in Losers(winner, n - 1) : b \in 0 .. n - 1
    BY <1>2 DEF Losers
  <2>2. ASSUME NEW b \in 0 .. n - 1, b # winner PROVE b \in Losers(winner, n - 1)
    <3>1. CASE b < winner
      <4>1. b + 1 \in 1 .. n - 1 /\ Loser(winner, b + 1) = b
        BY <3>1 DEF Loser
      <4> QED
        BY <4>1 DEF Losers
    <3>2. CASE b > winner
      <4>1. b \in 1 .. n - 1 /\ Loser(winner, b) = b
        BY <3>2 DEF Loser
      <4> QED
        BY <4>1 DEF Losers
    <3> QED
      BY <2>2, <3>1, <3>2
  <2> QED
    BY <2>1, <2>2
<1> QED
  BY <1>2, <1>3, <1>4

LEMMA Tally ==
  ASSUME NEW n, NEW j \in Nat
  PROVE  /\ Merges(n, j + 1) =>
              PrunedOf(n, j + 1) = PrunedOf(n, j) /\ MergedOf(n, j + 1) = MergedOf(n, j) + 1
         /\ ~Merges(n, j + 1) =>
              PrunedOf(n, j + 1) = PrunedOf(n, j) + 1 /\ MergedOf(n, j + 1) = MergedOf(n, j)
<1> DEFINE P(k) == {i \in 1 .. k : ~Merges(n, i)}
           M(k) == {i \in 1 .. k : Merges(n, i)}
<1>1. 1 .. j + 1 = (1 .. j) \cup {j + 1} /\ j + 1 \notin 1 .. j
  OBVIOUS
<1>2. IsFiniteSet(P(j)) /\ IsFiniteSet(M(j))
  <2>1. IsFiniteSet(1 .. j)
    BY FS_Interval
  <2> QED
    BY <2>1, FS_Subset
<1>3. CASE Merges(n, j + 1)
  <2>1. P(j + 1) = P(j) /\ M(j + 1) = M(j) \cup {j + 1} /\ j + 1 \notin M(j)
    BY <1>1, <1>3
  <2> HIDE DEF P, M
  <2>2. Cardinality(M(j + 1)) = Cardinality(M(j)) + 1
    BY <1>2, <2>1, FS_AddElement
  <2> QED
    BY <1>3, <2>1, <2>2 DEF P, M, PrunedOf, MergedOf
<1>4. CASE ~Merges(n, j + 1)
  <2>1. M(j + 1) = M(j) /\ P(j + 1) = P(j) \cup {j + 1} /\ j + 1 \notin P(j)
    BY <1>1, <1>4
  <2> HIDE DEF P, M
  <2>2. Cardinality(P(j + 1)) = Cardinality(P(j)) + 1
    BY <1>2, <2>1, FS_AddElement
  <2> QED
    BY <1>4, <2>1, <2>2 DEF P, M, PrunedOf, MergedOf
<1> QED
  BY <1>3, <1>4

LEMMA CloseStep ==
  ASSUME NEW n \in Nat \ {0}, NEW samples, Drawn(samples, n), NEW winner \in 0 .. n - 1,
         NEW j \in Nat, j + 1 \in 1 .. n - 1, NEW z, Closing(z, n, samples, winner, j)
  PROVE  Closing(Accept(z, Ending(n, winner, j + 1)), n, samples, winner, j + 1)
<1> DEFINE e == Ending(n, winner, j + 1)
           b == Loser(winner, j + 1)
           t == Losers(winner, j)
           u == Losers(winner, j + 1)
<1>1. /\ b \in 0 .. n - 1 /\ b # winner /\ b \notin t /\ u = t \cup {b} /\ winner \notin t
  <2>1. (j + 1) - 1 = j
    OBVIOUS
  <2> QED
    BY <2>1, LosersAre
<1>2. /\ e.branch = b /\ Event(e)
      /\ Merges(n, j + 1) => e.type = "branch_merged" /\ e.into = winner
      /\ ~Merges(n, j + 1) => e.type = "branch_pruned"
  BY DEF Ending, MergedInto, Pruned, Event, EventTypes
<1> HIDE DEF e, b, t, u
<1>3. /\ IsFcn(Roots(n)) /\ DOMAIN Roots(n) = 0 .. n - 1 /\ IsFcn(samples)
      /\ DOMAIN samples = 0 .. n - 1
  BY DEF IsFcn, Roots, Drawn
<1>4. z = StreamOf(Roots(n), samples, t, PrunedOf(n, j), MergedOf(n, j), Open)
  BY DEF Closing, t
<1>5. Accepts(z, e)
  <2>1. z.parents = Roots(n) /\ z.terminal = t /\ z.finished = FALSE
    BY <1>4 DEF StreamOf, Open
  <2>2. StartedIn(z) = 0 .. n - 1
    BY <1>3, <2>1 DEF StartedIn
  <2> QED
    BY <1>1, <1>2, <2>1, <2>2 DEF Accepts, Terminable
<1>6. Open \in BOOLEAN
  BY DEF Open
<1>7. Takes(z, e, Roots(n), samples, t, PrunedOf(n, j), MergedOf(n, j), Open)
  BY <1>2, <1>3, <1>4, <1>5, <1>6, AcceptIs
<1>8. CASE Merges(n, j + 1)
  <2>1. Accept(z, e) = StreamOf(Roots(n), samples, u, PrunedOf(n, j), MergedOf(n, j) + 1, Open)
    BY <1>1, <1>2, <1>7, <1>8 DEF Takes
  <2> QED
    BY <1>8, <2>1, Tally DEF Closing, e, u
<1>9. CASE ~Merges(n, j + 1)
  <2>1. Accept(z, e) = StreamOf(Roots(n), samples, u, PrunedOf(n, j) + 1, MergedOf(n, j), Open)
    BY <1>1, <1>2, <1>7, <1>9 DEF Takes
  <2> QED
    BY <1>9, <2>1, Tally DEF Closing, e, u
<1> QED
  BY <1>8, <1>9

\* Of roots the text is the tokens.
LEMMA RootText ==
  ASSUME NEW n \in Nat, NEW samples, Drawn(samples, n), NEW z, z.parents = Roots(n),
         z.tokens = samples, NEW b \in 0 .. n - 1
  PROVE  PathText(z, b) = samples[b]
<1>1. StartedIn(z) = 0 .. n - 1 /\ \A c \in 0 .. n - 1 : z.parents[c] = NoBranch
  BY DEF StartedIn, Roots
<1> DEFINE g == [c \in StartedIn(z) |-> <<>> \o z.tokens[c]]
           f == CHOOSE f : IsText(f, z)
<1>2. IsText(g, z)
  <2>1. \A c \in StartedIn(z) :
          g[c] = (IF z.parents[c] = NoBranch THEN <<>> ELSE g[z.parents[c]]) \o z.tokens[c]
    BY <1>1, Zenon
  <2>2. g = [c \in StartedIn(z) |-> g[c]]
    BY Zenon
  <2> HIDE DEF g
  <2> QED
    BY <2>1, <2>2, Zenon DEF IsText
<1> HIDE DEF g
<1>3. IsText(f, z)
  BY <1>2, Zenon
<1>4. PathText(z, b) = f[b]
  BY Zenon DEF PathText, IsText
<1> HIDE DEF f
<1>5. f[b] = (IF z.parents[b] = NoBranch THEN <<>> ELSE f[z.parents[b]]) \o z.tokens[b]
  BY <1>1, <1>3, Zenon DEF IsText
<1>6. f[b] = <<>> \o samples[b]
  BY <1>1, <1>5
<1>7. PICK X : samples[b] \in Seq(X)
  BY DEF Drawn, IsSeq
<1>8. <<>> \o samples[b] = samples[b]
  <2> DEFINE q == samples[b]
  <2>1. q \in Seq(X)
    BY <1>7
  <2> HIDE DEF q
  <2>2. <<>> \o q = q
    BY <2>1
  <2> QED
    BY <2>2 DEF q
<1> QED
  BY <1>4, <1>6, <1>8

\* The summary is what the accumulator counted.
LEMMA DoneStep ==
  ASSUME NEW n \in Nat \ {0}, NEW samples, Drawn(samples, n), NEW winner \in 0 .. n - 1,
         NEW z, Closing(z, n, samples, winner, n - 1)
  PROVE  Accept(z, DemoDone(samples, winner)).error = FALSE
<1> DEFINE e == DemoDone(samples, winner)
           total == SumFunctionOnSet(Spent(samples), DOMAIN samples)
           t == Losers(winner, n - 1)
<1>1. /\ IsFcn(Roots(n)) /\ DOMAIN Roots(n) = 0 .. n - 1 /\ IsFcn(samples)
      /\ DOMAIN samples = 0 .. n - 1 /\ Cardinality(DOMAIN samples) = n
  BY CardinalityBelow DEF IsFcn, Roots, Drawn
<1>2. z = StreamOf(Roots(n), samples, t, PrunedOf(n, n - 1), MergedOf(n, n - 1), Open)
  BY DEF Closing
<1>3. /\ e.type = "done" /\ e.branch = winner /\ e.text = samples[winner]
      /\ e.completion = total /\ e.branches = n
      /\ e.pruned = PrunedOf(n, n - 1) /\ e.merged = MergedOf(n, n - 1)
      /\ e.spent = Spent(samples) /\ e.reused = (n + total >= 1 + total)
      /\ e.summary = "plain"
  BY <1>1 DEF DemoDone, PrunedOf, MergedOf
<1>4. total \in Nat
  <2>1. IsFiniteSet(DOMAIN samples)
    BY <1>1, FS_Interval
  <2>2. \A b \in DOMAIN samples : Spent(samples)[b] \in Nat
    BY <1>1, RolloutAssumption DEF Drawn, Spent
  <2> QED
    BY <2>1, <2>2, SumNat
<1>5. winner \notin t /\ t \cup {winner} = 0 .. n - 1
  BY LosersAre
<1>6. /\ z.parents = Roots(n) /\ z.tokens = samples /\ z.terminal = t /\ z.finished = FALSE
      /\ z.error = FALSE /\ z.pruned = PrunedOf(n, n - 1) /\ z.merged = MergedOf(n, n - 1)
  BY <1>2 DEF StreamOf, Open
<1> HIDE DEF e, total, t
<1>7. StartedIn(z) = 0 .. n - 1
  BY <1>1, <1>6 DEF StartedIn
<1>8. SpentIn(z) = Spent(samples)
  BY <1>1, <1>6, <1>7 DEF SpentIn, Spent
<1>9. TokensIn(z) = total
  BY <1>1, <1>7, <1>8 DEF TokensIn, total
<1>10. PathText(z, winner) = samples[winner]
  BY <1>6, RootText
<1>11. e.reused
  <2>1. n + total >= 1 + total
    BY <1>4
  <2> QED
    BY <1>3, <2>1
<1>12. Accepts(z, e)
  BY <1>1, <1>3, <1>5, <1>6, <1>7, <1>8, <1>9, <1>10, <1>11
     DEF Accepts, SummaryFits, Terminable
<1>13. Accept(z, e) = [z EXCEPT !.terminal = @ \cup {e.branch}, !.finished = TRUE]
  BY <1>3, <1>6, <1>12 DEF Accept
<1>14. Accept(z, e).error = z.error
  BY <1>2, <1>13 DEF StreamOf
<1> QED
  BY <1>6, <1>14 DEF e

\* z is the accumulator after k events of the script.
Stage(z, n, samples, winner, t, k) ==
  LET total == Cardinality(Tokens(samples))
  IN /\ z.error = FALSE
     /\ k <= n => Starting(z, k)
     /\ k \in n .. n + total => Turning(z, n, samples, t, k - n)
     /\ k \in n + total .. n + total + n - 1 =>
          Closing(z, n, samples, winner, k - (n + total))

LEMMA StageStep ==
  ASSUME NEW n \in Nat \ {0}, NEW samples, Drawn(samples, n), NEW winner \in 0 .. n - 1,
         NEW t, Turns(t, samples), NEW d, ScriptIs(d, n, samples, winner, t),
         NEW k \in Nat, k < Len(d), NEW z, Stage(z, n, samples, winner, t, k)
  PROVE  Stage(Accept(z, d[k + 1]), n, samples, winner, t, k + 1)
<1> DEFINE T == Cardinality(Tokens(samples))
           y == Accept(z, d[k + 1])
<1>1. /\ T \in Nat /\ Len(d) = n + T + n
      /\ \A i \in 1 .. n : d[i] = Started(i - 1, NoBranch)
      /\ \A j \in 1 .. T : d[n + j] = TokenAt(samples, t[j])
      /\ \A j \in 1 .. n - 1 : d[n + T + j] = Ending(n, winner, j)
      /\ d[n + T + n] = DemoDone(samples, winner)
  BY DEF ScriptIs, Turns
<1>2. /\ k <= n => Starting(z, k)
      /\ k \in n .. n + T => Turning(z, n, samples, t, k - n)
      /\ k \in n + T .. n + T + n - 1 => Closing(z, n, samples, winner, k - (n + T))
  BY DEF Stage
<1>3. \A u, j : Turning(u, n, samples, t, j) => u.error = FALSE
  BY DEF Turning, StreamOf
<1>4. \A u, j : Closing(u, n, samples, winner, j) => u.error = FALSE
  BY DEF Closing, StreamOf
<1>5. \A u, j : Starting(u, j) => u.error = FALSE
  BY DEF Starting, StreamOf
<1>6. \A u : Turning(u, n, samples, t, T) => Closing(u, n, samples, winner, 0)
  BY ClosingBegins
<1>7. \A u : Starting(u, n) => Turning(u, n, samples, t, 0)
  BY TurningBegins
<1> HIDE DEF T, y
<1>8. CASE k < n
  <2>1. k + 1 \in 1 .. n /\ (k + 1) - 1 = k
    BY <1>8
  <2>2. d[k + 1] = Started(k, NoBranch)
    BY <1>1, <2>1
  <2>3. Starting(y, k + 1)
    BY <1>2, <1>8, <2>2, StartStep DEF y
  <2>4. k + 1 \in n .. n + T => Turning(y, n, samples, t, (k + 1) - n)
    <3> SUFFICES ASSUME k + 1 \in n .. n + T PROVE Turning(y, n, samples, t, (k + 1) - n)
      OBVIOUS
    <3>1. k + 1 = n /\ (k + 1) - n = 0
      BY <1>1, <2>1
    <3> QED
      BY <1>7, <2>3, <3>1
  <2>5. k + 1 \in n + T .. n + T + n - 1 => Closing(y, n, samples, winner, (k + 1) - (n + T))
    <3> SUFFICES ASSUME k + 1 \in n + T .. n + T + n - 1
                 PROVE  Closing(y, n, samples, winner, (k + 1) - (n + T))
      OBVIOUS
    <3>1. k + 1 = n /\ T = 0 /\ (k + 1) - (n + T) = 0
      BY <1>1, <2>1
    <3> QED
      BY <1>6, <1>7, <2>3, <3>1
  <2> QED
    BY <1>5, <2>3, <2>4, <2>5 DEF Stage, T, y
<1>9. CASE n <= k /\ k < n + T
  <2> DEFINE j == k - n
  <2>1. /\ j \in Nat /\ j + 1 \in 1 .. T /\ n + (j + 1) = k + 1 /\ (k + 1) - n = j + 1
        /\ k \in n .. n + T
    BY <1>1, <1>9
  <2>2. Turning(z, n, samples, t, j)
    BY <1>2, <2>1
  <2> HIDE DEF j
  <2>3. d[k + 1] = TokenAt(samples, t[j + 1])
    BY <1>1, <2>1
  <2>4. Turning(y, n, samples, t, j + 1)
    BY <2>1, <2>2, <2>3, TurnStep DEF T, y
  <2>5. ~(k + 1 <= n)
    BY <1>9
  <2>6. k + 1 \in n + T .. n + T + n - 1 => Closing(y, n, samples, winner, (k + 1) - (n + T))
    <3> SUFFICES ASSUME k + 1 \in n + T .. n + T + n - 1
                 PROVE  Closing(y, n, samples, winner, (k + 1) - (n + T))
      OBVIOUS
    <3>1. j + 1 = T /\ (k + 1) - (n + T) = 0
      BY <1>1, <1>9, <2>1
    <3> QED
      BY <1>6, <2>4, <3>1
  <2> QED
    BY <1>3, <2>1, <2>4, <2>5, <2>6 DEF Stage, T, y
<1>10. CASE n + T <= k /\ k < n + T + n - 1
  <2> DEFINE j == k - (n + T)
  <2>1. /\ j \in Nat /\ j + 1 \in 1 .. n - 1 /\ n + T + (j + 1) = k + 1
        /\ (k + 1) - (n + T) = j + 1 /\ k \in n + T .. n + T + n - 1
    BY <1>1, <1>10
  <2>2. Closing(z, n, samples, winner, j)
    BY <1>2, <2>1
  <2> HIDE DEF j
  <2>3. d[k + 1] = Ending(n, winner, j + 1)
    BY <1>1, <2>1
  <2>4. Closing(y, n, samples, winner, j + 1)
    BY <2>1, <2>2, <2>3, CloseStep DEF y
  <2>5. ~(k + 1 <= n) /\ k + 1 \notin n .. n + T
    BY <1>1, <1>10
  <2> QED
    BY <1>4, <2>1, <2>4, <2>5 DEF Stage, T, y
<1>11. CASE k = n + T + n - 1
  <2>1. k \in n + T .. n + T + n - 1 /\ k - (n + T) = n - 1 /\ k + 1 = n + T + n
    BY <1>1, <1>11
  <2>2. y.error = FALSE
    BY <1>1, <1>2, <2>1, DoneStep DEF y
  <2>3. /\ ~(k + 1 <= n) /\ k + 1 \notin n .. n + T
        /\ k + 1 \notin n + T .. n + T + n - 1
    BY <1>1, <1>11
  <2> QED
    BY <2>2, <2>3 DEF Stage, T, y
<1>12. k < n \/ (n <= k /\ k < n + T) \/ (n + T <= k /\ k < n + T + n - 1) \/ k = n + T + n - 1
  BY <1>1
<1> QED
  BY <1>8, <1>9, <1>10, <1>11, <1>12

\* What is left of d after k events.
Rest(q, d, k) ==
  /\ IsSeq(q) /\ k \in Nat /\ Len(q) = Len(d) - k
  /\ \A i \in 1 .. Len(q) : q[i] = d[k + i]

\* The engine has some of a script still to yield, and the server has the rest.
Yielding(q, z) ==
  \E n \in Nat \ {0} : \E samples, t, k : \E winner \in 0 .. n - 1 :
    /\ Drawn(samples, n) /\ Turns(t, samples)
    /\ Stage(z, n, samples, winner, t, k) /\ Rest(q, DemoScript(samples, winner), k)

LEMMA YieldingGoesOn ==
  ASSUME NEW q, q # <<>>, NEW z, Yielding(q, z)
  PROVE  Yielding(Tail(q), Accept(z, Head(q))) /\ Accept(z, Head(q)).error = FALSE
<1>1. PICK n \in Nat \ {0} : \E samples, t, k : \E winner \in 0 .. n - 1 :
        /\ Drawn(samples, n) /\ Turns(t, samples)
        /\ Stage(z, n, samples, winner, t, k) /\ Rest(q, DemoScript(samples, winner), k)
  BY DEF Yielding
<1>2. PICK samples, t, k, winner :
        /\ winner \in 0 .. n - 1 /\ Drawn(samples, n) /\ Turns(t, samples)
        /\ Stage(z, n, samples, winner, t, k) /\ Rest(q, DemoScript(samples, winner), k)
  BY <1>1
<1> DEFINE d == DemoScript(samples, winner)
           r == Tail(q)
<1>3. ScriptIs(d, n, samples, winner, t)
  BY <1>2, DemoScriptIs DEF Drawn
<1>4. Len(d) \in Nat
  <2>1. Cardinality(Tokens(samples)) \in Nat
    BY <1>2 DEF Turns
  <2> QED
    BY <1>3, <2>1 DEF ScriptIs
<1>5. Rest(q, d, k)
  BY <1>2
<1> HIDE DEF d
<1>6. /\ IsSeq(q) /\ k \in Nat /\ Len(q) = Len(d) - k
      /\ \A i \in 1 .. Len(q) : q[i] = d[k + i]
  BY <1>5 DEF Rest
<1>7. /\ Len(q) \in Nat \ {0} /\ Head(q) = q[1] /\ IsSeq(r) /\ Len(r) = Len(q) - 1
      /\ \A i \in 1 .. Len(q) - 1 : r[i] = q[i + 1]
  BY <1>6, SeqShorter
<1> HIDE DEF r
<1>8. k < Len(d) /\ 1 \in 1 .. Len(q)
  BY <1>4, <1>6, <1>7
<1>9. Head(q) = d[k + 1]
  BY <1>6, <1>7, <1>8
<1>10. Stage(Accept(z, d[k + 1]), n, samples, winner, t, k + 1)
  BY <1>2, <1>3, <1>6, <1>8, StageStep
<1>11. Rest(r, d, k + 1)
  <2>1. Len(r) = Len(d) - (k + 1) /\ k + 1 \in Nat
    BY <1>4, <1>6, <1>7
  <2>2. \A i \in 1 .. Len(r) : r[i] = d[(k + 1) + i]
    <3> TAKE i \in 1 .. Len(r)
    <3>1. i \in 1 .. Len(q) - 1 /\ i + 1 \in 1 .. Len(q) /\ k + (i + 1) = (k + 1) + i
      BY <1>6, <1>7
    <3> QED
      BY <1>6, <1>7, <3>1
  <2> QED
    BY <1>7, <2>1, <2>2 DEF Rest
<1>12. Yielding(r, Accept(z, d[k + 1]))
  BY <1>2, <1>10, <1>11 DEF Yielding, d
<1>13. Accept(z, d[k + 1]).error = FALSE
  BY <1>10 DEF Stage
<1> QED
  BY <1>9, <1>12, <1>13 DEF r

\* Of drawn samples a winner is a branch.
LEMMA SamplesDrawn ==
  ASSUME NEW n \in Nat \ {0}, NEW samples \in Samples(MaxTokens, n)
  PROVE  Drawn(samples, n) /\ DemoWinners(samples) \subseteq 0 .. n - 1
<1>1. samples \in [0 .. n - 1 -> SeqOf(Words, MaxTokens)]
  BY DEF Samples
<1>2. ASSUME NEW q \in SeqOf(Words, MaxTokens)
      PROVE  IsSeq(q) /\ Len(q) \in 0 .. MaxTokens
  <2>1. PICK m \in 0 .. MaxTokens : q \in [1 .. m -> Words]
    BY DEF SeqOf
  <2>2. m \in Nat
    BY RolloutAssumption
  <2>3. q \in Seq(Words) /\ Len(q) = m
    BY <2>1, <2>2
  <2> QED
    BY <2>3 DEF IsSeq
<1>3. Drawn(samples, n)
  <2>1. DOMAIN samples = 0 .. n - 1 /\ samples = [b \in 0 .. n - 1 |-> samples[b]]
    BY <1>1
  <2>2. \A b \in 0 .. n - 1 : samples[b] \in SeqOf(Words, MaxTokens)
    BY <1>1
  <2> QED
    BY <1>2, <2>1, <2>2 DEF Drawn, IsFcn
<1>4. Max(0 .. n - 1) \in 0 .. n - 1
  <2> DEFINE S == 0 .. n - 1
  <2>1. S \in SUBSET Int /\ IsFiniteSet(S) /\ S # {}
    <3>1. 0 \in Int /\ n - 1 \in Int /\ 0 \in S
      OBVIOUS
    <3>2. IsFiniteSet(S)
      BY <3>1, FS_Interval
    <3> QED
      BY <3>1, <3>2
  <2> HIDE DEF S
  <2>2. \E x \in S : \A y \in S : x >= y
    BY <2>1, MaxExists
  <2>3. Max(S) \in S
    BY <2>2, Zenon DEF Max
  <2> QED
    BY <2>3 DEF S
<1>5. DOMAIN samples = 0 .. n - 1
  BY <1>1
<1> QED
  BY <1>3, <1>4, <1>5 DEF DemoWinners

LEMMA YieldingBegins ==
  ASSUME NEW n \in Nat \ {0}, NEW samples \in Samples(MaxTokens, n),
         NEW winner \in DemoWinners(samples)
  PROVE  Yielding(DemoScript(samples, winner), NewStream)
<1> DEFINE d == DemoScript(samples, winner)
<1>1. Drawn(samples, n) /\ winner \in 0 .. n - 1
  BY SamplesDrawn
<1>2. PICK t : Turns(t, samples)
  BY <1>1, TurnsExist DEF Drawn
<1>3. ScriptIs(d, n, samples, winner, t)
  BY <1>1, <1>2, DemoScriptIs DEF Drawn
<1> HIDE DEF d
<1>4. Rest(d, d, 0)
  <2>1. Cardinality(Tokens(samples)) \in Nat
    BY <1>2 DEF Turns
  <2>2. IsSeq(d) /\ Len(d) \in Nat
    BY <1>3, <2>1 DEF ScriptIs
  <2>3. \A i \in 1 .. Len(d) : 0 + i = i
    BY <2>2
  <2> QED
    BY <2>2, <2>3 DEF Rest
<1>5. Starting(NewStream, 0)
  <2>1. 0 .. 0 - 1 = {}
    OBVIOUS
  <2>2. \A f : DOMAIN f = {} /\ IsFcn(f) => f = [b \in {} |-> f[b]]
    BY DEF IsFcn
  <2>3. Roots(0) = <<>> /\ Blank(0) = <<>>
    BY <2>1 DEF Roots, Blank
  <2> QED
    BY <2>3 DEF Starting, NewStream, StreamOf, Open
<1>6. Stage(NewStream, n, samples, winner, t, 0)
  <2>1. Cardinality(Tokens(samples)) \in Nat
    BY <1>2 DEF Turns
  <2>2. 0 \notin n .. n + Cardinality(Tokens(samples))
    BY <2>1
  <2>3. 0 \notin n + Cardinality(Tokens(samples)) .. n + Cardinality(Tokens(samples)) + n - 1
    BY <2>1
  <2>4. NewStream.error = FALSE
    BY DEF NewStream
  <2> QED
    BY <1>5, <2>2, <2>3, <2>4 DEF Stage
<1> QED
  BY <1>1, <1>2, <1>4, <1>6 DEF Yielding, d

-----------------------------------------------------------------------------
(* The deterministic engine.                                               *)

\* Inductive, with RolloutInv: as long as the server reads the deterministic
\* engine, what it accepted is a first part of the script, and the rest is left.
DemoInv ==
  engine = "demo" =>
    /\ stream.error = FALSE
    /\ server = "streaming" => Yielding(script, stream)

LEMMA DemoStart == Init => DemoInv
BY DEF Init, DemoInv, NewStream

LEMMA DemoLeave ==
  ASSUME Leave
  PROVE  DemoInv'
BY DEF Leave, DemoInv, NewStream

LEMMA DemoStep == RolloutInv /\ DemoInv /\ [Next]_vars => DemoInv'
<1> SUFFICES ASSUME RolloutInv, DemoInv, [Next]_vars PROVE DemoInv'
  OBVIOUS
<1>1. CASE DemoYields
  <2> SUFFICES ASSUME engine' = "demo"
               PROVE  stream'.error = FALSE /\ Yielding(script', stream')
    BY DEF DemoInv
  <2>1. /\ engine = "demo" /\ script # <<>> /\ server = "streaming"
        /\ stream' = Accept(stream, Head(script)) /\ script' = Tail(script)
    BY <1>1 DEF DemoYields, Send
  <2>2. Yielding(script, stream)
    BY <2>1 DEF DemoInv
  <2> QED
    BY <2>1, <2>2, YieldingGoesOn
<1>2. CASE AnyYields
  BY <1>2 DEF AnyYields, Send, clientVars, DemoInv
<1>3. ASSUME Cut \/ (\E frames : Close(frames)) PROVE DemoInv'
  BY <1>3 DEF Cut, Close, clientVars, DemoInv
<1>4. CASE EngineEnds \/ OutOfPages \/ EngineFails
  BY <1>3, <1>4 DEF EngineEnds, OutOfPages, EngineFails
<1>5. CASE LoseConnection
  BY <1>5 DEF LoseConnection, clientVars, DemoInv
<1>6. CASE Ask
  <2>1. server = "idle" /\ stream' = stream /\ stream = NewStream
    BY <1>6 DEF Ask, RolloutInv, Left
  <2>2. stream'.error = FALSE
    BY <2>1 DEF NewStream
  <2>3. CASE engine' = "any"
    BY <2>3 DEF DemoInv
  <2>4. CASE server' = server
    BY <2>1, <2>2, <2>4 DEF DemoInv
  <2>5. CASE \E n \in 1 .. MaxBranches : \E s \in Samples(MaxTokens, n) :
               \E winner \in DemoWinners(s) : script' = DemoScript(s, winner)
    <3>1. PICK n \in 1 .. MaxBranches : \E s \in Samples(MaxTokens, n) :
                 \E winner \in DemoWinners(s) : script' = DemoScript(s, winner)
      BY <2>5
    <3>2. n \in Nat \ {0}
      BY RolloutAssumption
    <3>3. Yielding(script', NewStream)
      BY <3>1, <3>2, YieldingBegins
    <3> QED
      BY <2>1, <2>2, <3>3 DEF DemoInv
  <2> QED
    BY <1>6, <2>3, <2>4, <2>5 DEF Ask
<1>7. CASE Read
  <2>1. \/ Leave
        \/ engine' = engine /\ script' = script /\ server' = server /\ stream' = stream
    BY <1>7 DEF Read, Finish, Missing, Raise, clientVars
  <2> QED
    BY <2>1, DemoLeave DEF DemoInv
<1>8. CASE ReadEnd \/ TimeOut
  <2>1. Leave
    BY <1>8 DEF ReadEnd, TimeOut, Finish, Missing, Raise
  <2> QED
    BY <2>1, DemoLeave
<1>9. CASE UNCHANGED vars
  BY <1>9 DEF vars, clientVars, DemoInv
<1> QED
  BY <1>1, <1>2, <1>4, <1>5, <1>6, <1>7, <1>8, <1>9 DEF Next, Serve, Consume

\* The server takes every event that DeterministicEngine.generate yields, for
\* any number of branches and tokens, however the tokens divide among them and
\* wherever a stop string cuts them, up to and including the summary.
THEOREM DemoAlwaysAccepted == Spec => []DemoAccepted
<1>1. DemoInv => DemoAccepted
  BY DEF DemoInv, DemoAccepted
<1>2. Spec => []DemoInv
  BY DemoStart, DemoStep, RolloutSafe, PTL DEF Spec
<1> QED
  BY <1>1, <1>2, PTL
=============================================================================
