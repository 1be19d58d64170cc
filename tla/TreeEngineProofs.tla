-------------------------- MODULE TreeEngineProofs --------------------------
(***************************************************************************)
(* The stream of one generation, for every number of branches, tokens and  *)
(* values, every policy and whatever commands the scheduler gives: the     *)
(* server accepts every event up to the final account, and that account    *)
(* exactly if the cache holds no branch any more and its reuse ratio is at *)
(* least 1.                                                                *)
(*                                                                         *)
(* The argument is that what the server has made of the events, those of   *)
(* the batch that are still to be yielded included, is a function of what  *)
(* the engine holds (Told).  Each event the engine yields is then the one  *)
(* step of the server that matches what the engine did to itself.          *)
(***************************************************************************)
EXTENDS TreeEngine, SharedLemmas

Streaming == INSTANCE SharedLemmas WITH Op <- Accept
Starting == INSTANCE SharedLemmas WITH Op <- StartOne
Discarding == INSTANCE SharedLemmas WITH Op <- PruneOne

\* A server that has refused nothing and waits for more.
Listening(started, tokens, terminal, pruned, mergers) ==
  [parents |-> started, tokens |-> tokens, terminal |-> terminal,
   pruned |-> pruned, merged |-> mergers, finished |-> FALSE, error |-> FALSE]

\* What the server is to make of the events, given what the engine holds: a
\* branch has ended once it is neither in the cache nor among the candidates.
Texts == [b \in Created |-> OwnTokens(b)]
Ended == Created \ (kv \cup finalized)
Told == Listening(parents, Texts, Ended, prunedCount, Cardinality(merged))

\* What it makes of them, the events of the batch included.
Account == FoldLeft(Accept, stream, unsent)

Listed(q) == \E S : q \in Seq(S)

\* What the engine holds of its branches.
Holdings ==
  /\ config \in Configs
  /\ IsFiniteSet(Created) /\ Created = 0 .. Cardinality(Created) - 1
  /\ parents \in [Created -> Created \cup {None}]
  /\ path \in [Created -> Seq(Tokens)] /\ own \in [Created -> Nat]
  /\ \A b \in Created : own[b] <= Len(path[b])
  /\ active \subseteq kv /\ kv \subseteq Created
  /\ finalized \subseteq Created \ kv /\ merged \subseteq Created \ kv
  /\ prunedCount \in Nat
  /\ batch \in Seq(Created)

\* A branch goes on from where its parent stood, and its parent went no further.
Lineage ==
  \A c \in Created :
    /\ parents[c] # None => parents[c] \in Created \ active /\ parents[c] < c
    /\ path[c] = (IF parents[c] = None THEN <<>> ELSE path[parents[c]]) \o OwnTokens(c)

\* What is left of a list is still to the point; between batches every event
\* has been yielded.
Agenda ==
  /\ Listed(unsent)
  /\ phase \in {"take", "loop"} => unsent = <<>>
  /\ phase = "feed" => todo \in Seq(active)
  /\ phase = "merge" =>
       /\ Listed(todo)
       /\ \A i, j \in DOMAIN todo : todo[i].into \in kv /\ todo[j].branch # todo[i].into

UnderWay == Holdings /\ Lineage /\ Agenda /\ Account = Told /\ ~stream.error

\* What the final account comes to.
Settled ==
  /\ stream.error <=> ~(kv = {} /\ reused)
  /\ ~stream.error => stream.finished

StreamInv ==
  /\ outcome # "done" => UnderWay
  /\ outcome = "done" => Settled

-----------------------------------------------------------------------------
(* The server's side.                                                      *)

LEMMA TokenAccepted ==
  ASSUME NEW p, NEW t, NEW x, NEW n, NEW m, NEW b \in DOMAIN p \ x,
         NEW i, i = Len(t[b]), NEW token
  PROVE  Accept(Listening(p, t, x, n, m), TokenEvent(b, i, token))
           = Listening(p, [t EXCEPT ![b] = Append(@, token)], x, n, m)
BY DEF Accept, Accepts, Listening, TokenEvent, Terminable, StartedIn

LEMMA PrunedAccepted ==
  ASSUME NEW p, NEW t, NEW x, NEW n, NEW m, NEW b \in DOMAIN p \ x
  PROVE  Accept(Listening(p, t, x, n, m), Pruned(b))
           = Listening(p, t, x \cup {b}, n + 1, m)
BY DEF Accept, Accepts, Listening, Pruned, Terminable, StartedIn

LEMMA MergeAccepted ==
  ASSUME NEW p, NEW t, NEW x, NEW n, NEW m, NEW b \in DOMAIN p \ x,
         NEW c \in DOMAIN p \ x, c # b
  PROVE  Accept(Listening(p, t, x, n, m), MergedInto(b, c))
           = Listening(p, t, x \cup {b}, n, m + 1)
BY DEF Accept, Accepts, Listening, MergedInto, Terminable, StartedIn

LEMMA StartAccepted ==
  ASSUME NEW p, NEW t, NEW x, NEW n, NEW m, NEW b, b \notin DOMAIN p,
         NEW a \in DOMAIN p
  PROVE  Accept(Listening(p, t, x, n, m), Started(b, a))
           = Listening(Entered(p, b, a), Entered(t, b, <<>>), x, n, m)
BY DEF Accept, Accepts, Listening, Started, StartedIn

-----------------------------------------------------------------------------
(* Sequences.                                                              *)

\* The last k elements of s.
Latest(s, k) == SubSeq(s, Len(s) - k + 1, Len(s))

LEMMA LatestLaw ==
  ASSUME NEW T, NEW s \in Seq(T), NEW k \in Nat, k <= Len(s)
  PROVE  /\ Latest(s, k) \in Seq(T) /\ Len(Latest(s, k)) = k
         /\ k = 0 => Latest(s, k) = <<>>
BY DEF Latest

LEMMA LatestAppend ==
  ASSUME NEW T, NEW s \in Seq(T), NEW k \in Nat, k <= Len(s), NEW t \in T
  PROVE  Latest(Append(s, t), k + 1) = Append(Latest(s, k), t)
<1> DEFINE a == Latest(Append(s, t), k + 1)
           b == Append(Latest(s, k), t)
<1>1. Append(s, t) \in Seq(T) /\ Len(Append(s, t)) = Len(s) + 1 /\ Len(s) \in Nat
      /\ (\A i \in 1 .. Len(s) : Append(s, t)[i] = s[i]) /\ Append(s, t)[Len(s) + 1] = t
  OBVIOUS
<1>2. a \in Seq(T) /\ Len(a) = k + 1 /\ \A i \in 1 .. k + 1 : a[i] = Append(s, t)[Len(s) - k + i]
  <2>1. a = SubSeq(Append(s, t), Len(s) - k + 1, Len(s) + 1)
    BY <1>1 DEF Latest
  <2> DEFINE q == Append(s, t)
             m == Len(s) - k + 1
             n == Len(s) + 1
  <2>2. q \in Seq(T) /\ m \in 1 .. Len(q) + 1 /\ n \in m - 1 .. Len(q)
    BY <1>1
  <2>4. m <= n /\ n - m + 1 = k + 1 /\ \A i \in 1 .. k + 1 : m + i - 1 = Len(s) - k + i
    BY <1>1
  <2>5. a = SubSeq(q, m, n)
    BY <2>1
  <2> HIDE DEF q, m, n
  <2>3. SubSeq(q, m, n) \in Seq(T) /\ Len(SubSeq(q, m, n)) = (IF m <= n THEN n - m + 1 ELSE 0)
        /\ \A i \in 1 .. n - m + 1 : SubSeq(q, m, n)[i] = q[m + i - 1]
    BY <2>2, SubSeqProperties
  <2>6. \A i \in 1 .. k + 1 : SubSeq(q, m, n)[i] = q[Len(s) - k + i]
    BY <2>3, <2>4
  <2> HIDE DEF a
  <2> QED
    BY <2>3, <2>4, <2>5, <2>6 DEF q
<1>3. b \in Seq(T) /\ Len(b) = k + 1 /\ (\A i \in 1 .. k : b[i] = s[Len(s) - k + i]) /\ b[k + 1] = t
  <2>1. Latest(s, k) \in Seq(T) /\ Len(Latest(s, k)) = k
        /\ \A i \in 1 .. k : Latest(s, k)[i] = s[Len(s) - k + i]
    BY DEF Latest
  <2> HIDE DEF Latest
  <2> QED
    BY <2>1
<1> HIDE DEF a, b
<1>4. \A i \in 1 .. k + 1 : a[i] = b[i]
  <2> TAKE i \in 1 .. k + 1
  <2>1. CASE i = k + 1
    BY <1>1, <1>2, <1>3, <2>1
  <2>2. CASE i # k + 1
    <3>1. i \in 1 .. k /\ Len(s) - k + i \in 1 .. Len(s)
      BY <1>1, <2>2
    <3> QED
      BY <1>1, <1>2, <1>3, <3>1
  <2> QED
    BY <2>1, <2>2
<1>5. a = b
  BY <1>2, <1>3, <1>4
<1> QED
  BY <1>5 DEF a, b

\* Lists grow and shrink as lists.
LEMMA ListedLaw ==
  ASSUME NEW q, Listed(q)
  PROVE  /\ \A x : Listed(Append(q, x))
         /\ q # <<>> => Listed(Tail(q)) /\ 1 \in DOMAIN q /\ Head(q) = q[1]
         /\ q # <<>> => \A i \in DOMAIN Tail(q) : i + 1 \in DOMAIN q /\ Tail(q)[i] = q[i + 1]
         /\ \E n \in Nat : DOMAIN q = 1 .. n
<1>1. PICK S : q \in Seq(S)
  BY DEF Listed
<1>2. \A x : Append(q, x) \in Seq(S \cup {x})
  <2> TAKE x
  <2>1. q \in Seq(S \cup {x})
    BY <1>1
  <2> QED
    BY <2>1
<1>3. q # <<>> => /\ Tail(q) \in Seq(S) /\ 1 \in DOMAIN q /\ Head(q) = q[1]
                  /\ \A i \in DOMAIN Tail(q) : i + 1 \in DOMAIN q /\ Tail(q)[i] = q[i + 1]
  BY <1>1
<1>4. DOMAIN q = 1 .. Len(q) /\ Len(q) \in Nat
  BY <1>1
<1> QED
  BY <1>2, <1>3, <1>4 DEF Listed

\* A fold of the server over one more event.
LEMMA AccountAppend ==
  ASSUME NEW s, NEW q, Listed(q), NEW e
  PROVE  FoldLeft(Accept, s, Append(q, e)) = Accept(FoldLeft(Accept, s, q), e)
<1>1. PICK S : q \in Seq(S)
  BY DEF Listed
<1>2. q \in Seq(S \cup {e}) /\ e \in S \cup {e}
  BY <1>1
<1>3. Streaming!Result(s, Append(q, e)) = Accept(Streaming!Result(s, q), e)
  BY <1>2, Streaming!FoldAppend
<1>4. \A r : Streaming!Result(s, r) = FoldLeft(Accept, s, r)
  BY DEF Streaming!Result, FoldLeft, MapThenFoldSet, Max, Streaming!FoldLeft,
         Streaming!MapThenFoldSet, Streaming!Max
<1> QED
  BY <1>3, <1>4

LEMMA AccountEmpty ==
  ASSUME NEW s
  PROVE  FoldLeft(Accept, s, <<>>) = s
<1>1. Streaming!Result(s, <<>>) = s
  BY Streaming!FoldEmpty
<1> QED
  BY <1>1 DEF Streaming!Result, FoldLeft, MapThenFoldSet, Max, Streaming!FoldLeft,
         Streaming!MapThenFoldSet, Streaming!Max

\* Once every event has been yielded, the server has made of them what it should.
LEMMA AllYielded ==
  ASSUME unsent = <<>>, Account = Told
  PROVE  stream = Told /\ ~stream.error
<1>1. stream = Account
  BY AccountEmpty DEF Account
<1> QED
  BY <1>1 DEF Told, Listening

LEMMA AllYieldedNext ==
  ASSUME unsent' = <<>>, Account' = Told'
  PROVE  stream' = Told' /\ ~stream.error'
<1>1. stream' = Account'
  BY AccountEmpty DEF Account
<1> QED
  BY <1>1 DEF Told, Listening

-----------------------------------------------------------------------------
(* The start, and the steps the server hears nothing of.                   *)

StreamVars == <<parents, path, own, active, finalized, merged, prunedCount, kv, unsent, stream>>

LEMMA TokensKept == config' = config => Tokens' = Tokens /\ ForkWidth' = ForkWidth
BY DEF Tokens, Logprob, ForkWidth

LEMMA FedKeeps == \A s : Fed(s) => config' = config /\ outcome' \in {"running", "refused"}
BY DEF Fed, Install

\* A step that touches neither what the engine holds nor the stream.
LEMMA Quiet ==
  ASSUME UnderWay, config' = config, UNCHANGED StreamVars, batch' \in Seq(Created), Agenda'
  PROVE  UnderWay'
<1>1. Created' = Created /\ Tokens' = Tokens /\ \A b : OwnTokens(b)' = OwnTokens(b)
  BY TokensKept DEF Created, OwnTokens, StreamVars
<1>2. Holdings'
  BY <1>1 DEF UnderWay, Holdings, StreamVars
<1>3. Lineage'
  BY <1>1 DEF UnderWay, Lineage, StreamVars
<1>4. Texts' = Texts /\ Ended' = Ended
  BY <1>1 DEF Texts, Ended, StreamVars
<1>5. Told' = Told /\ Account' = Account
  BY <1>4 DEF Told, Account, StreamVars
<1> QED
  BY <1>2, <1>3, <1>5 DEF UnderWay, StreamVars

LEMMA FailStep ==
  ASSUME UnderWay, NEW reason, reason # "done", Fail(reason)
  PROVE  UnderWay' /\ outcome' # "done"
<1>1. config' = config /\ UNCHANGED StreamVars /\ batch' = batch /\ phase' = phase /\ todo' = todo
      /\ outcome' = reason
  BY DEF Fail, scheduler, batchVars, branchVars, streamVars, StreamVars
<1>2. batch' \in Seq(Created)
  BY <1>1 DEF UnderWay, Holdings
<1>3. Agenda'
  BY <1>1 DEF UnderWay, Agenda, StreamVars
<1> QED
  BY <1>1, <1>2, <1>3, Quiet

LEMMA StreamStart == Init => UnderWay /\ outcome # "done"
<1> SUFFICES ASSUME Init PROVE UnderWay
  BY DEF Init
<1> USE DEF Root, None
<1>1. /\ config \in Configs /\ phase = "take" /\ batch = <<0>> /\ todo = <<>>
      /\ parents = [b \in {0} |-> NoBranch] /\ path = [b \in {0} |-> <<>>]
      /\ own = [b \in {0} |-> 0]
      /\ active = {0} /\ kv = {0} /\ finalized = {} /\ merged = {} /\ prunedCount = 0
      /\ unsent = <<>> /\ stream = Accept(NewStream, Started(0, NoBranch))
  BY DEF Init, NewScheduler
<1>2. Created = {0}
  BY <1>1 DEF Created
<1>3. IsFiniteSet({0}) /\ Cardinality({0}) = 1 /\ Cardinality({}) = 0
  BY FS_Singleton, FS_EmptySet
<1>4. OwnTokens(0) = <<>>
  BY <1>1, <1>2 DEF OwnTokens
<1>5. Holdings
  BY <1>1, <1>2, <1>3 DEF Holdings
<1>6. Lineage
  BY <1>1, <1>2, <1>4 DEF Lineage
<1>7. Agenda
  BY <1>1 DEF Agenda, Listed
<1>8. Account = Accept(NewStream, Started(0, NoBranch))
  BY <1>1, AccountEmpty DEF Account
<1>9. Accept(NewStream, Started(0, NoBranch))
        = Listening([b \in {0} |-> NoBranch], [b \in {0} |-> <<>>], {}, 0, 0)
  <2>1. Entered(<<>>, 0, NoBranch) = [b \in {0} |-> NoBranch]
        /\ Entered(<<>>, 0, <<>>) = [b \in {0} |-> <<>>]
    BY DEF Entered
  <2> QED
    BY <2>1 DEF Accept, Accepts, NewStream, Started, StartedIn, Listening
<1>10. Told = Listening([b \in {0} |-> NoBranch], [b \in {0} |-> <<>>], {}, 0, 0)
  BY <1>1, <1>2, <1>3, <1>4 DEF Told, Texts, Ended
<1>11. stream = Told /\ ~stream.error
  BY <1>1, <1>8, <1>9, <1>10, AllYielded
<1> QED
  BY <1>5, <1>6, <1>7, <1>8, <1>9, <1>10, <1>11 DEF UnderWay

LEMMA DecodeStep ==
  ASSUME UnderWay, Decode
  PROVE  UnderWay' /\ outcome' # "done"
<1>1. phase = "take" /\ outcome = "running"
  BY DEF Decode, BatchComplete, At
<1>2. CASE Fail("overrun")
  BY <1>2, FailStep
<1>3. CASE /\ phase' = IF batch = <<>> THEN "loop" ELSE "feed"
           /\ todo' = batch /\ Range(batch) \subseteq active
           /\ UNCHANGED <<scheduler, commands, batch, scores, branchVars, streamVars, outcome>>
  <2>1. config' = config /\ UNCHANGED StreamVars /\ batch' = batch /\ outcome' = outcome
    BY <1>3 DEF scheduler, branchVars, streamVars, StreamVars
  <2>2. batch \in Seq(Created)
    BY DEF UnderWay, Holdings
  <2>3. batch \in Seq(active)
    BY <1>3, <2>2 DEF Range
  <2>4. Agenda'
    BY <1>1, <1>3, <2>1, <2>3 DEF UnderWay, Agenda, StreamVars
  <2> QED
    BY <1>1, <2>1, <2>2, <2>4, Quiet
<1> QED
  BY <1>2, <1>3 DEF Decode

\* The steps after which no list and no page of the stream is at stake.
LEMMA QuietSteps ==
  ASSUME UnderWay,
         OutOfPages \/ ListValues \/ FeedValue \/ ListLowValue \/ SkipCommand \/ TakeContinues
  PROVE  UnderWay' /\ outcome' # "done"
<1>1. CASE OutOfPages
  BY <1>1, FailStep DEF OutOfPages
<1>2. CASE FeedValue
  <2>1. CASE Fail("refused")
    BY <2>1, FailStep
  <2>2. CASE ~Fail("refused")
    <3>1. phase = "score" /\ (\E s : Fed(s))
          /\ UNCHANGED <<phase, commands, batch, scores, branchVars, streamVars>>
      BY <1>2, <2>2 DEF FeedValue, At
    <3>2. config' = config /\ UNCHANGED StreamVars /\ batch' = batch /\ phase' = phase
          /\ outcome' # "done"
      BY <3>1, FedKeeps DEF branchVars, streamVars, StreamVars
    <3>3. Agenda' /\ batch' \in Seq(Created)
      BY <3>1, <3>2 DEF UnderWay, Agenda, StreamVars, Holdings
    <3> QED
      BY <3>2, <3>3, Quiet
  <2> QED
    BY <2>1, <2>2
<1>3. CASE ListValues \/ ListLowValue \/ SkipCommand \/ TakeContinues
  <2>1. /\ outcome' = outcome /\ outcome = "running"
        /\ UNCHANGED <<scheduler, batch, branchVars, streamVars>>
        /\ \/ phase' \in {"score", "value"}
           \/ phase = "loop" /\ phase' \in {"loop", "take"}
    BY <1>3 DEF ListValues, ListLowValue, SkipCommand, TakeContinues, Taking, At
  <2>2. config' = config /\ UNCHANGED StreamVars /\ batch' = batch
    BY <2>1 DEF scheduler, branchVars, streamVars, StreamVars
  <2>3. Agenda' /\ batch' \in Seq(Created)
    BY <2>1, <2>2 DEF UnderWay, Agenda, StreamVars, Holdings
  <2> QED
    BY <2>1, <2>2, <2>3, Quiet
<1> QED
  BY <1>1, <1>2, <1>3

LEMMA JoinStep ==
  ASSUME UnderWay, JoinBatch
  PROVE  UnderWay' /\ outcome' # "done"
<1> DEFINE b == Head(todo)
<1>1. /\ phase = "take" /\ outcome = "running"
      /\ UNCHANGED <<phase, parents, path, own, active, finalized, merged, valuePruned,
                     prunedCount, kv, streamVars>>
  BY DEF JoinBatch, At
<1>2. UNCHANGED StreamVars
  BY <1>1 DEF streamVars, StreamVars
<1>3. config' = config /\ outcome' # "done"
      /\ (batch' = batch \/ (b \in active /\ batch' = Append(batch, b)))
  <2>1. CASE b \notin active \/ tree.state[b] # "active"
    BY <1>1, <2>1 DEF JoinBatch, scheduler
  <2>2. CASE b \in active /\ tree.state[b] = "active" /\ b \in stopping
    <3>1. (\E s : Fed(s)) /\ batch' = batch
      BY <2>2 DEF JoinBatch
    <3> QED
      BY <3>1, FedKeeps
  <2>3. CASE b \in active /\ tree.state[b] = "active" /\ b \notin stopping
    BY <1>1, <2>3 DEF JoinBatch, scheduler
  <2> QED
    BY <2>1, <2>2, <2>3
<1>4. batch' \in Seq(Created)
  <2>1. batch \in Seq(Created) /\ active \subseteq Created
    BY DEF UnderWay, Holdings
  <2> HIDE DEF b
  <2> QED
    BY <1>3, <2>1
<1>5. Agenda'
  BY <1>1, <1>2 DEF UnderWay, Agenda, StreamVars
<1> QED
  BY <1>2, <1>3, <1>4, <1>5, Quiet

-----------------------------------------------------------------------------
(* The batch.                                                              *)

LEMMA OwnTokensLaw ==
  ASSUME Holdings
  PROVE  \A b \in Created : /\ OwnTokens(b) = Latest(path[b], own[b])
                            /\ OwnTokens(b) \in Seq(Tokens) /\ Len(OwnTokens(b)) = own[b]
<1> TAKE b \in Created
<1>1. path[b] \in Seq(Tokens) /\ own[b] \in Nat /\ own[b] <= Len(path[b])
  BY DEF Holdings
<1>2. OwnTokens(b) = Latest(path[b], own[b])
  BY DEF OwnTokens, Latest
<1> QED
  BY <1>1, <1>2, LatestLaw

\* A token of an active branch is what the server takes it for.
LEMMA TokenStep ==
  ASSUME UnderWay, NEW token \in Tokens, FeedToken(token)
  PROVE  UnderWay' /\ outcome' # "done"
<1>1. CASE Fail("refused")
  BY <1>1, FailStep
<1>2. CASE ~Fail("refused")
  <2>0. PICK b : b = Head(todo)
    OBVIOUS
  <2> DEFINE e == TokenEvent(b, TokenIndex(b), token)
  <2>1. /\ phase = "feed" /\ todo # <<>> /\ \E s : Fed(s)
        /\ path' = [path EXCEPT ![b] = Append(@, token)]
        /\ own' = [own EXCEPT ![b] = @ + 1]
        /\ unsent' = Append(unsent, e)
        /\ todo' = Tail(todo)
        /\ UNCHANGED <<phase, batch, parents, active, finalized, merged, prunedCount, kv, stream>>
    BY <1>2, <2>0 DEF FeedToken, At
  <2> HIDE DEF e
  <2>2. config' = config /\ outcome' # "done" /\ Tokens' = Tokens
    BY <2>1, FedKeeps, TokensKept
  <2>3. todo \in Seq(active) /\ Listed(unsent)
    BY <2>1 DEF UnderWay, Agenda
  <2>4. b \in active /\ Tail(todo) \in Seq(active)
    BY <2>0, <2>1, <2>3
  <2>5. b \in Created /\ b \in kv /\ b \notin finalized
    BY <2>4 DEF UnderWay, Holdings
  <2>6. path[b] \in Seq(Tokens) /\ own[b] \in Nat /\ own[b] <= Len(path[b])
    BY <2>5 DEF UnderWay, Holdings
  <2>7. Created' = Created
    BY <2>1 DEF Created
  <2>8. \A c \in Created : c # b => path'[c] = path[c] /\ own'[c] = own[c]
    BY <2>1 DEF UnderWay, Holdings
  <2>9. path'[b] = Append(path[b], token) /\ own'[b] = own[b] + 1
    BY <2>1, <2>5 DEF UnderWay, Holdings
  <2>10. \A c \in Created : c # b => OwnTokens(c)' = OwnTokens(c)
    BY <2>8 DEF OwnTokens
  <2>11. OwnTokens(b)' = Append(OwnTokens(b), token)
    <3>1. OwnTokens(b)' = Latest(Append(path[b], token), own[b] + 1)
      BY <2>9 DEF OwnTokens, Latest
    <3>2. OwnTokens(b) = Latest(path[b], own[b])
      BY DEF OwnTokens, Latest
    <3> QED
      BY <2>6, <3>1, <3>2, LatestAppend
  <2>12. Holdings'
    <3>1. path' \in [Created -> Seq(Tokens)] /\ own' \in [Created -> Nat]
      <4>1. path \in [Created -> Seq(Tokens)] /\ own \in [Created -> Nat]
        BY DEF UnderWay, Holdings
      <4>2. Append(path[b], token) \in Seq(Tokens) /\ own[b] + 1 \in Nat
        BY <2>6
      <4> QED
        BY <2>1, <2>5, <4>1, <4>2
    <3>2. \A c \in Created : own'[c] <= Len(path'[c])
      <4>1. own'[b] <= Len(path'[b])
        BY <2>6, <2>9
      <4> QED
        BY <2>8, <4>1 DEF UnderWay, Holdings
    <3> QED
      BY <2>1, <2>2, <2>7, <3>1, <3>2 DEF UnderWay, Holdings
  <2>13. Lineage'
    <3> SUFFICES ASSUME NEW c \in Created
                 PROVE  /\ parents[c] # None => parents[c] \in Created \ active /\ parents[c] < c
                        /\ path'[c] = (IF parents[c] = None THEN <<>> ELSE path'[parents[c]])
                                        \o OwnTokens(c)'
      BY <2>1, <2>7 DEF Lineage, None, NoBranch
    <3>1. /\ parents[c] # None => parents[c] \in Created \ active /\ parents[c] < c
          /\ path[c] = (IF parents[c] = None THEN <<>> ELSE path[parents[c]]) \o OwnTokens(c)
      BY DEF UnderWay, Lineage
    <3>2. parents[c] # None => path'[parents[c]] = path[parents[c]]
                               /\ path[parents[c]] \in Seq(Tokens)
      BY <2>4, <2>8, <3>1 DEF UnderWay, Holdings
    <3>3. CASE c # b
      BY <2>8, <2>10, <3>1, <3>2, <3>3
    <3>4. CASE c = b
      <4>1. OwnTokens(b) \in Seq(Tokens)
        BY <2>5, OwnTokensLaw DEF UnderWay
      <4> DEFINE start == IF parents[c] = None THEN <<>> ELSE path[parents[c]]
      <4>2. start \in Seq(Tokens) /\ path[c] = start \o OwnTokens(c)
        BY <3>1, <3>2
      <4> HIDE DEF start
      <4>3. Append(path[b], token) = start \o OwnTokens(b)'
        <5>1. PICK T : T = Tokens /\ token \in T
          OBVIOUS
        <5>2. start \in Seq(T) /\ OwnTokens(b) \in Seq(T)
          BY <4>1, <4>2, <5>1
        <5>3. path[b] = start \o OwnTokens(b) /\ OwnTokens(b)' = Append(OwnTokens(b), token)
          BY <2>11, <3>4, <4>2
        <5>4. PICK p, r, w, o : p = start /\ r = OwnTokens(b) /\ w = path[b] /\ o = OwnTokens(b)'
          OBVIOUS
        <5>5. p \in Seq(T) /\ r \in Seq(T) /\ w = p \o r /\ o = Append(r, token)
          BY <5>2, <5>3, <5>4
        <5>6. Append(w, token) = p \o o
          <6>1. w \in Seq(T)
            BY <5>5, ConcatProperties
          <6>2. Append(w, token) = w \o <<token>> /\ o = r \o <<token>> /\ <<token>> \in Seq(T)
            BY <5>1, <5>5, <6>1, AppendIsConcat
          <6> QED
            BY <5>5, <6>2, ConcatAssociative
        <5> QED
          BY <5>4, <5>6
      <4>4. path'[c] = start \o OwnTokens(c)'
        BY <2>9, <3>4, <4>3
      <4> QED
        BY <3>1, <3>2, <4>4 DEF start
    <3> QED
      BY <3>3, <3>4
  <2>14. Agenda'
    BY <2>1, <2>3, <2>4, ListedLaw DEF Agenda
  <2>15. Account' = Accept(Account, e)
    BY <2>1, <2>3, AccountAppend DEF Account
  <2>16. Texts' = [Texts EXCEPT ![b] = Append(@, token)] /\ Ended' = Ended
    BY <2>1, <2>5, <2>7, <2>10, <2>11 DEF Texts, Ended
  <2>17. Accept(Told, e) = Told'
    <3>1. b \in DOMAIN parents \ Ended
      BY <2>5 DEF Created, Ended
    <3>2. TokenIndex(b) = Len(Texts[b])
      BY <2>5, OwnTokensLaw DEF UnderWay, Texts, TokenIndex
    <3>3. PICK p, t, x, m : p = parents /\ t = Texts /\ x = Ended /\ m = Cardinality(merged)
      OBVIOUS
    <3>4. Accept(Listening(p, t, x, prunedCount, m), e)
            = Listening(p, [t EXCEPT ![b] = Append(@, token)], x, prunedCount, m)
      BY <3>1, <3>2, <3>3, TokenAccepted DEF e
    <3> QED
      BY <2>1, <2>16, <3>3, <3>4 DEF Told
  <2> QED
    BY <2>1, <2>2, <2>12, <2>13, <2>14, <2>15, <2>17 DEF UnderWay
<1> QED
  BY <1>1, <1>2

-----------------------------------------------------------------------------
(* Branches that leave the cache.                                          *)

\* What holds of a branch that is taken out of the cache, whatever becomes of it.
LEMMA Removal ==
  ASSUME UnderWay, NEW b \in kv, config' = config, kv' = kv \ {b}, active' = active \ {b},
         UNCHANGED <<parents, path, own, batch>>,
         finalized' \in {finalized, finalized \cup {b}}, merged' \in {merged, merged \cup {b}},
         prunedCount' \in {prunedCount, prunedCount + 1}
  PROVE  /\ Holdings' /\ Lineage' /\ Texts' = Texts
         /\ b \in DOMAIN parents \ Ended
         /\ finalized' = finalized => Ended' = Ended \cup {b}
         /\ finalized' = finalized \cup {b} => Ended' = Ended
         /\ merged' = merged \cup {b} => Cardinality(merged') = Cardinality(merged) + 1
<1>1. Created' = Created /\ Tokens' = Tokens
  BY TokensKept DEF Created
<1>2. \A c : OwnTokens(c)' = OwnTokens(c)
  BY DEF OwnTokens
<1>3. b \in Created /\ b \notin finalized /\ b \notin merged /\ IsFiniteSet(merged)
  BY FS_Subset DEF UnderWay, Holdings
<1>4. Holdings'
  BY <1>1, <1>3 DEF UnderWay, Holdings
<1>5. Lineage'
  BY <1>1, <1>2 DEF UnderWay, Lineage
<1>6. Texts' = Texts
  BY <1>1, <1>2 DEF Texts
<1>7. b \in DOMAIN parents \ Ended
  BY <1>3 DEF Created, Ended
<1>8. /\ finalized' = finalized => Ended' = Ended \cup {b}
      /\ finalized' = finalized \cup {b} => Ended' = Ended
  BY <1>1, <1>3 DEF Ended
<1>9. merged' = merged \cup {b} => Cardinality(merged') = Cardinality(merged) + 1
  BY <1>3, FS_AddElement
<1> QED
  BY <1>4, <1>5, <1>6, <1>7, <1>8, <1>9

LEMMA PruneLowValueStep ==
  ASSUME UnderWay, PruneLowValue
  PROVE  UnderWay' /\ outcome' # "done"
<1>0. PICK b : b = Head(todo)
  OBVIOUS
<1>1. CASE Fail("misaligned")
  BY <1>1, FailStep
<1>2. CASE ~Fail("misaligned")
  <2>1. /\ phase = "value" /\ outcome = "running" /\ b \in kv /\ kv' = kv \ {b}
        /\ active' = active \ {b} /\ prunedCount' = prunedCount + 1
        /\ unsent' = Append(unsent, Pruned(b))
        /\ (\E s : Fed(s)) \/ UNCHANGED <<scheduler, outcome>>
        /\ UNCHANGED <<phase, commands, batch, scores, parents, path, own,
                       finalized, merged, stream>>
    BY <1>0, <1>2 DEF PruneLowValue, At, Prunable, Report
  <2>2. config' = config /\ outcome' # "done"
    BY <2>1, FedKeeps DEF scheduler
  <2>3. /\ Holdings' /\ Lineage' /\ Texts' = Texts
        /\ b \in DOMAIN parents \ Ended /\ Ended' = Ended \cup {b}
    BY <2>1, <2>2, Removal
  <2>4. Listed(unsent)
    BY DEF UnderWay, Agenda
  <2>5. Agenda'
    BY <2>1, <2>4, ListedLaw DEF Agenda
  <2>6. Account' = Accept(Account, Pruned(b))
    BY <2>1, <2>4, AccountAppend DEF Account
  <2>7. Accept(Told, Pruned(b)) = Told'
    BY <2>1, <2>3, PrunedAccepted DEF Told
  <2> QED
    BY <2>1, <2>2, <2>3, <2>5, <2>6, <2>7 DEF UnderWay
<1> QED
  BY <1>1, <1>2

LEMMA MergeStep ==
  ASSUME UnderWay, MergeBranch
  PROVE  UnderWay' /\ outcome' # "done"
<1>0. PICK b, c : b = Head(todo).branch /\ c = Head(todo).into
  OBVIOUS
<1>1. CASE Fail("misaligned") \/ Fail("refused")
  BY <1>1, FailStep
<1>2. CASE ~Fail("misaligned") /\ ~Fail("refused")
  <2>1. /\ phase = "merge" /\ outcome = "running" /\ todo # <<>> /\ b \in kv /\ kv' = kv \ {b}
        /\ active' = active \ {b} /\ merged' = merged \cup {b}
        /\ unsent' = Append(unsent, MergedInto(b, c)) /\ todo' = Tail(todo)
        /\ (\E s : Fed(s)) \/ UNCHANGED <<scheduler, outcome>>
        /\ UNCHANGED <<phase, batch, parents, path, own, finalized, prunedCount, stream>>
    BY <1>0, <1>2 DEF MergeBranch, At, Prunable, Report
  <2>2. config' = config /\ outcome' # "done"
    BY <2>1, FedKeeps DEF scheduler
  <2>3. /\ Holdings' /\ Lineage' /\ Texts' = Texts
        /\ b \in DOMAIN parents \ Ended /\ Ended' = Ended \cup {b}
        /\ Cardinality(merged') = Cardinality(merged) + 1
    BY <2>1, <2>2, Removal
  <2>4. /\ Listed(unsent) /\ Listed(todo)
        /\ \A i, j \in DOMAIN todo : todo[i].into \in kv /\ todo[j].branch # todo[i].into
    BY <2>1 DEF UnderWay, Agenda
  <2>5. /\ 1 \in DOMAIN todo /\ Head(todo) = todo[1] /\ Listed(Tail(todo))
        /\ \A i \in DOMAIN Tail(todo) : i + 1 \in DOMAIN todo /\ Tail(todo)[i] = todo[i + 1]
    BY <2>1, <2>4, ListedLaw
  <2>6. c \in kv /\ c # b /\ c \in DOMAIN parents \ Ended
    <3>1. c \in kv /\ c # b
      BY <1>0, <2>4, <2>5
    <3>2. c \in Created
      BY <3>1 DEF UnderWay, Holdings
    <3> QED
      BY <3>1, <3>2 DEF Created, Ended
  <2>7. Agenda'
    <3>1. Listed(unsent')
      BY <2>1, <2>4, ListedLaw
    <3>2. \A i, j \in DOMAIN Tail(todo) :
            Tail(todo)[i].into \in kv \ {b} /\ Tail(todo)[j].branch # Tail(todo)[i].into
      <4> TAKE i, j \in DOMAIN Tail(todo)
      <4>1. todo[1].branch # todo[i + 1].into /\ todo[i + 1].into \in kv
            /\ todo[j + 1].branch # todo[i + 1].into
        BY <2>4, <2>5
      <4> QED
        BY <1>0, <2>5, <4>1
    <3> QED
      BY <2>1, <2>5, <3>1, <3>2 DEF Agenda
  <2>8. Account' = Accept(Account, MergedInto(b, c))
    BY <2>1, <2>4, AccountAppend DEF Account
  <2>9. Accept(Told, MergedInto(b, c)) = Told'
    BY <2>1, <2>3, <2>6, MergeAccepted DEF Told
  <2> QED
    BY <2>1, <2>2, <2>3, <2>7, <2>8, <2>9 DEF UnderWay
<1> QED
  BY <1>1, <1>2 DEF MergeBranch

LEMMA KillStep ==
  ASSUME UnderWay, TakeKill
  PROVE  UnderWay' /\ outcome' # "done"
<1>0. PICK b : b = Head(commands).branch
  OBVIOUS
<1>1. CASE Fail("misaligned")
  BY <1>1, FailStep
<1>2. CASE ~Fail("misaligned")
  <2>1. /\ phase = "loop" /\ outcome = "running" /\ b \in kv /\ kv' = kv \ {b}
        /\ active' = active \ {b} /\ prunedCount' = prunedCount + 1
        /\ stream' = Accept(stream, Pruned(b))
        /\ UNCHANGED <<scheduler, phase, batch, todo, parents, path, own, finalized,
                       merged, unsent, outcome>>
    BY <1>0, <1>2 DEF TakeKill, Taking, At, Prunable
  <2>2. config' = config
    BY <2>1 DEF scheduler
  <2>3. /\ Holdings' /\ Lineage' /\ Texts' = Texts
        /\ b \in DOMAIN parents \ Ended /\ Ended' = Ended \cup {b}
    BY <2>1, <2>2, Removal
  <2>4. unsent = <<>>
    BY <2>1 DEF UnderWay, Agenda
  <2>5. Agenda'
    BY <2>1 DEF UnderWay, Agenda
  <2>6. Account' = Accept(Account, Pruned(b))
    BY <2>1, <2>4, AccountEmpty DEF Account
  <2>7. Accept(Told, Pruned(b)) = Told'
    BY <2>1, <2>3, PrunedAccepted DEF Told
  <2>8. Account' = Told' /\ unsent' = <<>>
    BY <2>1, <2>4, <2>6, <2>7 DEF UnderWay
  <2> QED
    BY <2>1, <2>3, <2>5, <2>8, AllYieldedNext DEF UnderWay
<1> QED
  BY <1>1, <1>2

LEMMA FinalizeStep ==
  ASSUME UnderWay, TakeFinalize
  PROVE  UnderWay' /\ outcome' # "done"
<1>0. PICK b : b = Head(commands).branch
  OBVIOUS
<1>1. CASE Fail("misaligned")
  BY <1>1, FailStep
<1>2. CASE ~Fail("misaligned")
  <2>1. /\ phase = "loop" /\ outcome = "running" /\ b \in kv /\ kv' = kv \ {b}
        /\ active' = active \ {b} /\ finalized' = finalized \cup {b}
        /\ UNCHANGED <<scheduler, phase, batch, todo, parents, path, own, prunedCount,
                       merged, unsent, stream, outcome>>
    BY <1>0, <1>2 DEF TakeFinalize, Taking, At, Prunable, streamVars
  <2>2. config' = config
    BY <2>1 DEF scheduler
  <2>3. Holdings' /\ Lineage' /\ Texts' = Texts /\ Ended' = Ended
    BY <2>1, <2>2, Removal
  <2>4. Agenda'
    BY <2>1 DEF UnderWay, Agenda
  <2>5. Account' = Account /\ Told' = Told
    BY <2>1, <2>3 DEF Account, Told
  <2> QED
    BY <2>1, <2>3, <2>4, <2>5 DEF UnderWay
<1> QED
  BY <1>1, <1>2

-----------------------------------------------------------------------------
(* What is merged.                                                         *)

\* Min of a set of naturals is its least element.
LEMMA MinLaw ==
  ASSUME NEW S \in SUBSET Nat, S # {}
  PROVE  Min(S) \in S /\ \A x \in S : Min(S) <= x
<1>1. \E x \in S : \A y \in S : x <= y
  BY MinExists
<1> QED
  BY <1>1, Zenon DEF Min

\* Nothing is merged into a branch that is itself merged into another one: the
\* branches with the same text all go into the same one.
LEMMA MergesLaw ==
  ASSUME Holdings, NEW polled
  PROVE  /\ Listed(Merges(polled))
         /\ \A i, j \in DOMAIN Merges(polled) :
              /\ Merges(polled)[i].into \in kv
              /\ Merges(polled)[j].branch # Merges(polled)[i].into
<1> DEFINE named(ops) == {polled[i].branch : i \in {j \in DOMAIN polled : polled[j].op \in ops}}
           closed == named({"kill", "finalize"})
                       \cup {b \in active : tree.state[b] \in {"killed", "finalized"}}
           expanding == named({"fork"}) \cup {b \in active : tree.state[b] = "expanded"}
           eligible == {b \in active \ (stopping \cup expanding) : Aligned(b)}
           twins(b) == {a \in eligible : path[a] = path[b]}
           open(b) == twins(b) \ closed
           target(b) == IF open(b) # {} THEN Min(open(b)) ELSE Min(twins(b))
           goes == {b \in eligible : target(b) # b}
           before(a, b) == \/ Min(twins(a)) < Min(twins(b))
                           \/ Min(twins(a)) = Min(twins(b)) /\ a < b
           order == Sorted(goes, before)
           merge(i) == [branch |-> order[i], into |-> target(order[i]),
                        feed |-> order[i] \notin closed]
           R == {p \in goes \X goes : before(p[1], p[2])}
           rank == [x \in goes |-> Cardinality({y \in goes : before(y, x)})]
<1>1. Merges(polled) = [i \in DOMAIN order |-> merge(i)]
  BY DEF Merges
<1>2. eligible \in SUBSET kv /\ eligible \in SUBSET Nat /\ IsFiniteSet(eligible)
  <2>1. eligible \subseteq kv /\ kv \subseteq Created
    BY DEF Holdings
  <2>2. IsFiniteSet(Created) /\ Cardinality(Created) \in Nat /\ Created = 0 .. Cardinality(Created) - 1
    BY FS_CardinalityType DEF Holdings
  <2>3. Created \subseteq Nat
    BY <2>2
  <2> HIDE DEF eligible
  <2> QED
    BY <2>1, <2>2, <2>3, FS_Subset
<1> HIDE DEF closed, expanding, eligible
<1>3. \A b \in eligible : /\ b \in twins(b) /\ twins(b) \in SUBSET eligible
                          /\ Min(twins(b)) \in twins(b) /\ Min(twins(b)) \in Nat
                          /\ target(b) \in eligible /\ path[target(b)] = path[b]
  <2> TAKE b \in eligible
  <2>1. b \in twins(b) /\ twins(b) \in SUBSET eligible /\ open(b) \in SUBSET twins(b)
    OBVIOUS
  <2>2. Min(twins(b)) \in twins(b)
    <3> HIDE DEF twins
    <3>1. twins(b) \in SUBSET Nat /\ twins(b) # {}
      BY <1>2, <2>1
    <3> QED
      BY <3>1, MinLaw
  <2>3. open(b) # {} => Min(open(b)) \in open(b)
    <3> HIDE DEF twins, open
    <3>1. open(b) \in SUBSET Nat
      BY <1>2, <2>1
    <3> QED
      BY <3>1, MinLaw
  <2>4. target(b) \in twins(b)
    <3> HIDE DEF twins, open
    <3> QED
      BY <2>1, <2>2, <2>3
  <2> HIDE DEF target
  <2> QED
    BY <1>2, <2>1, <2>2, <2>4
<1>4. \A a, b \in eligible : path[a] = path[b] => target(a) = target(b)
  OBVIOUS
<1>5. \A b \in eligible : target(b) \in kv \ goes
  <2> HIDE DEF target
  <2> QED
    BY <1>2, <1>3, <1>4
<1>6. goes \in SUBSET eligible /\ IsFiniteSet(goes)
  <2> HIDE DEF target
  <2> QED
    BY <1>2, FS_Subset
<1>7. \A a, b \in goes : before(a, b) <=> <<a, b>> \in R
  <2> HIDE DEF goes, before
  <2> QED
    OBVIOUS
<1>8. StrictOrder(R, goes)
  <2>1. \A a \in goes : a \in Nat /\ Min(twins(a)) \in Nat
    BY <1>2, <1>3, <1>6
  <2> HIDE DEF goes, twins
  <2>2. \A a \in goes : ~before(a, a)
    BY <2>1
  <2>3. \A a, b \in goes : a # b => before(a, b) \/ before(b, a)
    BY <2>1
  <2>4. \A a, b, c \in goes : before(a, b) /\ before(b, c) => before(a, c)
    BY <2>1
  <2> HIDE DEF before, R
  <2> QED
    BY <1>7, <2>2, <2>3, <2>4 DEF StrictOrder
<1> HIDE DEF goes, target
<1>9. order = [i \in 1 .. Cardinality(goes) |-> CHOOSE x \in goes : rank[x] = i - 1]
  BY DEF Sorted
<1> HIDE DEF order
<1>10. IsRank(rank, R, goes)
  <2>1. \A x \in goes : {y \in goes : before(y, x)} = Below(R, goes, x)
    <3> HIDE DEF before, R
    <3> QED
      BY <1>7 DEF Below
  <2> HIDE DEF R, before
  <2> QED
    BY <2>1 DEF IsRank
<1> HIDE DEF rank, R, before
<1>11. ListedBy(order, rank, goes)
  <2> DEFINE at(i) == CHOOSE x \in goes : rank[x] = i - 1
  <2>1. \A i : (\E x \in goes : rank[x] = i - 1) => at(i) \in goes /\ rank[at(i)] = i - 1
    BY Zenon
  <2>2. order = [i \in 1 .. Cardinality(goes) |-> at(i)]
    BY <1>9
  <2> HIDE DEF at
  <2> QED
    BY <2>1, <2>2 DEF ListedBy
<1>12. order \in Seq(goes) /\ \A i \in DOMAIN order : order[i] \in goes
  <2>1. Lists(order, goes, R)
    BY <1>6, <1>8, <1>10, <1>11, RankedListing
  <2> QED
    BY <2>1 DEF Lists
<1>13. Listed(Merges(polled))
  <2> HIDE DEF merge
  <2>1. DOMAIN order = 1 .. Len(order) /\ Len(order) \in Nat
    BY <1>12
  <2>2. Merges(polled) \in Seq({merge(i) : i \in DOMAIN order})
    BY <1>1, <2>1
  <2> QED
    BY <2>2 DEF Listed
<1>14. \A i \in DOMAIN Merges(polled) :
         order[i] \in goes /\ Merges(polled)[i].branch = order[i]
         /\ Merges(polled)[i].into = target(order[i])
  BY <1>1, <1>12
<1> QED
  BY <1>5, <1>6, <1>13, <1>14

LEMMA PollStep ==
  ASSUME UnderWay, PollCommands
  PROVE  UnderWay' /\ outcome' # "done"
<1>1. /\ outcome = "running" /\ phase' = "merge" /\ todo' = Merges(queue) /\ config' = config
      /\ UNCHANGED <<batch, branchVars, unsent, stream, outcome>>
  BY DEF PollCommands, At, TakeQueue
<1>2. UNCHANGED StreamVars /\ batch' = batch /\ outcome' # "done"
  BY <1>1 DEF StreamVars, branchVars
<1>3. Agenda'
  <2>1. Listed(unsent')
    BY <1>1 DEF UnderWay, Agenda
  <2>2. Listed(todo') /\ \A i, j \in DOMAIN todo' :
                           todo'[i].into \in kv' /\ todo'[j].branch # todo'[i].into
    BY <1>1, <1>2, MergesLaw DEF UnderWay, StreamVars
  <2> QED
    BY <1>1, <2>1, <2>2 DEF Agenda
<1>4. batch' \in Seq(Created)
  BY <1>2 DEF UnderWay, Holdings
<1> QED
  BY <1>1, <1>2, <1>3, <1>4, Quiet

LEMMA FinishStep ==
  ASSUME UnderWay, FinishBatch
  PROVE  UnderWay' /\ outcome' # "done"
<1>1. /\ outcome = "running" /\ phase' = "loop" /\ batch' = <<>> /\ config' = config
      /\ stream' = Account /\ unsent' = <<>> /\ UNCHANGED <<branchVars, outcome>>
  BY DEF FinishBatch, At, TakeQueue, Account
<1>2. UNCHANGED <<parents, path, own, active, finalized, merged, prunedCount, kv>>
  BY <1>1 DEF branchVars
<1>3. Created' = Created /\ Tokens' = Tokens /\ \A b : OwnTokens(b)' = OwnTokens(b)
  BY <1>1, <1>2, TokensKept DEF Created, OwnTokens
<1>4. Holdings'
  BY <1>1, <1>2, <1>3 DEF UnderWay, Holdings
<1>5. Lineage'
  BY <1>2, <1>3 DEF UnderWay, Lineage
<1>6. Agenda'
  BY <1>1 DEF Agenda, Listed
<1>7. Account' = Account
  BY <1>1, AccountEmpty DEF Account
<1>8. Told' = Told
  BY <1>2, <1>3 DEF Told, Texts, Ended
<1>9. Account' = Told' /\ unsent' = <<>>
  BY <1>1, <1>7, <1>8 DEF UnderWay
<1> QED
  BY <1>1, <1>4, <1>5, <1>6, <1>9, AllYieldedNext DEF UnderWay

-----------------------------------------------------------------------------
(* Branches started and ended one after the other.                         *)

\* q lists S, each element once.
OnceEach(q, S) ==
  /\ DOMAIN q = 1 .. Cardinality(S) /\ {q[i] : i \in 1 .. Cardinality(S)} = S
  /\ \A i, j \in 1 .. Cardinality(S) : i # j => q[i] # q[j]

LEMMA AscendingOnce ==
  ASSUME NEW S \in SUBSET Int, IsFiniteSet(S)
  PROVE  OnceEach(Ascending(S), S) /\ Cardinality(S) \in Nat
<1> DEFINE rank == [x \in S |-> Cardinality({y \in S : y < x})]
           q == [i \in 1 .. Cardinality(S) |-> CHOOSE x \in S : rank[x] = i - 1]
<1>1. Ascending(S) = q
  BY DEF Ascending, Sorted
<1>2. DOMAIN q = 1 .. Cardinality(S) /\ Cardinality(S) \in Nat
  BY FS_CardinalityType
<1>3. /\ q \in Seq(S) /\ {q[i] : i \in DOMAIN q} = S
      /\ \A i, j \in DOMAIN q : i < j => q[i] < q[j]
  <2>1. rank = SmallerIn(S) /\ q = ByRank(rank, S)
    BY DEF SmallerIn, ByRank
  <2> HIDE DEF rank, q
  <2> QED
    BY <2>1, AscendingOrder
<1> HIDE DEF q
<1>4. \A i, j \in 1 .. Cardinality(S) : i # j => q[i] # q[j]
  <2> TAKE i, j \in 1 .. Cardinality(S)
  <2>1. q[i] \in Int /\ q[j] \in Int
    BY <1>2, <1>3
  <2>2. i < j \/ j < i \/ i = j
    OBVIOUS
  <2> QED
    BY <1>2, <1>3, <2>1, <2>2
<1> QED
  BY <1>1, <1>2, <1>3, <1>4 DEF OnceEach

\* f with the value w for each of S besides.
Extended(f, S, w) == [c \in DOMAIN f \cup S |-> IF c \in S THEN w ELSE f[c]]

\* The children of a fork are started one after the other.
LEMMA StartAll ==
  ASSUME NEW p, p = [c \in DOMAIN p |-> p[c]], NEW t, t = [c \in DOMAIN t |-> t[c]],
         NEW x, NEW n, NEW m, NEW b \in DOMAIN p, NEW S, IsFiniteSet(S),
         S \cap DOMAIN p = {}, NEW q, OnceEach(q, S), Head(commands).branch = b
  PROVE  FoldLeft(StartOne, Listening(p, t, x, n, m), q)
           = Listening(Extended(p, S, b), Extended(t, S, <<>>), x, n, m)
<1> DEFINE k == Cardinality(S)
           first(i) == {q[j] : j \in 1 .. i}
           grown(f, T, w) == [c \in DOMAIN f \cup T |-> IF c \in T THEN w ELSE f[c]]
           state(i) == Listening(grown(p, first(i), b), grown(t, first(i), <<>>), x, n, m)
<1>1. k \in Nat /\ DOMAIN q = 1 .. k /\ first(k) = S
      /\ \A i, j \in 1 .. k : i # j => q[i] # q[j]
  BY FS_CardinalityType DEF OnceEach
<1> HIDE DEF k
<1>2. PICK v : Starting!Through(v, Listening(p, t, x, n, m), q, k)
  BY <1>1, Starting!FoldThrough
<1>3. /\ v[0] = Listening(p, t, x, n, m)
      /\ \A i \in 1 .. k : v[i] = StartOne(v[i - 1], q[i])
      /\ Starting!Result(Listening(p, t, x, n, m), q) = v[k]
  BY <1>2 DEF Starting!Through
<1> DEFINE Good == {i \in 0 .. k : v[i] = state(i)}
<1>4. 0 \in Good
  <2>1. first(0) = {} /\ 0 \in 0 .. k
    BY <1>1
  <2>2. grown(p, {}, b) = p /\ grown(t, {}, <<>>) = t
    OBVIOUS
  <2>3. state(0) = Listening(p, t, x, n, m)
    <3> HIDE DEF grown, first
    <3> QED
      BY <2>1, <2>2
  <2> HIDE DEF state
  <2> QED
    BY <1>3, <2>1, <2>3
<1>5. ASSUME NEW i \in 0 .. k - 1, i \in Good PROVE i + 1 \in Good
  <2> DEFINE c == q[i + 1]
  <2>1. i + 1 \in 1 .. k /\ (i + 1) - 1 = i /\ v[i] = state(i) /\ i + 1 \in 0 .. k /\ i \in Nat
    <3> HIDE DEF state
    <3> QED
      BY <1>1, <1>5
  <2>2. v[i + 1] = StartOne(state(i), c)
    <3> HIDE DEF state
    <3> QED
      BY <1>3, <2>1
  <2>3. first(i + 1) = first(i) \cup {c}
    <3>1. 1 .. i + 1 = (1 .. i) \cup {i + 1}
      BY <2>1
    <3> QED
      BY <3>1
  <2>4. c \in S /\ c \notin first(i)
    <3>1. c \in S
      BY <1>1, <2>1
    <3>2. \A j \in 1 .. i : j \in 1 .. k /\ j # i + 1
      BY <1>1, <2>1
    <3> QED
      BY <1>1, <2>1, <3>1, <3>2
  <2>5. \A f, w : Entered(grown(f, first(i), w), c, w) = grown(f, first(i + 1), w)
    <3> HIDE DEF c, first
    <3> QED
      BY <2>3 DEF Entered
  <2>6. DOMAIN grown(p, first(i), b) = DOMAIN p \cup first(i)
    OBVIOUS
  <2> HIDE DEF grown, first
  <2>7. c \notin DOMAIN grown(p, first(i), b) /\ b \in DOMAIN grown(p, first(i), b)
    BY <2>4, <2>6
  <2>8. Accept(state(i), Started(c, b)) = state(i + 1)
    BY <2>5, <2>7, StartAccepted
  <2> HIDE DEF state, c
  <2> QED
    BY <2>1, <2>2, <2>8 DEF StartOne
<1>6. v[k] = state(k)
  <2> HIDE DEF Good
  <2>1. 0 .. k \subseteq Good
    BY <1>1, <1>4, <1>5, IntervalInduction
  <2> HIDE DEF state
  <2> QED
    BY <1>1, <2>1 DEF Good
<1>7. FoldLeft(StartOne, Listening(p, t, x, n, m), q) = v[k]
  BY <1>3 DEF Starting!Result, FoldLeft, MapThenFoldSet, Max, Starting!FoldLeft,
              Starting!MapThenFoldSet, Starting!Max
<1> QED
  BY <1>1, <1>6, <1>7 DEF Extended

\* The candidates that did not win are pruned one after the other.
LEMMA PruneAll ==
  ASSUME NEW p, NEW t, NEW x, NEW n \in Int, NEW m, NEW S, IsFiniteSet(S),
         S \subseteq DOMAIN p \ x, NEW q, OnceEach(q, S)
  PROVE  FoldLeft(PruneOne, Listening(p, t, x, n, m), q)
           = Listening(p, t, x \cup S, n + Cardinality(S), m)
<1> DEFINE k == Cardinality(S)
           first(i) == {q[j] : j \in 1 .. i}
           state(i) == Listening(p, t, x \cup first(i), n + i, m)
<1>1. k \in Nat /\ DOMAIN q = 1 .. k /\ first(k) = S
      /\ \A i, j \in 1 .. k : i # j => q[i] # q[j]
  BY FS_CardinalityType DEF OnceEach
<1> HIDE DEF k
<1>2. PICK v : Discarding!Through(v, Listening(p, t, x, n, m), q, k)
  BY <1>1, Discarding!FoldThrough
<1>3. /\ v[0] = Listening(p, t, x, n, m)
      /\ \A i \in 1 .. k : v[i] = PruneOne(v[i - 1], q[i])
      /\ Discarding!Result(Listening(p, t, x, n, m), q) = v[k]
  BY <1>2 DEF Discarding!Through
<1> DEFINE Good == {i \in 0 .. k : v[i] = state(i)}
<1>4. 0 \in Good
  <2>1. x \cup first(0) = x /\ 0 \in 0 .. k /\ n + 0 = n
    BY <1>1
  <2>2. state(0) = Listening(p, t, x, n, m)
    <3> HIDE DEF first
    <3> QED
      BY <2>1
  <2> HIDE DEF state
  <2> QED
    BY <1>3, <2>1, <2>2
<1>5. ASSUME NEW i \in 0 .. k - 1, i \in Good PROVE i + 1 \in Good
  <2> DEFINE c == q[i + 1]
  <2>1. i + 1 \in 1 .. k /\ (i + 1) - 1 = i /\ v[i] = state(i) /\ i + 1 \in 0 .. k /\ i \in Nat
    <3> HIDE DEF state
    <3> QED
      BY <1>1, <1>5
  <2>2. v[i + 1] = PruneOne(state(i), c)
    <3> HIDE DEF state
    <3> QED
      BY <1>3, <2>1
  <2>3. x \cup first(i + 1) = (x \cup first(i)) \cup {c}
    <3>1. 1 .. i + 1 = (1 .. i) \cup {i + 1}
      BY <2>1
    <3> QED
      BY <3>1
  <2>4. c \in DOMAIN p \ (x \cup first(i))
    <3>1. c \in S
      BY <1>1, <2>1
    <3>2. \A j \in 1 .. i : j \in 1 .. k /\ j # i + 1
      BY <1>1, <2>1
    <3> QED
      BY <1>1, <2>1, <3>1, <3>2
  <2> HIDE DEF first, c
  <2>5. (n + i) + 1 = n + (i + 1)
    BY <2>1
  <2>6. state(i + 1) = Listening(p, t, (x \cup first(i)) \cup {c}, (n + i) + 1, m)
    BY <2>3, <2>5
  <2>7. Accept(state(i), Pruned(c)) = state(i + 1)
    BY <2>4, <2>6, PrunedAccepted
  <2> HIDE DEF state
  <2> QED
    BY <2>1, <2>2, <2>7 DEF PruneOne
<1>6. v[k] = state(k)
  <2> HIDE DEF Good
  <2>1. 0 .. k \subseteq Good
    BY <1>1, <1>4, <1>5, IntervalInduction
  <2> HIDE DEF state
  <2> QED
    BY <1>1, <2>1 DEF Good
<1>7. FoldLeft(PruneOne, Listening(p, t, x, n, m), q) = v[k]
  BY <1>3 DEF Discarding!Result, FoldLeft, MapThenFoldSet, Max, Discarding!FoldLeft,
              Discarding!MapThenFoldSet, Discarding!Max
<1> HIDE DEF state
<1>8. state(k) = Listening(p, t, x \cup S, n + k, m)
  BY <1>1 DEF state
<1> QED
  BY <1>6, <1>7, <1>8 DEF k

-----------------------------------------------------------------------------
(* A fork.                                                                 *)

LEMMA ForkStep ==
  ASSUME UnderWay, TakeFork
  PROVE  UnderWay' /\ outcome' # "done"
<1>0. PICK b, S : b = Head(commands).branch /\ S = NewBranches
  OBVIOUS
<1>1. CASE Fail("misaligned")
  BY <1>1, FailStep
<1>2. CASE ~Fail("misaligned")
  <2> DEFINE born(f, value) == [c \in DOMAIN f \cup S |-> IF c \in S THEN value ELSE f[c]]
             n == Cardinality(Created)
  <2>1. /\ phase = "loop" /\ outcome = "running" /\ b \in active
        /\ parents' = born(parents, b) /\ path' = born(path, path[b]) /\ own' = born(own, 0)
        /\ active' = (active \ {b}) \cup S /\ kv' = kv \cup S
        /\ stream' = FoldLeft(StartOne, stream, Ascending(S))
        /\ UNCHANGED <<scheduler, phase, batch, todo, finalized, merged, prunedCount,
                       unsent, outcome>>
    BY <1>0, <1>2 DEF TakeFork, Taking, At
  <2>2. config' = config /\ Tokens' = Tokens
    BY <2>1, TokensKept DEF scheduler
  <2>3. n \in Nat /\ Created = 0 .. n - 1 /\ ForkWidth \in Nat \ {0} /\ S = n .. n + ForkWidth - 1
    <3>1. n \in Nat /\ Created = 0 .. n - 1
      BY FS_CardinalityType DEF UnderWay, Holdings
    <3>2. ForkWidth \in Nat \ {0}
      BY SchedulerCoreAssumption DEF UnderWay, Holdings, ForkWidth
    <3> QED
      BY <1>0, <3>1, <3>2 DEF NewBranches
  <2>4. /\ S \cap Created = {} /\ IsFiniteSet(S) /\ S \in SUBSET Int
        /\ Created \cup S = 0 .. (n + ForkWidth) - 1
        /\ \A c \in Created, d \in S : c < d
    <3> HIDE DEF n
    <3>1. n \in Int /\ n + ForkWidth - 1 \in Int
      BY <2>3
    <3>2. IsFiniteSet(S)
      BY <2>3, <3>1, FS_Interval
    <3> QED
      BY <2>3, <3>2
  <2>5. Created' = Created \cup S /\ IsFiniteSet(Created') /\ Created' = 0 .. Cardinality(Created') - 1
    <3>1. Created' = Created \cup S
      BY <2>1 DEF Created
    <3> HIDE DEF n
    <3>2. n + ForkWidth - 1 \in Int /\ 0 \in Int /\ 0 <= n + ForkWidth - 1
      BY <2>3
    <3>3. IsFiniteSet(0 .. (n + ForkWidth) - 1)
          /\ Cardinality(0 .. (n + ForkWidth) - 1) = n + ForkWidth
      BY <2>3, <3>2, FS_Interval
    <3> QED
      BY <2>4, <3>1, <3>3
  <2>6. /\ b \in Created /\ b \notin S /\ active \subseteq kv /\ kv \subseteq Created
        /\ path[b] \in Seq(Tokens)
    BY <2>1, <2>4 DEF UnderWay, Holdings
  <2>7. \A c \in Created : c \notin S /\ parents'[c] = parents[c] /\ path'[c] = path[c] /\ own'[c] = own[c]
    BY <2>1, <2>4 DEF UnderWay, Holdings
  <2>8. \A c \in S : parents'[c] = b /\ path'[c] = path[b] /\ own'[c] = 0
    BY <2>1
  <2>9. \A c \in Created : OwnTokens(c)' = OwnTokens(c)
    BY <2>7 DEF OwnTokens
  <2>10. \A c \in S : OwnTokens(c)' = <<>>
    <3> TAKE c \in S
    <3>1. OwnTokens(c)' = Latest(path[b], 0)
      BY <2>8 DEF OwnTokens, Latest
    <3>2. Len(path[b]) \in Nat /\ 0 <= Len(path[b]) /\ 0 \in Nat
      BY <2>6
    <3> QED
      BY <2>6, <3>1, <3>2, LatestLaw
  <2> HIDE DEF n
  <2>11. Holdings'
    <3>1. parents' \in [Created' -> Created' \cup {None}]
      BY <2>1, <2>5, <2>6 DEF UnderWay, Holdings, None
    <3>2. path' \in [Created' -> Seq(Tokens)]
      BY <2>1, <2>5, <2>6 DEF UnderWay, Holdings
    <3>3. own' \in [Created' -> Nat]
      BY <2>1, <2>5 DEF UnderWay, Holdings
    <3>4. \A c \in Created' : own'[c] <= Len(path'[c])
      <4>1. \A c \in Created : own'[c] <= Len(path'[c])
        BY <2>7 DEF UnderWay, Holdings
      <4>2. 0 <= Len(path[b])
        BY <2>6
      <4> QED
        BY <2>5, <2>8, <4>1, <4>2
    <3>5. /\ active' \subseteq kv' /\ kv' \subseteq Created'
          /\ finalized' \subseteq Created' \ kv' /\ merged' \subseteq Created' \ kv'
      BY <2>1, <2>4, <2>5, <2>6 DEF UnderWay, Holdings
    <3>6. batch' \in Seq(Created')
      <4>1. batch \in Seq(Created) /\ Created \subseteq Created'
        BY <2>5 DEF UnderWay, Holdings
      <4> QED
        BY <2>1, <4>1
    <3>7. config' \in Configs /\ prunedCount' \in Nat
      BY <2>1, <2>2 DEF UnderWay, Holdings
    <3> QED
      BY <2>2, <2>5, <3>1, <3>2, <3>3, <3>4, <3>5, <3>6, <3>7 DEF Holdings, None, NoBranch
  <2>12. Lineage'
    <3> SUFFICES ASSUME NEW c \in Created \cup S
                 PROVE  /\ parents'[c] # None => parents'[c] \in Created' \ active' /\ parents'[c] < c
                        /\ path'[c] = (IF parents'[c] = None THEN <<>> ELSE path'[parents'[c]])
                                        \o OwnTokens(c)'
      BY <2>5 DEF Lineage, None
    <3>1. CASE c \in Created
      <4>1. /\ parents[c] # None => parents[c] \in Created \ active /\ parents[c] < c
            /\ path[c] = (IF parents[c] = None THEN <<>> ELSE path[parents[c]]) \o OwnTokens(c)
        BY <3>1 DEF UnderWay, Lineage
      <4>2. parents[c] # None => parents[c] \in Created' \ active' /\ path'[parents[c]] = path[parents[c]]
        BY <2>1, <2>5, <2>7, <4>1
      <4> QED
        BY <2>7, <2>9, <3>1, <4>1, <4>2
    <3>2. CASE c \in S
      <4>1. parents'[c] = b /\ b # None /\ b < c /\ b \in Created' \ active'
        BY <2>1, <2>3, <2>4, <2>5, <2>6, <2>8, <3>2 DEF None, NoBranch
      <4>2. path[b] \o <<>> = path[b]
        BY <2>6, ConcatEmptySeq
      <4> QED
        BY <2>6, <2>7, <2>8, <2>10, <3>2, <4>1, <4>2
    <3> QED
      BY <3>1, <3>2
  <2>13. Agenda'
    BY <2>1 DEF UnderWay, Agenda
  <2>14. stream = Told /\ Account' = stream' /\ unsent' = <<>>
    BY <2>1, AccountEmpty DEF UnderWay, Agenda, Account
  <2>15. Texts' = born(Texts, <<>>)
    <3>1. DOMAIN Texts = Created /\ \A c \in Created : Texts[c] = OwnTokens(c)
      BY DEF Texts
    <3>2. Texts' = [c \in Created \cup S |-> OwnTokens(c)']
      BY <2>5 DEF Texts
    <3> QED
      BY <2>7, <2>9, <2>10, <3>1, <3>2
  <2>16. Ended' = Ended
    BY <2>1, <2>4, <2>5 DEF Ended
  <2>17. FoldLeft(StartOne, Told, Ascending(S)) = Told'
    <3>1. OnceEach(Ascending(S), S)
      BY <2>4, AscendingOnce
    <3>2. parents = [c \in DOMAIN parents |-> parents[c]] /\ Texts = [c \in DOMAIN Texts |-> Texts[c]]
          /\ b \in DOMAIN parents /\ S \cap DOMAIN parents = {} /\ Head(commands).branch = b
      BY <1>0, <2>4, <2>6 DEF UnderWay, Holdings, Texts, Created
    <3>3. PICK p, t, x, k, m, q : /\ p = parents /\ t = Texts /\ x = Ended /\ k = prunedCount
                                  /\ m = Cardinality(merged) /\ q = Ascending(S)
      OBVIOUS
    <3>4. FoldLeft(StartOne, Listening(p, t, x, k, m), q)
            = Listening(Extended(p, S, b), Extended(t, S, <<>>), x, k, m)
      <4>1. /\ p = [c \in DOMAIN p |-> p[c]] /\ t = [c \in DOMAIN t |-> t[c]]
            /\ b \in DOMAIN p /\ S \cap DOMAIN p = {} /\ OnceEach(q, S)
            /\ IsFiniteSet(S) /\ Head(commands).branch = b
        BY <2>4, <3>1, <3>2, <3>3
      <4> QED
        BY <4>1, StartAll
    <3>5. Told' = Listening(Extended(p, S, b), Extended(t, S, <<>>), x, k, m)
      BY <2>1, <2>15, <2>16, <3>3 DEF Told, Extended
    <3> QED
      BY <3>3, <3>4, <3>5 DEF Told
  <2>18. Account' = Told'
    BY <2>1, <2>14, <2>17
  <2> QED
    BY <2>1, <2>11, <2>12, <2>13, <2>14, <2>18, AllYieldedNext DEF UnderWay
<1> QED
  BY <1>1, <1>2

-----------------------------------------------------------------------------
(* The account.                                                            *)

\* The server puts the text of a branch together as the engine did.
LEMMA TextAgrees ==
  ASSUME Holdings, Lineage, NEW x, NEW n, NEW m, NEW b \in Created
  PROVE  PathText(Listening(parents, Texts, x, n, m), b) = path[b]
<1> DEFINE s == Listening(parents, Texts, x, n, m)
           Joined(f, c) == (IF parents[c] = NoBranch THEN <<>> ELSE f[parents[c]]) \o Texts[c]
           Sol(f) == f = [c \in Created |-> Joined(f, c)]
           text == CHOOSE f : Sol(f)
<1>1. PathText(s, b) = text[b]
  BY DEF PathText, StartedIn, Listening, Created
<1>2. path = [c \in Created |-> path[c]] /\ \A c \in Created : path[c] = Joined(path, c)
  BY DEF Holdings, Lineage, Texts, None
<1>3. Sol(path)
  <2> HIDE DEF Joined
  <2> QED
    BY <1>2
<1>4. Sol(text)
  <2> HIDE DEF Sol
  <2> QED
    BY <1>3, Zenon
<1> HIDE DEF text
<1>5. \A c \in Created : text[c] = Joined(text, c)
  <2> HIDE DEF Joined
  <2> QED
    BY <1>4
<1>6. \A c \in Created : parents[c] = NoBranch \/ (parents[c] \in Created /\ parents[c] < c)
  BY DEF Lineage, None
<1>7. Created \in SUBSET Nat
  <2>1. Cardinality(Created) \in Nat /\ Created = 0 .. Cardinality(Created) - 1
    BY FS_CardinalityType DEF Holdings
  <2> QED
    BY <2>1
<1>8. \A c \in Created : text[c] = path[c]
  <2> DEFINE Wrong == {c \in Created : text[c] # path[c]}
  <2> SUFFICES ASSUME Wrong # {} PROVE FALSE
    OBVIOUS
  <2>1. Wrong \in SUBSET Nat
    BY <1>7
  <2>2. PICK c \in Wrong : \A d \in Wrong : c <= d
    <3> HIDE DEF Wrong
    <3> QED
      BY <2>1, MinExists
  <2>3. c \in Created /\ text[c] # path[c]
    OBVIOUS
  <2>4. parents[c] # NoBranch => text[parents[c]] = path[parents[c]]
    <3>1. \A d \in Created : d < c => text[d] = path[d]
      BY <1>7, <2>2
    <3> QED
      BY <1>6, <2>3, <3>1
  <2>5. Joined(text, c) = Joined(path, c)
    BY <2>4
  <2> HIDE DEF Joined, Wrong
  <2> QED
    BY <1>2, <1>5, <2>3, <2>5
<1> QED
  BY <1>1, <1>8

\* The account is accepted exactly if the cache is empty and its ratio is at least 1.
LEMMA AccountStep ==
  ASSUME UnderWay, EndGeneration, outcome' = "done"
  PROVE  Settled'
<1>1. PICK winner \in Winners :
        /\ phase = "loop"
        /\ stream' = Accept(FoldLeft(PruneOne, stream, Ascending(finalized \ {winner})), Done(winner))
        /\ kv' = kv /\ reused' = reused
  BY DEF EndGeneration, At, Fail
<1>2. winner \in finalized
  <2>1. \A group \in UNION Groupings : group \in SUBSET finalized
    BY DEF Groupings
  <2>2. CASE ExternalValues
    <3>1. \E groups \in Groupings : \E group \in groups : winner \in group
      BY <2>2 DEF Winners, Best
    <3> QED
      BY <2>1, <3>1
  <2>3. CASE ~ExternalValues
    BY <2>3 DEF Winners, Best
  <2> QED
    BY <2>2, <2>3
<1> DEFINE S == finalized \ {winner}
           x == Ended \cup S
           s == Listening(parents, Texts, x, prunedCount + Cardinality(S), Cardinality(merged))
<1>3. /\ finalized \subseteq Created \ kv /\ kv \subseteq Created /\ IsFiniteSet(Created)
      /\ prunedCount \in Int /\ Holdings /\ Lineage /\ own \in [Created -> Nat]
      /\ Created \in SUBSET Int
  <2>1. Created = 0 .. Cardinality(Created) - 1
    BY DEF UnderWay, Holdings
  <2>2. Cardinality(Created) \in Nat
    BY FS_CardinalityType DEF UnderWay, Holdings
  <2>3. Created \in SUBSET Int
    BY <2>1, <2>2
  <2> QED
    BY <2>3 DEF UnderWay, Holdings
<1>4. stream = Told
  BY <1>1, AccountEmpty DEF UnderWay, Agenda, Account
<1>5. FoldLeft(PruneOne, stream, Ascending(S)) = s
  <2>1. IsFiniteSet(S) /\ S \in SUBSET Int /\ S \subseteq DOMAIN parents \ Ended
    BY <1>3, FS_Subset DEF Ended, Created
  <2> HIDE DEF S
  <2>2. OnceEach(Ascending(S), S)
    BY <2>1, AscendingOnce
  <2>3. PICK p, t, y, n, m, q, D :
          /\ p = parents /\ t = Texts /\ y = Ended /\ n = prunedCount
          /\ m = Cardinality(merged) /\ q = Ascending(S) /\ D = S
    OBVIOUS
  <2>4. FoldLeft(PruneOne, Listening(p, t, y, n, m), q)
          = Listening(p, t, y \cup D, n + Cardinality(D), m)
    <3>1. n \in Int /\ IsFiniteSet(D) /\ D \subseteq DOMAIN p \ y /\ OnceEach(q, D)
      BY <1>3, <2>1, <2>2, <2>3
    <3> QED
      BY <3>1, PruneAll
  <2> QED
    BY <1>4, <2>3, <2>4 DEF Told
<1>6. winner \in Created \ x /\ (x \cup {winner} = Created <=> kv = {})
  BY <1>2, <1>3 DEF Ended
<1>7. SpentIn(s) = own /\ TokensIn(s) = Completion /\ StartedIn(s) = Created
  <2>1. StartedIn(s) = Created /\ s.tokens = Texts
    BY DEF StartedIn, Listening, Created
  <2>2. \A c \in Created : Len(Texts[c]) = own[c]
    BY <1>3, OwnTokensLaw DEF Texts
  <2> HIDE DEF s
  <2>3. SpentIn(s) = own
    BY <1>3, <2>1, <2>2 DEF SpentIn
  <2> QED
    BY <2>1, <2>3 DEF TokensIn, Completion
<1>8. PathText(s, winner) = path[winner]
  BY <1>2, <1>3, TextAgrees
<1>9. /\ s.terminal = x /\ s.finished = FALSE /\ s.error = FALSE
      /\ s.pruned = prunedCount + Cardinality(S) /\ s.merged = Cardinality(merged)
  BY DEF Listening
<1> DEFINE e == Done(winner)
<1>10. /\ e.type = "done" /\ e.branch = winner /\ e.text = path[winner]
       /\ e.completion = Completion /\ e.branches = Cardinality(Created)
       /\ e.pruned = prunedCount + Cardinality(S) /\ e.merged = Cardinality(merged)
       /\ e.spent = own /\ e.reused = reused /\ e.summary # "none"
  BY DEF Done, SummaryKind
<1>11. stream' = Accept(s, e)
  BY <1>1, <1>5
<1>12. s = Listening(s.parents, s.tokens, s.terminal, s.pruned, s.merged)
  BY DEF Listening
<1> HIDE DEF s, e, x, S
<1>13. Accepts(s, e) <=> kv = {} /\ reused
  BY <1>6, <1>7, <1>8, <1>9, <1>10 DEF Accepts, SummaryFits, Terminable
<1>14. /\ Accepts(s, e) => Accept(s, e).error = FALSE /\ Accept(s, e).finished = TRUE
       /\ ~Accepts(s, e) => Accept(s, e).error = TRUE
  BY <1>9, <1>10, <1>12 DEF Accept, Listening
<1> QED
  BY <1>1, <1>11, <1>13, <1>14 DEF Settled

\* A generation that ends otherwise fails, and the server heard no more.
LEMMA EndStep ==
  ASSUME UnderWay, EndGeneration
  PROVE  StreamInv'
<1>1. CASE outcome' = "done"
  BY <1>1, AccountStep DEF StreamInv
<1>2. CASE outcome' # "done"
  <2>1. Fail("stalled") \/ Fail("empty")
    BY <1>2 DEF EndGeneration
  <2> QED
    BY <1>2, <2>1, FailStep DEF StreamInv
<1> QED
  BY <1>1, <1>2

-----------------------------------------------------------------------------
(* The theorems.                                                           *)

LEMMA StreamNext == StreamInv /\ [Next]_vars => StreamInv'
<1>1. CASE UNCHANGED vars /\ StreamInv
  <2>1. config' = config /\ UNCHANGED StreamVars /\ batch' = batch /\ phase' = phase /\ todo' = todo
        /\ outcome' = outcome /\ reused' = reused
    BY <1>1 DEF vars, scheduler, batchVars, branchVars, streamVars, StreamVars
  <2>2. CASE outcome = "done"
    BY <1>1, <2>1, <2>2 DEF StreamInv, Settled, StreamVars
  <2>3. CASE outcome # "done"
    <3>1. UnderWay
      BY <1>1, <2>3 DEF StreamInv
    <3>2. batch' \in Seq(Created) /\ Agenda'
      BY <2>1, <3>1 DEF UnderWay, Holdings, Agenda, StreamVars
    <3> QED
      BY <2>1, <2>3, <3>1, <3>2, Quiet DEF StreamInv
  <2> QED
    BY <2>2, <2>3
<1>2. ASSUME StreamInv, Next PROVE StreamInv'
  <2>1. outcome = "running"
    BY <1>2 DEF Next, Decode, OutOfPages, BatchComplete, FeedToken, ListValues, FeedValue,
                ListLowValue, PruneLowValue, PollCommands, MergeBranch, FinishBatch,
                SkipCommand, TakeContinues, JoinBatch, TakeFork, TakeKill, TakeFinalize,
                EndGeneration, Taking, At
  <2>2. UnderWay
    BY <1>2, <2>1 DEF StreamInv
  <2>3. CASE Decode
    BY <2>2, <2>3, DecodeStep DEF StreamInv
  <2>4. CASE OutOfPages \/ ListValues \/ FeedValue \/ ListLowValue \/ SkipCommand \/ TakeContinues
    BY <2>2, <2>4, QuietSteps DEF StreamInv
  <2>5. CASE \E token \in Tokens : FeedToken(token)
    BY <2>2, <2>5, TokenStep DEF StreamInv
  <2>6. CASE PruneLowValue
    BY <2>2, <2>6, PruneLowValueStep DEF StreamInv
  <2>7. CASE PollCommands
    BY <2>2, <2>7, PollStep DEF StreamInv
  <2>8. CASE MergeBranch
    BY <2>2, <2>8, MergeStep DEF StreamInv
  <2>9. CASE FinishBatch
    BY <2>2, <2>9, FinishStep DEF StreamInv
  <2>10. CASE JoinBatch
    BY <2>2, <2>10, JoinStep DEF StreamInv
  <2>11. CASE TakeFork
    BY <2>2, <2>11, ForkStep DEF StreamInv
  <2>12. CASE TakeKill
    BY <2>2, <2>12, KillStep DEF StreamInv
  <2>13. CASE TakeFinalize
    BY <2>2, <2>13, FinalizeStep DEF StreamInv
  <2>14. CASE EndGeneration
    BY <2>2, <2>14, EndStep
  <2> QED
    BY <1>2, <2>3, <2>4, <2>5, <2>6, <2>7, <2>8, <2>9, <2>10, <2>11, <2>12, <2>13, <2>14 DEF Next
<1> QED
  BY <1>1, <1>2

LEMMA StreamAlways == Spec => []StreamInv
<1>1. Init => StreamInv
  BY StreamStart DEF StreamInv
<1> QED
  BY <1>1, StreamNext, PTL DEF Spec

\* The server accepts every event of a generation that is not over, or that
\* failed, and the account of one that is done exactly if the engine has given
\* back every branch of the cache and reports a reuse ratio of at least 1: no
\* policy, no order of commands, no merge and no pruning can break the contract
\* in another way.
THEOREM StreamBreaksAtTheAccountOnly ==
  Spec => [](StreamAccepted <=> (outcome = "done" => kv = {} /\ reused))
<1>1. StreamInv => (StreamAccepted <=> (outcome = "done" => kv = {} /\ reused))
  <2> SUFFICES ASSUME StreamInv
               PROVE  StreamAccepted <=> (outcome = "done" => kv = {} /\ reused)
    OBVIOUS
  <2>1. CASE outcome = "done"
    BY <2>1 DEF StreamInv, Settled, StreamAccepted
  <2>2. CASE outcome # "done"
    BY <2>2 DEF StreamInv, UnderWay, StreamAccepted
  <2> QED
    BY <2>1, <2>2
<1> QED
  BY <1>1, StreamAlways, PTL

\* A generation whose stream the server accepts leaves nothing behind.
THEOREM AcceptedStreamLeavesNothing == Spec => [](StreamAccepted => NothingLeftBehind)
<1>1. StreamInv => (StreamAccepted => NothingLeftBehind)
  BY DEF StreamInv, Settled, StreamAccepted, NothingLeftBehind
<1> QED
  BY <1>1, StreamAlways, PTL
=============================================================================
