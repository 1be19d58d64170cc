--------------------------- MODULE ExecutorProofs ---------------------------
(***************************************************************************)
(* Proofs about Executor, for all values of its constants: forwards of any *)
(* number of threads call their own attention and put the model's back,    *)
(* and what a branch gathers from its pages belongs to the tokens it is    *)
(* said to have.  The pages are left to TreeKVProofs: each call of an      *)
(* execution is a call of the cache, and what that does to what its        *)
(* branches gather is proved there.                                        *)
(***************************************************************************)
EXTENDS Executor, TLAPS

Forwards == [kind : {"none", "prefill", "decode", "forest"},
             layer : Nat,
             called : SUBSET (Threads \cup {"model"}),
             original : Threads \cup {"model", "none"}]

\* Who holds the lock runs a forward, and no one else; a batched decode has
\* its attention in place until it ends.
AttentionInv ==
  /\ lock \in Threads \cup {"nobody"}
  /\ forward \in [Threads -> Forwards]
  /\ \A t \in Threads :
       IF lock = t THEN forward[t].kind # "none" ELSE forward[t] = NoForward
  /\ attention = IF lock # "nobody" THEN Own(lock, forward[lock].kind) ELSE "model"
  /\ \A t \in Threads : forward[t].called \subseteq {Own(t, forward[t].kind)}
  /\ \A t \in Threads : forward[t].kind = "forest" => forward[t].original = "model"
  /\ \A t \in Threads : forward[t].layer > 0 => forward[t].called # {}

\* No forward runs at first.
LEMMA AttentionInit == Init => AttentionInv
  BY ExecutorAssumption DEF Init, AttentionInv, NoForward, Forwards

\* A forward that takes the lock finds the model's own attention.
LEMMA AttentionEnter ==
  ASSUME AttentionInv, NEW t \in Threads, NEW kind \in {"prefill", "decode", "forest"},
         Enter(t, kind)
  PROVE  AttentionInv'
<1>1. lock = "nobody" /\ attention = "model" /\ lock' = t /\ t # "nobody"
  BY ExecutorAssumption DEF Enter, Free, AttentionInv
<1>2. forward[t] = NoForward /\ forward \in [Threads -> Forwards]
  BY DEF Enter, AttentionInv
<1> DEFINE found == IF kind = "forest" THEN attention ELSE "none"
<1>3. /\ forward'[t] = [kind |-> kind, layer |-> 0, called |-> {}, original |-> found]
      /\ forward' = [forward EXCEPT ![t] = forward'[t]]
  BY <1>2 DEF Enter
<1>4. \A u \in Threads \ {t} : forward'[u] = NoForward
  BY <1>1, <1>2, <1>3, ExecutorAssumption DEF AttentionInv
<1>5. attention' = Own(t, kind)
  BY <1>1 DEF Enter, Own
<1>6. found \in {"model", "none"} /\ (kind = "forest" => found = "model")
  BY <1>1
<1>7. forward' \in [Threads -> Forwards]
  <2> HIDE DEF found
  <2> QED
    BY <1>2, <1>3, <1>6 DEF Forwards
<1> HIDE DEF found
<1>8. \A u \in Threads :
        /\ forward'[u].called = {} /\ forward'[u].layer = 0
        /\ forward'[u].kind = IF u = t THEN kind ELSE "none"
        /\ forward'[u].kind = "forest" => forward'[u].original = "model"
  BY <1>3, <1>4, <1>6 DEF NoForward
<1> QED
  BY <1>1, <1>4, <1>5, <1>7, <1>8 DEF AttentionInv, Own

\* A layer calls the attention of the forward that holds the lock.
LEMMA AttentionLayer ==
  ASSUME AttentionInv, NEW t \in Threads, CallLayer(t)
  PROVE  AttentionInv'
<1>1. lock = t /\ t # "nobody"
  BY ExecutorAssumption DEF CallLayer, AttentionInv, NoForward
<1>2. attention = Own(t, forward[t].kind) /\ attention \in Threads \cup {"model"}
  BY <1>1 DEF AttentionInv, Own
<1>3. /\ forward'[t] = [kind |-> forward[t].kind, layer |-> forward[t].layer + 1,
                        called |-> forward[t].called \cup {attention},
                        original |-> forward[t].original]
      /\ \A u \in Threads \ {t} : forward'[u] = forward[u]
      /\ forward' = [u \in Threads |-> forward'[u]]
  <2> DEFINE r == forward[t]
             s == [[r EXCEPT !.layer = r.layer + 1] EXCEPT !.called = r.called \cup {attention}]
  <2>1. /\ forward \in [Threads -> [kind : {"none", "prefill", "decode", "forest"},
                                    layer : Nat, called : SUBSET (Threads \cup {"model"}),
                                    original : Threads \cup {"model", "none"}]]
        /\ r \in [kind : {"none", "prefill", "decode", "forest"},
                  layer : Nat, called : SUBSET (Threads \cup {"model"}),
                  original : Threads \cup {"model", "none"}]
    BY DEF AttentionInv, Forwards
  <2>2. forward' = [forward EXCEPT ![t] = s]
    BY <2>1 DEF CallLayer
  <2>3. s = [kind |-> r.kind, layer |-> r.layer + 1, called |-> r.called \cup {attention},
             original |-> r.original]
    <3> DEFINE counted == [r EXCEPT !.layer = r.layer + 1]
    <3> HIDE DEF r
    <3>1. counted = [kind |-> r.kind, layer |-> r.layer + 1, called |-> r.called,
                   original |-> r.original]
      BY <2>1
    <3> HIDE DEF counted
    <3>2. [counted EXCEPT !.called = r.called \cup {attention}]
            = [kind |-> r.kind, layer |-> r.layer + 1, called |-> r.called \cup {attention},
               original |-> r.original]
      BY <3>1
    <3> QED
      BY <3>2 DEF counted
  <2> QED
    BY <2>1, <2>2, <2>3
<1>4. lock' = lock /\ attention' = attention
  BY DEF CallLayer
<1> QED
  BY <1>1, <1>2, <1>3, <1>4 DEF AttentionInv, Own, Forwards

\* The end of a forward leaves the model as it was before.
LEMMA AttentionExit ==
  ASSUME AttentionInv, NEW t \in Threads, forward[t].kind # "none", Exit(t)
  PROVE  AttentionInv'
<1>1. lock = t /\ t # "nobody"
  BY ExecutorAssumption DEF AttentionInv, NoForward
<1>2. attention' = "model" /\ lock' = "nobody"
  BY <1>1 DEF Exit, Restored, AttentionInv, Own
<1>3. forward' = [u \in Threads |-> NoForward]
  BY <1>1 DEF Exit, AttentionInv
<1> QED
  BY <1>2, <1>3, ExecutorAssumption DEF AttentionInv, NoForward, Forwards

\* Every step keeps the invariant; the execution's calls touch none of it.
LEMMA AttentionNext == AttentionInv /\ [Next]_vars => AttentionInv'
<1> SUFFICES ASSUME AttentionInv, [Next]_vars PROVE AttentionInv'
  OBVIOUS
<1>1. ASSUME NEW prompt \in Prompts, BeginPrefill(prompt) PROVE AttentionInv'
  BY <1>1, AttentionEnter DEF BeginPrefill, Threads
<1>2. ASSUME NEW kind \in {"decode", "forest"}, NEW chosen \in Batches,
             BeginDecode(kind, chosen)
      PROVE  AttentionInv'
  BY <1>2, AttentionEnter DEF BeginDecode, Threads
<1>3. ASSUME NEW t \in Others, NEW kind \in {"decode", "forest"}, BeginOther(t, kind)
      PROVE  AttentionInv'
  BY <1>3, AttentionEnter DEF BeginOther, Threads
<1>4. ASSUME NEW t \in Threads, CallLayer(t) \/ ForwardFails(t) \/ ForwardEnds(t)
      PROVE  AttentionInv'
  BY <1>4, AttentionLayer, AttentionExit DEF ForwardFails, ForwardEnds
<1>5. ASSUME UNCHANGED <<lock, attention, forward>> PROVE AttentionInv'
  BY <1>5 DEF AttentionInv
<1>6. CASE StorePrompt \/ StoreRow \/ BatchBreaksOff
  BY <1>5, <1>6 DEF StorePrompt, StoreRow, BatchBreaksOff
<1>7. ASSUME NEW b \in KV!BranchIds, Fork(b) \/ Prune(b) PROVE AttentionInv'
  BY <1>5, <1>7 DEF Fork, Prune, forwardVars
<1>8. CASE Deduplicate \/ UNCHANGED vars
  BY <1>5, <1>8 DEF Deduplicate, forwardVars, vars
<1> QED
  BY <1>1, <1>2, <1>3, <1>4, <1>6, <1>7, <1>8 DEF Next

\* However many threads' forwards meet, each calls its own attention in every
\* layer, and none leaves another in the model behind.
THEOREM AttentionAlwaysOwn == Spec => []OwnAttention
<1>1. Init => AttentionInv
  BY AttentionInit
<1>2. AttentionInv /\ [Next]_vars => AttentionInv'
  BY AttentionNext
<1>3. AttentionInv => OwnAttention
  BY DEF AttentionInv, OwnAttention
<1> QED
  BY <1>1, <1>2, <1>3, PTL DEF Spec

-----------------------------------------------------------------------------
(* The calls of the cache.  KV is the cache the execution works on and KP  *)
(* the same with what is proved about it; their definitions agree.         *)

KP == INSTANCE TreeKVProofs WITH Tokens <- Histories, Op <- +  \* no proof of it folds

\* A fork of the cache keeps its invariant and gives the child, and no other
\* branch, what its source gathers.
LEMMA CacheFork ==
  ASSUME KP!IInv, NEW b \in KV!BranchIds, KV!Fork(b)
  PROVE  KP!IInv' /\ KP!Store!Fork(b)
<1>1. b \in KP!BranchIds /\ KP!Fork(b)
  BY DEF KV!Cardinality, KP!Cardinality, KV!Fork, KP!Fork, KV!Covered, KP!Covered,
    KV!ForkRefcount, KP!ForkRefcount, KV!BranchIds, KP!BranchIds, KV!PagesFor,
    KP!PagesFor, KV!MinOf, KP!MinOf, KV!OccurrencesIn, KP!OccurrencesIn, KV!Pages,
    KP!Pages
<1>2. KP!IInv'
  BY <1>1, ExecutorAssumption, KP!ForkIInv
<1> QED
  BY <1>1, <1>2, ExecutorAssumption, KP!ForkRefines

\* A pruned branch gathers nothing, all others what they did.
LEMMA CachePrune ==
  ASSUME KP!IInv, NEW b \in KV!BranchIds, KV!Prune(b)
  PROVE  KP!IInv' /\ KP!Store!Prune(b)
<1>1. b \in KP!BranchIds /\ KP!Prune(b)
  BY DEF KV!Cardinality, KP!Cardinality, KV!Prune, KP!Prune, KV!Covered, KP!Covered,
    KV!PruneRefcount, KP!PruneRefcount, KV!BranchIds, KP!BranchIds, KV!PagesFor,
    KP!PagesFor, KV!MinOf, KP!MinOf, KV!OccurrencesIn, KP!OccurrencesIn, KV!Pages,
    KP!Pages, KV!Released, KP!Released, KV!Unlinked, KP!Unlinked
<1>2. KP!IInv'
  BY <1>1, ExecutorAssumption, KP!PruneIInv
<1> QED
  BY <1>1, <1>2, ExecutorAssumption, KP!PruneRefines

\* An append extends what its branch gathers.
LEMMA CacheAppend ==
  ASSUME KP!IInv, NEW b \in KV!BranchIds, NEW tokens \in KP!Appends,
         KV!AppendTokens(b, tokens)
  PROVE  KP!IInv' /\ KP!Store!AppendTokens(b, tokens)
<1>1. b \in KP!BranchIds /\ KP!AppendTokens(b, tokens)
  BY DEF KV!Cardinality, KP!Cardinality, KV!Covered, KP!Covered, KV!BranchIds,
    KP!BranchIds, KV!PagesFor, KP!PagesFor, KV!MinOf, KP!MinOf, KV!OccurrencesIn,
    KP!OccurrencesIn, KV!Pages, KP!Pages, KV!AppendTokens, KP!AppendTokens,
    KV!WriteTokens, KP!WriteTokens, KV!Touched, KP!Touched, KV!GrownPage,
    KP!GrownPage, KV!GrownTable, KP!GrownTable, KV!LowestFree, KP!LowestFree,
    KV!Written, KP!Written, KV!PagesTaken, KP!PagesTaken, KV!RequiredPages,
    KP!RequiredPages, KV!Copies, KP!Copies, KV!NeedsCopy, KP!NeedsCopy, KV!LastPage,
    KP!LastPage, KV!Range, KP!Range, KV!Max, KP!Max
<1>2. tokens \in Seq(Histories) /\ \E fresh : KP!AppendWith(b, tokens, fresh)
  BY <1>1, ExecutorAssumption, KP!AppendWrites
<1> QED
  BY <1>1, <1>2, ExecutorAssumption, KP!AppendIInv, KP!AppendRefines

\* A dedup scan changes nothing that is gathered.
LEMMA CacheDedup ==
  ASSUME KP!IInv, KV!DedupScan
  PROVE  KP!IInv' /\ UNCHANGED KP!Store!vars
<1>1. KP!DedupScan
  BY DEF KV!Cardinality, KP!Cardinality, KV!Covered, KP!Covered, KV!BranchIds,
    KP!BranchIds, KV!PagesFor, KP!PagesFor, KV!MinOf, KP!MinOf, KV!Pages, KP!Pages,
    KV!DedupScan, KP!DedupScan, KV!Occurrences, KP!Occurrences, KV!TableIndex,
    KP!TableIndex, KV!InUse, KP!InUse, KV!Redirected, KP!Redirected, KV!Canonical,
    KP!Canonical, KV!Full, KP!Full, KV!Min, KP!Min, KV!DedupRefcount,
    KP!DedupRefcount, KV!Recycled, KP!Recycled
<1> QED
  BY <1>1, ExecutorAssumption, KP!DedupIInv, KP!DedupRefines

\* At first nothing is gathered.
LEMMA CacheInit == KV!Init => KP!IInv /\ KP!Store!Init
<1>1. KV!Init => KP!Init
  BY DEF KV!Init, KP!Init, KV!Pages, KP!Pages, KV!BranchIds, KP!BranchIds, KV!Root,
    KP!Root
<1> QED
  BY <1>1, ExecutorAssumption, KP!InitIInv, KP!InitRefines

-----------------------------------------------------------------------------
(* Token sequences and the rows computed over them.                        *)

\* The rows of a token sequence: each sees the tokens up to its own.
PrefixRows(s) == [n \in 1 .. Len(s) |-> SubSeq(s, 1, n)]

\* A prefix is a sequence of its length.
LEMMA PrefixLaw ==
  ASSUME NEW s \in Seq(Vocabulary), NEW n \in 1 .. Len(s)
  PROVE  /\ SubSeq(s, 1, n) \in Seq(Vocabulary)
         /\ Len(SubSeq(s, 1, n)) = n
         /\ \A m \in 1 .. n : SubSeq(s, 1, n)[m] = s[m]
  OBVIOUS

\* A token that attends to the rows of a sequence gets the row that extends it.
LEMMA RowExtends ==
  ASSUME NEW s \in Seq(Vocabulary), NEW x \in Vocabulary
  PROVE  RowOf(PrefixRows(s), x) = Append(s, x)
<1>1. DOMAIN PrefixRows(s) = 1 .. Len(s)
  BY DEF PrefixRows
<1>2. ASSUME NEW n \in 1 .. Len(s) PROVE Last(PrefixRows(s)[n]) = s[n]
  BY PrefixLaw DEF PrefixRows, Last
<1>3. [n \in DOMAIN PrefixRows(s) |-> Last(PrefixRows(s)[n])] = [n \in 1 .. Len(s) |-> s[n]]
  BY <1>1, <1>2
<1>4. [n \in 1 .. Len(s) |-> s[n]] = s
  OBVIOUS
<1> QED
  BY <1>3, <1>4 DEF RowOf

\* The rows of an extended sequence are the old ones and one more.
LEMMA PrefixesExtend ==
  ASSUME NEW s \in Seq(Vocabulary), NEW x \in Vocabulary
  PROVE  PrefixRows(Append(s, x)) = PrefixRows(s) \o <<Append(s, x)>>
<1> DEFINE t == Append(s, x)
           k == Len(s)
           g == PrefixRows(s)
<1>1. t \in Seq(Vocabulary) /\ Len(t) = k + 1 /\ k \in Nat /\ SubSeq(t, 1, k + 1) = t
  OBVIOUS
<1>2. ASSUME NEW n \in 1 .. k PROVE SubSeq(t, 1, n) = SubSeq(s, 1, n)
  OBVIOUS
<1>3. g \in Seq(Seq(Vocabulary)) /\ Len(g) = k /\ \A n \in 1 .. k : g[n] = SubSeq(s, 1, n)
  BY PrefixLaw DEF PrefixRows
<1>4. PrefixRows(t) = [n \in 1 .. k + 1 |-> IF n <= k THEN g[n] ELSE t]
  <2> HIDE DEF t, g
  <2> QED
    BY <1>1, <1>2, <1>3 DEF PrefixRows
<1>5. g \o <<t>> = [n \in 1 .. k + 1 |-> IF n <= k THEN g[n] ELSE t]
  <2> HIDE DEF t, g
  <2>1. <<t>> \in Seq(Seq(Vocabulary)) /\ Len(<<t>>) = 1 /\ <<t>>[1] = t
    BY <1>1
  <2> QED
    BY <1>1, <1>3, <2>1, KP!Concatenation
<1> QED
  BY <1>4, <1>5

\* A sequence that is not too long is a history.
LEMMA HistoryLaw ==
  ASSUME NEW s \in Seq(Vocabulary), Len(s) \in 1 .. MaxTokens
  PROVE  s \in Histories
<1>1. s \in [1 .. Len(s) -> Vocabulary]
  OBVIOUS
<1> QED
  BY <1>1 DEF Histories

-----------------------------------------------------------------------------
(* What the attention of a batched decode reads.                           *)

\* The extended block table of a branch leads to the slots it gathers: the
\* temporary page stands in for a tail that is not full, and only for it.
LEMMA ForestGathers ==
  ASSUME KP!IInv, NEW b \in live
  PROVE  ForestReads(b) = KV!Gather(b)
<1> USE ExecutorAssumption
<1> DEFINE nt == numTokens[b]
           q == nt \div PageSize
           r == nt % PageSize
           k == Len(table[b])
<1>1. nt \in Nat /\ table[b] \in Seq(KP!Pages) /\ k = KP!PagesFor(nt)
  BY DEF KP!IInv, KP!TypeOK, KP!CoverageExact, KP!Covered, KP!BranchIds
<1>2. q \in Nat /\ r \in 0 .. PageSize - 1 /\ nt = PageSize * q + r
  BY <1>1, KP!DivMod
<1>3. \A e \in Nat \ {0} : e <= k <=> (e - 1) * PageSize < nt
  BY <1>1, KP!PagesForLaw
<1>4. ASSUME NEW n \in 1 .. nt, KP!PageOf(n) = q + 1
      PROVE  r # 0 /\ k = q + 1
  <2>1. /\ (KP!PageOf(n) - 1) * PageSize \in Nat
        /\ KP!SlotOf(n) \in 1 .. PageSize
        /\ n = (KP!PageOf(n) - 1) * PageSize + KP!SlotOf(n)
    BY <1>1, KP!Position
  <2> HIDE DEF nt, q, r, k
  <2>2. q * PageSize < n /\ q * PageSize = PageSize * q
    BY <1>2, <1>4, <2>1
  <2>3. r # 0
    BY <1>1, <1>2, <2>2
  <2>4. q + 1 <= k
    <3>1. (q + 1 - 1) * PageSize < nt
      BY <1>1, <1>2, <2>2
    <3> QED
      BY <1>2, <1>3, <3>1
  <2>5. ~(q + 2 <= k)
    <3>1. (q + 2 - 1) * PageSize = PageSize * q + PageSize
      BY <1>2
    <3>2. ~((q + 2 - 1) * PageSize < nt)
      BY <1>1, <1>2, <3>1
    <3> QED
      BY <1>2, <1>3, <3>2
  <2>6. k \in Nat
    BY <1>1 DEF k
  <2> QED
    BY <1>2, <2>3, <2>4, <2>5, <2>6
<1>5. ASSUME NEW n \in 1 .. nt
      PROVE  LET entry == ((n - 1) \div PageSize) + 1
                 slots == IF entry = NewEntry(b) THEN TempPage(b) ELSE page[table[b][entry]]
             IN  slots = page[table[b][entry]]
  BY <1>4, <1>5 DEF NewEntry, TempPage, KP!PageOf, KV!LastPage
<1> QED
  BY <1>5 DEF ForestReads, PositionsOf, KV!Gather

-----------------------------------------------------------------------------
(* The invariant of the rows.                                              *)

\* What every branch gathers, as a state function.
Gathered == [b \in KV!BranchIds |-> KV!Gather(b)]

\* What an execution keeps for its branches belongs to their tokens.
Stored ==
  /\ ids \in [KV!BranchIds -> Seq(Vocabulary)]
  /\ logits \in [KV!BranchIds -> Seq(Vocabulary)]
  /\ Gathered = [b \in KV!BranchIds |-> PrefixRows(ids[b])]
  /\ \A b \in live : logits[b] = ids[b]

Unprompted == live = {KV!Root} /\ ids[KV!Root] = <<>>

\* While a forward runs, nothing is left to be stored, and its branches live.
Computing ==
  forward[Mine].kind # "none" =>
    /\ rows = <<>>
    /\ \/ /\ forward[Mine].kind = "prefill"
          /\ Unprompted
          /\ \E prompt \in Prompts : batch = [i \in DOMAIN prompt |-> <<KV!Root, prompt[i]>>]
       \/ /\ forward[Mine].kind \in {"decode", "forest"}
          /\ ids[KV!Root] # <<>>
          /\ batch \in Batches

PromptOf(s) ==
  \E prompt \in Prompts :
    s = [i \in DOMAIN prompt |-> [branch |-> KV!Root, row |-> SubSeq(prompt, 1, i)]]

\* Rows of different branches, each for a token after the branch's last.
DecodedFor(s) ==
  /\ s \in Seq([branch : live, row : Seq(Vocabulary)])
  /\ \A i, j \in DOMAIN s : s[i].branch = s[j].branch => i = j
  /\ \A i \in DOMAIN s : \E x \in Vocabulary : s[i].row = Append(ids[s[i].branch], x)

\* What a forward computed stays to be stored until it is.
Computed ==
  rows # <<>> =>
    /\ forward[Mine].kind = "none"
    /\ \/ Unprompted /\ PromptOf(rows)
       \/ ids[KV!Root] # <<>> /\ DecodedFor(rows)

RowsInv == KP!IInv /\ Stored /\ Computing /\ Computed

\* The empty branch gathers nothing.
LEMMA NoPrefixes == PrefixRows(<<>>) = <<>>
  BY DEF PrefixRows

\* At first there is nothing.
LEMMA RowsInit == Init => RowsInv
<1> SUFFICES ASSUME Init PROVE RowsInv
  OBVIOUS
<1>1. KP!IInv /\ KP!Store!Init
  BY CacheInit DEF Init
<1>2. \A b \in KV!BranchIds : KV!Gather(b) = <<>>
  BY <1>1 DEF KP!Store!Init, KP!Store!BranchIds, KV!BranchIds, KP!BranchIds, KV!Gather,
    KP!Gather
<1>3. ids \in [KV!BranchIds -> Seq(Vocabulary)] /\ logits = ids
  BY DEF Init
<1>4. \A b \in KV!BranchIds : PrefixRows(ids[b]) = <<>>
  BY NoPrefixes DEF Init
<1>5. Stored
  BY <1>1, <1>2, <1>3, <1>4 DEF Stored, Gathered
<1>6. Computing /\ Computed
  BY DEF Init, Computing, Computed, NoForward, Threads
<1> QED
  BY <1>1, <1>5, <1>6 DEF RowsInv

\* What leaves pages and tokens alone keeps what is stored.
LEMMA StoredSame ==
  ASSUME KP!IInv, Stored, UNCHANGED <<kvVars, tokenVars>>
  PROVE  KP!IInv' /\ Stored'
<1>1. KP!IInv'
  <2>1. UNCHANGED KP!vars
    BY DEF kvVars, KP!vars
  <2> QED
    BY <2>1, ExecutorAssumption, KP!NextIInv
<1>2. Stored'
  BY DEF kvVars, tokenVars, Stored, Gathered, KV!Gather
<1> QED
  BY <1>1, <1>2

\* A step of another thread, or of a layer, changes nothing of Mine's forward.
LEMMA RowsSame ==
  ASSUME RowsInv, UNCHANGED <<kvVars, tokenVars, batch, rows>>,
         forward'[Mine].kind = forward[Mine].kind
  PROVE  RowsInv'
<1>1. KP!IInv' /\ Stored'
  BY StoredSame DEF RowsInv
<1>2. Computing'
  BY DEF RowsInv, Computing, Unprompted, Batches, kvVars, tokenVars
<1>3. Computed'
  BY DEF RowsInv, Computed, Unprompted, PromptOf, DecodedFor, kvVars, tokenVars
<1> QED
  BY <1>1, <1>2, <1>3 DEF RowsInv

-----------------------------------------------------------------------------
(* The forwards of Mine.                                                   *)

\* The first forward of an execution is that of its prompt.
LEMMA RowsBeginPrefill ==
  ASSUME RowsInv, AttentionInv, NEW prompt \in Prompts, BeginPrefill(prompt)
  PROVE  RowsInv'
<1>1. KP!IInv' /\ Stored'
  BY StoredSame DEF RowsInv, BeginPrefill
<1>2. rows' = <<>> /\ forward'[Mine].kind = "prefill"
  BY DEF BeginPrefill, Idle, Enter, AttentionInv, Threads
<1>3. Computing'
  BY <1>2 DEF BeginPrefill, Computing, Unprompted, kvVars, tokenVars
<1>4. Computed'
  BY <1>2 DEF Computed
<1> QED
  BY <1>1, <1>3, <1>4 DEF RowsInv

\* Later ones have a batch of live branches.
LEMMA RowsBeginDecode ==
  ASSUME RowsInv, AttentionInv, NEW kind \in {"decode", "forest"},
         NEW chosen \in Batches, BeginDecode(kind, chosen)
  PROVE  RowsInv'
<1>1. KP!IInv' /\ Stored'
  BY StoredSame DEF RowsInv, BeginDecode
<1>2. rows' = <<>> /\ forward'[Mine].kind = kind
  BY DEF BeginDecode, Idle, Enter, AttentionInv, Threads
<1>3. batch' \in Batches'
  BY DEF BeginDecode, Batches, kvVars
<1>4. Computing'
  BY <1>2, <1>3 DEF BeginDecode, Computing, kvVars, tokenVars
<1>5. Computed'
  BY <1>2 DEF Computed
<1> QED
  BY <1>1, <1>4, <1>5 DEF RowsInv

\* A forward that fails leaves nothing to store.
LEMMA RowsFail ==
  ASSUME RowsInv, AttentionInv, NEW t \in Threads, ForwardFails(t)
  PROVE  RowsInv'
<1>1. CASE t = Mine
  <2>1. rows' = <<>> /\ forward'[Mine].kind = "none"
    BY <1>1 DEF ForwardFails, Exit, RowsInv, Computing, AttentionInv, Threads, NoForward
  <2>2. KP!IInv' /\ Stored'
    BY StoredSame DEF RowsInv, ForwardFails
  <2> QED
    BY <2>1, <2>2 DEF RowsInv, Computing, Computed
<1>2. CASE t # Mine
  BY <1>2, RowsSame DEF ForwardFails, Exit, AttentionInv, Threads
<1> QED
  BY <1>1, <1>2

\* Every layer called the attention of the forward, and there is a layer: a
\* decode reads the tokens of its branch, by either way.
LEMMA RowsDecode ==
  ASSUME RowsInv, AttentionInv, forward[Mine].layer = Layers,
         forward[Mine].kind \in {"decode", "forest"}
  PROVE  DecodedFor(DecodedRows)
<1>1. batch \in Batches
  BY DEF RowsInv, Computing
<1>2. PICK n \in 1 .. Cardinality(live) :
        batch \in [1 .. n -> live \X Vocabulary]
        /\ \A i, j \in DOMAIN batch : batch[i][1] = batch[j][1] => i = j
  BY <1>1 DEF Batches
<1>3. ASSUME NEW i \in 1 .. n
      PROVE  ComputedFor(forward[Mine].kind, forward[Mine].called, batch[i][1], batch[i][2])
               = Append(ids[batch[i][1]], batch[i][2])
  <2> DEFINE b == batch[i][1]
             x == batch[i][2]
  <2>1. b \in live /\ x \in Vocabulary /\ b \in KV!BranchIds
    BY <1>2 DEF RowsInv, KP!IInv, KP!TypeOK, KP!BranchIds, KV!BranchIds
  <2>2. KV!Gather(b) = PrefixRows(ids[b]) /\ ids[b] \in Seq(Vocabulary)
    BY <2>1 DEF RowsInv, Stored, Gathered
  <2>3. ForestReads(b) = KV!Gather(b)
    BY <2>1, ForestGathers DEF RowsInv
  <2>4. RowOf(PrefixRows(ids[b]), x) = Append(ids[b], x)
    BY <2>1, <2>2, RowExtends
  <2>5. forward[Mine].called = {Own(Mine, forward[Mine].kind)}
    BY ExecutorAssumption DEF AttentionInv, Threads
  <2> HIDE DEF b, x
  <2>6. ComputedFor(forward[Mine].kind, forward[Mine].called, b, x) = Append(ids[b], x)
    BY <2>2, <2>3, <2>4, <2>5 DEF ComputedFor, DecodeReads
  <2> QED
    BY <2>6 DEF b, x
<1>4. DecodedRows = [i \in 1 .. n |->
        [branch |-> batch[i][1], row |-> Append(ids[batch[i][1]], batch[i][2])]]
  BY <1>2, <1>3 DEF DecodedRows
<1>5. \A i \in 1 .. n : /\ batch[i][1] \in live /\ batch[i][2] \in Vocabulary
                        /\ Append(ids[batch[i][1]], batch[i][2]) \in Seq(Vocabulary)
  <2>1. live \subseteq KV!BranchIds /\ ids \in [KV!BranchIds -> Seq(Vocabulary)]
    BY DEF RowsInv, KP!IInv, KP!TypeOK, KP!BranchIds, KV!BranchIds, Stored
  <2> QED
    BY <1>2, <2>1
<1>6. n \in Nat
  BY <1>2
<1> QED
  BY <1>2, <1>4, <1>5, <1>6 DEF DecodedFor

\* The end of a forward leaves rows to store, or none.
LEMMA RowsEnd ==
  ASSUME RowsInv, AttentionInv, NEW t \in Threads, ForwardEnds(t)
  PROVE  RowsInv'
<1>1. CASE t # Mine
  BY <1>1, RowsSame DEF ForwardEnds, Exit, AttentionInv, Threads
<1>2. CASE t = Mine
  <2>1. KP!IInv' /\ Stored'
    BY StoredSame DEF RowsInv, ForwardEnds
  <2>2. forward'[Mine].kind = "none"
    BY <1>2 DEF ForwardEnds, Exit, AttentionInv, NoForward, Threads
  <2>3. CASE forward[Mine].kind = "prefill"
    <3>1. rows' = PromptRows \/ rows' = <<>>
      BY <1>2, <2>3 DEF ForwardEnds
    <3>2. PICK prompt \in Prompts : batch = [i \in DOMAIN prompt |-> <<KV!Root, prompt[i]>>]
      BY <2>3 DEF RowsInv, Computing
    <3>3. prompt \in Seq(Vocabulary) /\ DOMAIN batch = DOMAIN prompt
      BY <3>2 DEF Prompts
    <3>4. [i \in DOMAIN batch |-> batch[i][2]] = prompt
      BY <3>2, <3>3
    <3>5. PromptRows = [i \in DOMAIN prompt |->
                          [branch |-> KV!Root, row |-> SubSeq(prompt, 1, i)]]
      BY <3>3, <3>4 DEF PromptRows
    <3>6. Unprompted' /\ (rows' # <<>> => PromptOf(rows)')
      BY <1>2, <2>3, <3>1, <3>5
        DEF PromptOf, ForwardEnds, RowsInv, Computing, Unprompted, kvVars, tokenVars
    <3> QED
      BY <2>1, <2>2, <3>6 DEF RowsInv, Computing, Computed
  <2>4. CASE forward[Mine].kind \in {"decode", "forest"}
    <3>1. DecodedFor(DecodedRows) /\ rows' = DecodedRows
      BY <1>2, <2>4, RowsDecode DEF ForwardEnds
    <3>2. DecodedFor(rows)' /\ ids'[KV!Root] # <<>>
      BY <2>4, <3>1 DEF DecodedFor, ForwardEnds, RowsInv, Computing, kvVars, tokenVars
    <3> QED
      BY <2>1, <2>2, <3>2 DEF RowsInv, Computing, Computed
  <2> QED
    BY <1>2, <2>3, <2>4 DEF ForwardEnds, AttentionInv, Forwards, Threads
<1> QED
  BY <1>1, <1>2

-----------------------------------------------------------------------------
(* The calls that change what branches hold.                               *)

\* A whole prompt is stored at once.
LEMMA RowsStorePrompt ==
  ASSUME RowsInv, StorePrompt
  PROVE  RowsInv'
<1> DEFINE tokens == [i \in DOMAIN rows |-> rows[i].row]
           root == KV!Root
<1>1. /\ rows # <<>> /\ ids[root] = <<>> /\ live = {root}
      /\ forward[Mine].kind = "none" /\ PromptOf(rows)
  BY DEF StorePrompt, RowsInv, Computed, Unprompted
<1>2. PICK prompt \in Prompts :
        rows = [i \in DOMAIN prompt |-> [branch |-> root, row |-> SubSeq(prompt, 1, i)]]
  BY <1>1 DEF PromptOf
<1>3. PICK n \in 1 .. MaxAppend : prompt \in [1 .. n -> Vocabulary]
  BY DEF Prompts
<1>4. prompt \in Seq(Vocabulary) /\ Len(prompt) = n /\ SubSeq(prompt, 1, n) = prompt
  BY <1>3
<1>5. rows \in Seq([branch : {root}, row : Seq(Vocabulary)]) /\ Len(rows) = n
      /\ Last(rows).row = prompt
  BY <1>2, <1>3, <1>4, PrefixLaw DEF Last
<1>6. tokens = PrefixRows(prompt)
  BY <1>2, <1>3, <1>4 DEF PrefixRows
<1>7. KV!AppendTokens(root, tokens) /\ root \in KV!BranchIds /\ root \in KP!BranchIds
  BY ExecutorAssumption DEF StorePrompt, KV!Root, KV!BranchIds, KP!BranchIds
<1>8. n <= MaxTokens
  <2>1. Len(tokens) = n /\ numTokens[root] \in Nat
    BY <1>4, <1>6, <1>7 DEF PrefixRows, RowsInv, KP!IInv, KP!TypeOK
  <2>2. numTokens[root] + Len(tokens) <= MaxTokens
    BY <1>7 DEF KV!AppendTokens
  <2> QED
    BY <2>1, <2>2, ExecutorAssumption
<1>9. tokens \in KP!Appends
  <2>1. \A i \in 1 .. n : SubSeq(prompt, 1, i) \in Histories
    <3> SUFFICES ASSUME NEW i \in 1 .. n PROVE SubSeq(prompt, 1, i) \in Histories
      OBVIOUS
    <3>1. i \in 1 .. MaxTokens
      BY <1>3, <1>8, ExecutorAssumption
    <3> QED
      BY <1>4, <3>1, PrefixLaw, HistoryLaw
  <2>2. tokens \in [1 .. n -> Histories]
    BY <1>4, <1>6, <2>1 DEF PrefixRows
  <2> QED
    BY <2>2 DEF KP!Appends
<1>10. KP!IInv' /\ KP!Store!AppendTokens(root, tokens)
  BY <1>7, <1>9, CacheAppend DEF RowsInv
<1> HIDE DEF tokens, root
<1>11. Gathered' = [Gathered EXCEPT ![root] = @ \o tokens]
  BY <1>10 DEF KP!Store!AppendTokens, Gathered, KP!Gather, KV!Gather, KP!BranchIds,
    KV!BranchIds
<1>12. UNCHANGED <<live, parent, nextBranch>>
  BY <1>10 DEF KP!Store!AppendTokens
<1>13. Gathered[root] \o tokens = PrefixRows(prompt)
  <2>1. Gathered[root] = <<>>
    BY <1>1, <1>7, NoPrefixes DEF RowsInv, Stored
  <2>2. tokens \in Seq(Histories)
    BY <1>9 DEF KP!Appends
  <2>3. <<>> \o tokens = tokens
    BY <2>2
  <2> QED
    BY <1>6, <2>1, <2>3
<1>14. ids' = [ids EXCEPT ![root] = prompt] /\ logits' = [logits EXCEPT ![root] = prompt]
  BY <1>5 DEF StorePrompt, root
<1>15. Stored'
  BY <1>1, <1>4, <1>7, <1>11, <1>12, <1>13, <1>14 DEF RowsInv, Stored, Gathered
<1>16. Computing' /\ Computed'
  BY <1>1 DEF StorePrompt, Computing, Computed
<1> QED
  BY <1>10, <1>15, <1>16 DEF RowsInv

\* The row of one branch is stored; those of the others wait.
LEMMA RowsStoreRow ==
  ASSUME RowsInv, StoreRow
  PROVE  RowsInv'
<1> DEFINE b == Head(rows).branch
           row == Head(rows).row
<1>1. rows # <<>> /\ ids[KV!Root] # <<>> /\ forward[Mine].kind = "none" /\ DecodedFor(rows)
  BY DEF StoreRow, RowsInv, Computed, Unprompted
<1>2. /\ rows \in Seq([branch : live, row : Seq(Vocabulary)])
      /\ 1 \in DOMAIN rows /\ Head(rows) = rows[1]
      /\ \A i \in DOMAIN rows : rows[i].branch \in live
  <2> DEFINE R == [branch : live, row : Seq(Vocabulary)]
  <2>1. rows \in Seq(R)
    BY <1>1 DEF DecodedFor
  <2>2. \A r \in R : r.branch \in live
    OBVIOUS
  <2> HIDE DEF R
  <2>3. \A i \in DOMAIN rows : rows[i] \in R
    BY <2>1
  <2>4. 1 \in DOMAIN rows /\ Head(rows) = rows[1]
    BY <1>1, <2>1
  <2> QED
    BY <2>1, <2>2, <2>3, <2>4 DEF R
<1>3. /\ b \in live /\ b \in KV!BranchIds /\ b \in KP!BranchIds
      /\ ids[b] \in Seq(Vocabulary)
  <2>1. b \in live
    BY <1>2
  <2> HIDE DEF b
  <2> QED
    BY <2>1 DEF RowsInv, KP!IInv, KP!TypeOK, KP!BranchIds, KV!BranchIds, Stored
<1>4. PICK x \in Vocabulary : row = Append(ids[b], x)
  BY <1>1, <1>2 DEF DecodedFor
<1>5. row \in Seq(Vocabulary) /\ Len(row) = Len(ids[b]) + 1 /\ Last(row) = x
  <2>1. \A t \in Seq(Vocabulary) :
          /\ Append(t, x) \in Seq(Vocabulary) /\ Len(Append(t, x)) = Len(t) + 1
          /\ Append(t, x)[Len(t) + 1] = x
    OBVIOUS
  <2> HIDE DEF b, row
  <2> QED
    BY <1>3, <1>4, <2>1 DEF Last
<1>6. KV!AppendTokens(b, <<row>>)
  BY DEF StoreRow
<1>7. row \in Histories
  <2>1. numTokens[b] \in Nat /\ Len(KV!Gather(b)) = numTokens[b]
    BY <1>3, ExecutorAssumption, KP!GatherType DEF RowsInv, KV!Gather, KP!Gather
  <2>2. KV!Gather(b) = PrefixRows(ids[b])
    BY <1>3 DEF RowsInv, Stored, Gathered
  <2>3. Len(KV!Gather(b)) = Len(ids[b])
    BY <1>3, <2>2 DEF PrefixRows
  <2>4. numTokens[b] + 1 <= MaxTokens
    BY <1>6 DEF KV!AppendTokens
  <2> HIDE DEF row
  <2>5. Len(row) \in 1 .. MaxTokens
    BY <1>3, <1>5, <2>1, <2>3, <2>4, ExecutorAssumption
  <2> QED
    BY <1>5, <2>5, HistoryLaw
<1>8. <<row>> \in KP!Appends
  BY <1>7, ExecutorAssumption DEF KP!Appends
<1>9. KP!IInv' /\ KP!Store!AppendTokens(b, <<row>>)
  BY <1>3, <1>6, <1>8, CacheAppend DEF RowsInv
<1>10. ids' = [ids EXCEPT ![b] = row] /\ logits' = [logits EXCEPT ![b] = row]
  BY <1>4, <1>5 DEF StoreRow
<1>11. rows' = Tail(rows) /\ UNCHANGED <<batch, lock, attention, forward>>
  BY DEF StoreRow
<1>12. Gathered' = [Gathered EXCEPT ![b] = @ \o <<row>>] /\ UNCHANGED <<live, parent, nextBranch>>
  <2> HIDE DEF b, row
  <2> QED
    BY <1>9 DEF KP!Store!AppendTokens, Gathered, KP!Gather, KV!Gather, KP!BranchIds,
      KV!BranchIds
<1>13. ASSUME NEW i \in DOMAIN rows', NEW j \in DOMAIN rows'
       PROVE  /\ rows'[i] = rows[i + 1] /\ i + 1 \in DOMAIN rows
              /\ rows'[i].branch \in live /\ rows'[i].branch # b
              /\ rows'[i].branch = rows'[j].branch => i = j
  <2>1. /\ rows'[i] = rows[i + 1] /\ i + 1 \in DOMAIN rows /\ i + 1 # 1
        /\ rows'[j] = rows[j + 1] /\ j + 1 \in DOMAIN rows /\ i \in Nat /\ j \in Nat
    BY <1>2, <1>11
  <2>2. rows[i + 1].branch \in live
    BY <1>2, <2>1
  <2>3. rows[i + 1].branch # rows[1].branch
    BY <1>1, <1>2, <2>1 DEF DecodedFor
  <2>4. rows[i + 1].branch = rows[j + 1].branch => i + 1 = j + 1
    BY <1>1, <2>1 DEF DecodedFor
  <2> QED
    BY <1>2, <2>1, <2>2, <2>3, <2>4
<1> HIDE DEF b, row
<1>14. Gathered[b] \o <<row>> = PrefixRows(row)
  BY <1>3, <1>4, PrefixesExtend DEF RowsInv, Stored
<1>15. Stored'
  <2>1. ids' \in [KV!BranchIds -> Seq(Vocabulary)] /\ logits' \in [KV!BranchIds -> Seq(Vocabulary)]
    BY <1>3, <1>5, <1>10 DEF RowsInv, Stored
  <2>2. Gathered' = [c \in KV!BranchIds |-> PrefixRows(ids'[c])]
    BY <1>3, <1>10, <1>12, <1>14 DEF RowsInv, Stored
  <2>3. \A c \in live' : logits'[c] = ids'[c]
    BY <1>3, <1>10, <1>12 DEF RowsInv, Stored
  <2> QED
    BY <2>1, <2>2, <2>3 DEF Stored
<1>16. Computing'
  BY <1>1, <1>11 DEF Computing
<1>17. DecodedFor(rows)'
  <2>1. rows' \in Seq([branch : live', row : Seq(Vocabulary)])
    BY <1>2, <1>11, <1>12
  <2>2. \A i \in DOMAIN rows' : \E y \in Vocabulary :
          rows'[i].row = Append(ids'[rows'[i].branch], y)
    <3> SUFFICES ASSUME NEW i \in DOMAIN rows'
                 PROVE  \E y \in Vocabulary : rows'[i].row = Append(ids'[rows'[i].branch], y)
      OBVIOUS
    <3>1. rows'[i] = rows[i + 1] /\ i + 1 \in DOMAIN rows /\ rows'[i].branch # b
      BY <1>13
    <3>2. PICK y \in Vocabulary : rows[i + 1].row = Append(ids[rows[i + 1].branch], y)
      BY <1>1, <3>1 DEF DecodedFor
    <3>3. ids'[rows'[i].branch] = ids[rows'[i].branch]
      BY <1>10, <1>13 DEF RowsInv, Stored, KP!IInv, KP!TypeOK, KP!BranchIds, KV!BranchIds
    <3> QED
      BY <3>1, <3>2, <3>3
  <2> QED
    BY <1>13, <2>1, <2>2 DEF DecodedFor
<1>18. ids'[KV!Root] # <<>>
  BY <1>1, <1>3, <1>5, <1>10 DEF RowsInv, Stored
<1>19. Computed'
  BY <1>1, <1>11, <1>17, <1>18 DEF Computed
<1> QED
  BY <1>9, <1>15, <1>16, <1>19 DEF RowsInv

\* A forked branch has the tokens, the rows and the distribution of its source.
LEMMA RowsFork ==
  ASSUME RowsInv, NEW b \in KV!BranchIds, Fork(b)
  PROVE  RowsInv'
<1> DEFINE new == nextBranch
<1>1. KP!IInv' /\ KP!Store!Fork(b)
  BY CacheFork DEF RowsInv, Fork
<1>2. /\ b \in live /\ new \in KV!BranchIds /\ live' = live \cup {new}
      /\ parent' = [parent EXCEPT ![new] = b] /\ nextBranch' = new + 1
  BY <1>1 DEF KP!Store!Fork, KP!Store!BranchIds, KV!BranchIds
<1>3. Gathered' = [Gathered EXCEPT ![new] = Gathered[b]]
  BY <1>1 DEF KP!Store!Fork, Gathered, KP!Gather, KV!Gather, KP!BranchIds, KV!BranchIds
<1>4. ids' = [ids EXCEPT ![new] = ids[b]] /\ logits' = [logits EXCEPT ![new] = logits[b]]
  BY DEF Fork, ForkedIds, ForkedLogits
<1>5. live \subseteq KV!BranchIds
  BY DEF RowsInv, KP!IInv, KP!TypeOK, KP!BranchIds, KV!BranchIds
<1>6. Stored'
  BY <1>2, <1>3, <1>4, <1>5 DEF RowsInv, Stored, Gathered
<1>7. Computing' /\ Computed'
  BY DEF Fork, Idle, NoForward, forwardVars, Computing, Computed
<1> QED
  BY <1>1, <1>6, <1>7 DEF RowsInv

\* A pruned branch is forgotten in the pages and beside them.
LEMMA RowsPrune ==
  ASSUME RowsInv, NEW b \in KV!BranchIds, Prune(b)
  PROVE  RowsInv'
<1>1. KP!IInv' /\ KP!Store!Prune(b)
  BY CachePrune DEF RowsInv, Prune
<1>2. b \in live /\ live' = live \ {b}
  BY <1>1 DEF KP!Store!Prune
<1>3. Gathered' = [Gathered EXCEPT ![b] = <<>>]
  BY <1>1 DEF KP!Store!Prune, Gathered, KP!Gather, KV!Gather, KP!BranchIds, KV!BranchIds
<1>4. ids' = [ids EXCEPT ![b] = <<>>] /\ logits' = [logits EXCEPT ![b] = <<>>]
  BY DEF Prune
<1>5. live \subseteq KV!BranchIds
  BY DEF RowsInv, KP!IInv, KP!TypeOK, KP!BranchIds, KV!BranchIds
<1>6. Stored'
  <2>1. ids' \in [KV!BranchIds -> Seq(Vocabulary)] /\ logits' \in [KV!BranchIds -> Seq(Vocabulary)]
    BY <1>4 DEF RowsInv, Stored
  <2>2. Gathered' = [c \in KV!BranchIds |-> PrefixRows(ids'[c])]
    BY <1>3, <1>4, NoPrefixes DEF RowsInv, Stored
  <2>3. \A c \in live' : logits'[c] = ids'[c]
    BY <1>2, <1>4, <1>5 DEF RowsInv, Stored
  <2> QED
    BY <2>1, <2>2, <2>3 DEF Stored
<1>7. Computing' /\ Computed'
  BY DEF Prune, Idle, NoForward, forwardVars, Computing, Computed
<1> QED
  BY <1>1, <1>6, <1>7 DEF RowsInv

\* Merged pages are read as before.
LEMMA RowsDeduplicate ==
  ASSUME RowsInv, Deduplicate
  PROVE  RowsInv'
<1>1. KP!IInv' /\ UNCHANGED KP!Store!vars
  BY CacheDedup DEF RowsInv, Deduplicate
<1>2. Gathered' = Gathered /\ UNCHANGED <<live, parent, nextBranch>>
  BY <1>1 DEF KP!Store!vars, Gathered, KP!Gather, KV!Gather, KP!BranchIds, KV!BranchIds
<1>3. Stored'
  BY <1>2 DEF RowsInv, Stored, Deduplicate, tokenVars
<1>4. Computing' /\ Computed'
  BY DEF Deduplicate, Idle, NoForward, forwardVars, Computing, Computed
<1> QED
  BY <1>1, <1>3, <1>4 DEF RowsInv

-----------------------------------------------------------------------------
\* The two invariants hold together in every step.
LEMMA RowsNext == AttentionInv /\ RowsInv /\ [Next]_vars => RowsInv'
<1> SUFFICES ASSUME AttentionInv, RowsInv, [Next]_vars PROVE RowsInv'
  OBVIOUS
<1>1. ASSUME NEW prompt \in Prompts, BeginPrefill(prompt) PROVE RowsInv'
  BY <1>1, RowsBeginPrefill
<1>2. ASSUME NEW kind \in {"decode", "forest"}, NEW chosen \in Batches,
             BeginDecode(kind, chosen)
      PROVE  RowsInv'
  BY <1>2, RowsBeginDecode
<1>3. ASSUME NEW t \in Others, NEW kind \in {"decode", "forest"}, BeginOther(t, kind)
      PROVE  RowsInv'
  <2>1. forward'[Mine].kind = forward[Mine].kind
    BY <1>3, ExecutorAssumption DEF BeginOther, Enter, AttentionInv, Threads
  <2> QED
    BY <1>3, <2>1, RowsSame DEF BeginOther
<1>4. ASSUME NEW t \in Threads, CallLayer(t) PROVE RowsInv'
  <2>1. forward'[Mine].kind = forward[Mine].kind
    BY <1>4 DEF CallLayer, AttentionInv, Threads
  <2> QED
    BY <1>4, <2>1, RowsSame DEF CallLayer
<1>5. ASSUME NEW t \in Threads, ForwardFails(t) \/ ForwardEnds(t) PROVE RowsInv'
  BY <1>5, RowsFail, RowsEnd
<1>6. CASE StorePrompt \/ StoreRow
  BY <1>6, RowsStorePrompt, RowsStoreRow
<1>7. CASE BatchBreaksOff
  <2>1. KP!IInv' /\ Stored'
    BY <1>7, StoredSame DEF BatchBreaksOff, RowsInv
  <2>2. Computing' /\ Computed'
    BY <1>7 DEF BatchBreaksOff, RowsInv, Computed, Computing
  <2> QED
    BY <2>1, <2>2 DEF RowsInv
<1>8. ASSUME NEW b \in KV!BranchIds, Fork(b) \/ Prune(b) PROVE RowsInv'
  BY <1>8, RowsFork, RowsPrune
<1>9. CASE Deduplicate
  BY <1>9, RowsDeduplicate
<1>10. CASE UNCHANGED vars
  <2>1. UNCHANGED <<kvVars, tokenVars, batch, rows>> /\ forward' = forward
    BY <1>10 DEF vars, forwardVars
  <2> QED
    BY <2>1, RowsSame
<1> QED
  BY <1>1, <1>2, <1>3, <1>4, <1>5, <1>6, <1>7, <1>8, <1>9, <1>10 DEF Next

\* Both invariants hold in every reachable state.
LEMMA Invariants == Spec => [](AttentionInv /\ RowsInv)
<1>1. Init => AttentionInv /\ RowsInv
  BY AttentionInit, RowsInit
<1>2. AttentionInv /\ RowsInv /\ [Next]_vars => (AttentionInv /\ RowsInv)'
  BY AttentionNext, RowsNext
<1> QED
  BY <1>1, <1>2, PTL DEF Spec

\* Row by row, what a branch gathers was computed over exactly the tokens it
\* is said to have, by whichever forward, and after a batch that broke off.
THEOREM RowsAlwaysMatch == Spec => []RowsMatchTokens
<1>1. RowsInv => RowsMatchTokens
  <2> SUFFICES ASSUME RowsInv, NEW b \in live
               PROVE  KV!Gather(b) = [n \in DOMAIN ids[b] |-> SubSeq(ids[b], 1, n)]
    BY DEF RowsMatchTokens
  <2>1. b \in KV!BranchIds
    BY DEF RowsInv, KP!IInv, KP!TypeOK, KP!BranchIds, KV!BranchIds
  <2>2. ids[b] \in Seq(Vocabulary) /\ KV!Gather(b) = PrefixRows(ids[b])
    BY <2>1 DEF RowsInv, Stored, Gathered
  <2>3. DOMAIN ids[b] = 1 .. Len(ids[b])
    BY <2>2
  <2> QED
    BY <2>2, <2>3 DEF PrefixRows
<1> QED
  BY <1>1, Invariants, PTL

\* The distribution kept for a live branch is that of its last token.
THEOREM LogitsAlwaysCurrent == Spec => []LogitsCurrent
<1>1. RowsInv => LogitsCurrent
  BY DEF RowsInv, Stored, LogitsCurrent
<1> QED
  BY <1>1, Invariants, PTL
=============================================================================
