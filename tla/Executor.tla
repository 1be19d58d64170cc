------------------------------ MODULE Executor ------------------------------
(***************************************************************************)
(* ModelExecutor (modeling/executor.py): one execution, its Tree-KV cache  *)
(* and the tokens and logits it keeps for each branch, and the forwards    *)
(* that several threads run through one model.                             *)
(*                                                                         *)
(* A forward calls the attention of each layer in turn.  A batched decode  *)
(* replaces the attention function the model's module looks up, which all  *)
(* threads share, by one that reads the branches' pages; a lock keeps      *)
(* forwards apart.  The other threads work for executions of their own, of *)
(* which only the forwards matter here.                                    *)
(*                                                                         *)
(* A K/V row, and a next-token distribution, is what it was computed from: *)
(* the tokens attended to.  Tensor layouts, kernels and sampling are left  *)
(* out; a caller appends any token.                                        *)
(***************************************************************************)
EXTENDS Integers, Sequences, FiniteSets, SequencesExt

CONSTANTS
  Vocabulary,
  Capacity, PageSize, MaxBranch, MaxTokens, MaxAppend,  \* those of TreeKV
  Layers,    \* of the model
  Mine,      \* the thread of the execution
  Others     \* other threads that use the model

Threads == {Mine} \cup Others

ASSUME ExecutorAssumption ==
  /\ Capacity \in Nat \ {0} /\ PageSize \in Nat \ {0}
  /\ MaxBranch \in Nat /\ MaxTokens \in Nat /\ MaxAppend \in Nat \ {0}
  /\ Layers \in Nat \ {0}
  /\ Mine \notin Others /\ "nobody" \notin Threads

Histories == UNION {[1 .. n -> Vocabulary] : n \in 1 .. MaxTokens}

VARIABLES
  refcount, page, free, logical, live, parent, children, numTokens, table,
  nextBranch,
  ids,        \* _token_ids
  logits,     \* _next_logits
  batch,      \* the branches and tokens of a forward of Mine
  rows,       \* what the forward computed, to be appended: [branch, token, row]
  lock,       \* holder of _FOREST_FORWARD_LOCK
  attention,  \* what eager_attention_forward is bound to
  forward     \* [Threads -> ...]: kind, layers done, attention they called
              \* and, of a batched decode, the attention it found

KV == INSTANCE TreeKV WITH Tokens <- Histories

kvVars == <<refcount, page, free, logical, live, parent, children, numTokens,
            table, nextBranch>>
tokenVars == <<ids, logits>>
forwardVars == <<batch, rows, lock, attention, forward>>
vars == <<kvVars, tokenVars, forwardVars>>

NoForward ==
  [kind |-> "none", layer |-> 0, called |-> {}, original |-> "none"]

Init ==
  /\ KV!Init
  /\ ids = [b \in KV!BranchIds |-> <<>>]
  /\ logits = [b \in KV!BranchIds |-> <<>>]
  /\ batch = <<>> /\ rows = <<>>
  /\ lock = "nobody"
  /\ attention = "model"
  /\ forward = [t \in Threads |-> NoForward]

-----------------------------------------------------------------------------
(* What a branch's attention reads.                                        *)

\* decode: the cache is gathered from the branch's pages.
DecodeReads(b) == KV!Gather(b)

PositionsOf(b) == 1 .. numTokens[b]

\* The block-table entry that a branch's new token falls into.
NewEntry(b) == (numTokens[b] \div PageSize) + 1

\* The temporary page of a branch: the tail page as far as it is filled.
TempPage(b) ==
  IF numTokens[b] % PageSize = 0 THEN <<>> ELSE page[KV!LastPage(b)]

\* Fault: the temporary page of a branch starts empty.
ForestReadsNoTail(b) ==
  [n \in 1 .. (numTokens[b] \div PageSize) * PageSize |->
     page[table[b][((n - 1) \div PageSize) + 1]][((n - 1) % PageSize) + 1]]

\* _forest_attention_decode: the block table, extended by the temporary page
\* in the place of the tail, or after a full one.
ForestReads(b) ==
  [n \in PositionsOf(b) |->
     LET entry == ((n - 1) \div PageSize) + 1
         slots == IF entry = NewEntry(b) THEN TempPage(b) ELSE page[table[b][entry]]
     IN slots[((n - 1) % PageSize) + 1]]

\* The row of a token whose forward has read these rows.
RowOf(reads, token) == Append([n \in DOMAIN reads |-> Last(reads[n])], token)

\* The attention a forward of a thread is meant to call.
Own(t, kind) == IF kind = "forest" THEN t ELSE "model"

\* What the rows of a forward are.  A decode that ended called the model's
\* attention, on the cache.  A batched one has no cache but the pages: with
\* another attention its tokens see but themselves.
ComputedFor(kind, called, b, token) ==
  IF kind = "decode" THEN RowOf(DecodeReads(b), token)
  ELSE IF called = {Own(Mine, kind)} THEN RowOf(ForestReads(b), token)
  ELSE <<token>>

-----------------------------------------------------------------------------
(* Forwards.                                                               *)

\* Fault: only batched decodes take the lock.
FreeForForest(kind) == lock = "nobody" \/ kind # "forest"

Free(kind) == lock = "nobody"

\* The lock is taken, the attention found there remembered and replaced.
Enter(t, kind) ==
  /\ forward[t] = NoForward /\ Free(kind)
  /\ lock' = t
  /\ forward' = [forward EXCEPT ![t] =
       [kind |-> kind, layer |-> 0, called |-> {},
        original |-> IF kind = "forest" THEN attention ELSE "none"]]
  /\ attention' = IF kind = "forest" THEN t ELSE attention

Idle == forward[Mine] = NoForward /\ rows = <<>>

\* Each branch of a batch once, with a token.
Batches ==
  {s \in UNION {[1 .. n -> live \X Vocabulary] : n \in 1 .. Cardinality(live)} :
     \A i, j \in DOMAIN s : s[i][1] = s[j][1] => i = j}

\* prefill(), up to the forward, and the tokens of the prompt.
BeginPrefill(prompt) ==
  /\ Idle /\ ids[KV!Root] = <<>> /\ live = {KV!Root}
  /\ Enter(Mine, "prefill")
  /\ batch' = [i \in DOMAIN prompt |-> <<KV!Root, prompt[i]>>]
  /\ UNCHANGED <<kvVars, tokenVars, rows>>

\* decode() and decode_batch(), up to the forward.
BeginDecode(kind, chosen) ==
  /\ Idle /\ ids[KV!Root] # <<>>
  /\ kind = "decode" => Len(chosen) = 1
  /\ \A i \in DOMAIN chosen : numTokens[chosen[i][1]] < MaxTokens
  /\ Enter(Mine, kind)
  /\ batch' = chosen
  /\ UNCHANGED <<kvVars, tokenVars, rows>>

BeginOther(t, kind) ==
  /\ Enter(t, kind)
  /\ UNCHANGED <<kvVars, tokenVars, batch, rows>>

\* A batched decode's attention takes one token and its one key: it raises
\* in a forward that has more, a prompt or a token after cached ones.  (A
\* prompt of one token, which it would not notice, counts with the others.)
Refused(t) ==
  /\ forward[t].kind \in {"prefill", "decode"}
  /\ ~(forward[t].called \subseteq {"model"})

CallLayer(t) ==
  /\ forward[t].kind # "none" /\ forward[t].layer < Layers /\ ~Refused(t)
  /\ forward' = [forward EXCEPT ![t].layer = @ + 1, ![t].called = @ \cup {attention}]
  /\ UNCHANGED <<kvVars, tokenVars, batch, rows, lock, attention>>

\* The finally of _forest_forward.
Restored(t) == IF forward[t].kind = "forest" THEN forward[t].original ELSE attention

Exit(t) ==
  /\ attention' = Restored(t)
  /\ lock' = "nobody"
  /\ forward' = [forward EXCEPT ![t] = NoForward]

\* A forward raises, in whichever layer.
ForwardFails(t) ==
  /\ forward[t].kind # "none"
  /\ Exit(t)
  /\ batch' = IF t = Mine THEN <<>> ELSE batch
  /\ UNCHANGED <<kvVars, tokenVars, rows>>

Fits(b, n) == KV!RequiredPages(b, n) <= Cardinality(free)

PromptRows ==
  LET prompt == [i \in DOMAIN batch |-> batch[i][2]]
  IN [i \in DOMAIN batch |-> [branch |-> KV!Root, row |-> SubSeq(prompt, 1, i)]]

DecodedRows ==
  [i \in DOMAIN batch |->
     [branch |-> batch[i][1],
      row |-> ComputedFor(forward[Mine].kind, forward[Mine].called,
                          batch[i][1], batch[i][2])]]

\* A forward is over: a prompt's rows each see what precedes them.  A prompt
\* that needs more pages than a pool has is refused then.
ForwardEnds(t) ==
  /\ forward[t].kind # "none" /\ forward[t].layer = Layers /\ ~Refused(t)
  /\ Exit(t)
  /\ IF t # Mine THEN UNCHANGED <<batch, rows>>
     ELSE /\ batch' = <<>>
          /\ rows' = IF forward[t].kind # "prefill" THEN DecodedRows
                     ELSE IF Fits(KV!Root, Len(batch)) THEN PromptRows ELSE <<>>
  /\ UNCHANGED <<kvVars, tokenVars>>

-----------------------------------------------------------------------------
(* The execution's calls.                                                  *)

\* prefill() stores the rows of the whole prompt.
StorePrompt ==
  /\ rows # <<>> /\ ids[KV!Root] = <<>>
  /\ KV!AppendTokens(KV!Root, [i \in DOMAIN rows |-> rows[i].row])
  /\ ids' = [ids EXCEPT ![KV!Root] = Last(rows).row]
  /\ logits' = [logits EXCEPT ![KV!Root] = Last(rows).row]
  /\ rows' = <<>>
  /\ UNCHANGED <<batch, lock, attention, forward>>

\* decode() and decode_batch() store one branch's row after the other's.
StoreRow ==
  /\ rows # <<>> /\ ids[KV!Root] # <<>>
  /\ LET b == Head(rows).branch
         row == Head(rows).row
     IN /\ KV!AppendTokens(b, <<row>>)
        /\ logits' = [logits EXCEPT ![b] = row]
        /\ ids' = [ids EXCEPT ![b] = Append(@, Last(row))]
  /\ rows' = Tail(rows)
  /\ UNCHANGED <<batch, lock, attention, forward>>

\* No page for the next branch: those before it keep their new token.
BatchBreaksOff ==
  /\ rows # <<>> /\ ids[KV!Root] # <<>> /\ ~Fits(Head(rows).branch, 1)
  /\ rows' = <<>>
  /\ UNCHANGED <<kvVars, tokenVars, batch, lock, attention, forward>>

\* Fault: the child has no distribution of its own.
ForkedLogitsLater(b) == logits

ForkedLogits(b) == [logits EXCEPT ![nextBranch] = logits[b]]

ForkedIds(b) == [ids EXCEPT ![nextBranch] = ids[b]]

Fork(b) ==
  /\ Idle /\ KV!Fork(b)
  /\ logits' = ForkedLogits(b)
  /\ ids' = ForkedIds(b)
  /\ UNCHANGED forwardVars

Prune(b) ==
  /\ Idle /\ KV!Prune(b)
  /\ logits' = [logits EXCEPT ![b] = <<>>]
  /\ ids' = [ids EXCEPT ![b] = <<>>]
  /\ UNCHANGED forwardVars

Deduplicate ==
  /\ Idle /\ KV!DedupScan
  /\ UNCHANGED <<tokenVars, forwardVars>>

Prompts == UNION {[1 .. n -> Vocabulary] : n \in 1 .. MaxAppend}

Next ==
  \/ \E prompt \in Prompts : BeginPrefill(prompt)
  \/ \E kind \in {"decode", "forest"}, chosen \in Batches : BeginDecode(kind, chosen)
  \/ \E t \in Others, kind \in {"decode", "forest"} : BeginOther(t, kind)
  \/ \E t \in Threads : CallLayer(t) \/ ForwardFails(t) \/ ForwardEnds(t)
  \/ StorePrompt \/ StoreRow \/ BatchBreaksOff
  \/ \E b \in KV!BranchIds : ids[KV!Root] # <<>> /\ (Fork(b) \/ Prune(b))
  \/ Deduplicate

Spec == Init /\ [][Next]_vars

-----------------------------------------------------------------------------
\* What a branch gathers from its pages is, row by row, computed over exactly
\* the tokens the branch is said to have: whatever pages it shares, however it
\* was decoded, and also when a batch broke off in the middle.
RowsMatchTokens ==
  \A b \in live :
    KV!Gather(b) = [n \in DOMAIN ids[b] |-> SubSeq(ids[b], 1, n)]

\* The distribution kept for a branch follows its last token, no other's.
LogitsCurrent == \A b \in live : logits[b] = ids[b]

\* However the threads' forwards meet, each calls its own attention in every
\* layer, and when none runs the model is as its owner configured it: no
\* forward took another's replacement for the original and put it back.
OwnAttention ==
  /\ \A t \in Threads : forward[t].called \subseteq {Own(t, forward[t].kind)}
  /\ lock = "nobody" => attention = "model"
=============================================================================
