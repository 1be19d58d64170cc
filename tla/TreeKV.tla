------------------------------- MODULE TreeKV -------------------------------
(***************************************************************************)
(* The tree-structured KV cache of core/autotree_core/kv: a pool of        *)
(* fixed-size, reference-counted pages (pool.py) and the branches whose    *)
(* block tables point into it (tree_state.py).  Forks share every page of  *)
(* their source, an append writes the tail page in place or, when the tail *)
(* is shared and not full, writes a private copy of it, and dedup_scan     *)
(* merges byte-identical full pages (dedup.py).                            *)
(*                                                                         *)
(* One action is one public call of TreeState; the calls run on one thread *)
(* and a call that raises its documented error changes nothing, so it is   *)
(* no step.  A page's K/V slots and its _valid_lengths entry are one       *)
(* sequence here, the valid slots in order; a free page holds none.        *)
(***************************************************************************)
EXTENDS Integers, Sequences, FiniteSets, FiniteSetsExt, Functions

CONSTANTS
  Tokens,    \* the token payloads (K/V rows) a caller can append
  Capacity,  \* pages of the pool (KVPoolConfig.capacity)
  PageSize,  \* token slots of a page (KVPoolConfig.page_size)
  MaxBranch, \* bound: the largest branch id a run may create
  MaxTokens, \* bound: the tokens a branch may hold
  MaxAppend  \* bound: the tokens of one append_tokens call

ASSUME TreeKVAssumption ==
  /\ Capacity \in Nat \ {0}
  /\ PageSize \in Nat \ {0}
  /\ MaxBranch \in Nat
  /\ MaxTokens \in Nat
  /\ MaxAppend \in Nat

Pages == 0 .. Capacity - 1
BranchIds == 0 .. MaxBranch
Root == 0

VARIABLES
  refcount,   \* _refcounts
  page,       \* k_cache and v_cache up to _valid_lengths
  free,       \* _free_pages: a heap of distinct ids, so a set
  logical,    \* _logical_tokens
  live,       \* the keys of _branches
  parent,     \* parent_id; the root, and an id not live, is its own parent
  children,   \* child_ids
  numTokens,  \* num_tokens
  table,      \* block_table
  nextBranch  \* _next_branch_id

pool == <<refcount, page, free>>
vars == <<refcount, page, free, logical, live, parent, children, numTokens,
          table, nextBranch>>

MinOf(a, b) == IF a <= b THEN a ELSE b

PagesFor(n) == (n + PageSize - 1) \div PageSize

\* Indices a block table can have under the bound MaxTokens.
TableIndex == 1 .. PagesFor(MaxTokens)

\* The places where live block tables point at page p.
Occurrences(p) ==
  {x \in live \X TableIndex :
     x[2] \in DOMAIN table[x[1]] /\ table[x[1]][x[2]] = p}

OccurrencesIn(t, p) == Cardinality({i \in DOMAIN t : t[i] = p})

\* _validate_branch_coverage: the table covers the tokens, page by page.
Covered(b) ==
  /\ Len(table[b]) = PagesFor(numTokens[b])
  /\ \A i \in DOMAIN table[b] :
       /\ refcount[table[b][i]] # 0
       /\ Len(page[table[b][i]]) =
            MinOf(PageSize, numTokens[b] - (i - 1) * PageSize)

\* gather_branch_kv: the slots of the covered pages, cut at num_tokens.
Gather(b) ==
  [n \in 1 .. numTokens[b] |->
     page[table[b][((n - 1) \div PageSize) + 1]][((n - 1) % PageSize) + 1]]

-----------------------------------------------------------------------------
Init ==
  /\ refcount = [p \in Pages |-> 0]
  /\ page = [p \in Pages |-> <<>>]
  /\ free = Pages
  /\ logical = 0
  /\ live = {Root}
  /\ parent = [b \in BranchIds |-> b]
  /\ children = [b \in BranchIds |-> {}]
  /\ numTokens = [b \in BranchIds |-> 0]
  /\ table = [b \in BranchIds |-> <<>>]
  /\ nextBranch = 1

-----------------------------------------------------------------------------
\* Fault: one retain per page, however often the table names it.
ForkRefcountOnce(b) ==
  [p \in Pages |-> refcount[p] + MinOf(1, OccurrencesIn(table[b], p))]

\* A retain of every page occurrence of the source's table.
ForkRefcount(b) ==
  [p \in Pages |-> refcount[p] + OccurrencesIn(table[b], p)]

Fork(b) ==
  /\ b \in live
  /\ nextBranch \in BranchIds
  /\ Covered(b)
  /\ refcount' = ForkRefcount(b)
  /\ logical' = logical + numTokens[b]
  /\ live' = live \cup {nextBranch}
  /\ parent' = [parent EXCEPT ![nextBranch] = b]
  /\ children' = [children EXCEPT ![b] = @ \cup {nextBranch}]
  /\ numTokens' = [numTokens EXCEPT ![nextBranch] = numTokens[b]]
  /\ table' = [table EXCEPT ![nextBranch] = table[b]]
  /\ nextBranch' = nextBranch + 1
  /\ UNCHANGED <<page, free>>

-----------------------------------------------------------------------------
\* free() of each page of the leaf: the last reference recycles the page.
PruneRefcount(b) ==
  [p \in Pages |-> refcount[p] - OccurrencesIn(table[b], p)]

\* Fault: every page of the leaf is recycled, whoever else reads it.
ReleasedAll(b) == {p \in Pages : OccurrencesIn(table[b], p) # 0}

Released(b) ==
  {p \in Pages : OccurrencesIn(table[b], p) # 0 /\ PruneRefcount(b)[p] = 0}

Unlinked(b) == [children EXCEPT ![b] = {}, ![parent[b]] = @ \ {b}]

Prune(b) ==
  /\ b \in live
  /\ children[b] = {}
  /\ Covered(b)
  /\ refcount' = PruneRefcount(b)
  /\ page' = [p \in Pages |-> IF p \in Released(b) THEN <<>> ELSE page[p]]
  /\ free' = free \cup Released(b)
  /\ logical' = logical - numTokens[b]
  /\ live' = live \ {b}
  /\ parent' = [parent EXCEPT ![b] = b]
  /\ children' = Unlinked(b)
  /\ numTokens' = [numTokens EXCEPT ![b] = 0]
  /\ table' = [table EXCEPT ![b] = <<>>]
  /\ UNCHANGED nextBranch

-----------------------------------------------------------------------------
LastPage(b) == table[b][Len(table[b])]

\* Fault: the tail is always written in place.
NeedsCopyNever(b) == FALSE

\* needs_cow: the tail page has room but another branch reads it too.
NeedsCopy(b) == numTokens[b] % PageSize # 0 /\ refcount[LastPage(b)] > 1

Copies(b) == IF NeedsCopy(b) THEN 1 ELSE 0

\* Fault: the capacity check forgets the page of the private copy.
RequiredPagesUncopied(b, n) == PagesFor(numTokens[b] + n) - Len(table[b])

\* Pages the capacity check demands before anything is written.
RequiredPages(b, n) == PagesFor(numTokens[b] + n) - Len(table[b]) + Copies(b)

\* Pages the copy and the write loop take for the first n tokens.
PagesTaken(b, n) == PagesFor(numTokens[b] + n) - Len(table[b]) + Copies(b)

\* Tokens written before alloc_page finds the pool empty: all of them when
\* the capacity check was sound.
Written(b, n) ==
  Max({0} \cup {m \in 1 .. n : PagesTaken(b, m) <= Cardinality(free)})

\* What k calls of alloc_page pop: the k lowest free ids, in order.
LowestFree(k) ==
  {f \in [1 .. k -> free] :
     /\ \A i, j \in 1 .. k : i < j => f[i] < f[j]
     /\ \A q \in free : (\A i \in 1 .. k : f[i] # q) => \A i \in 1 .. k : f[i] < q}

\* The block table after the append: a copied tail, then the new pages.
GrownTable(b, w, fresh) ==
  [i \in 1 .. PagesFor(numTokens[b] + w) |->
     IF i = Len(table[b]) /\ NeedsCopy(b) THEN fresh[1]
     ELSE IF i <= Len(table[b]) THEN table[b][i]
     ELSE fresh[i - Len(table[b]) + Copies(b)]]

\* The slots of table entry i after the append: what the tail page held,
\* then the new tokens whose positions fall into this page.
GrownPage(b, tokens, w, i) ==
  LET kept == IF i = Len(table[b]) THEN page[LastPage(b)] ELSE <<>>
      length == MinOf(PageSize, numTokens[b] + w - (i - 1) * PageSize)
  IN [o \in 1 .. length |->
        IF o <= Len(kept) THEN kept[o]
        ELSE tokens[(i - 1) * PageSize + o - numTokens[b]]]

\* Table entries the write loop touches.
Touched(b, w) ==
  {i \in 1 .. PagesFor(numTokens[b] + w) : numTokens[b] < i * PageSize}

\* Write the first w tokens into the branch, with the pages fresh for the
\* private copy of the tail and the new entries.
WriteTokens(b, tokens, w, fresh) ==
  LET taken == Range(fresh)
      grown == GrownTable(b, w, fresh)
  IN
  /\ refcount' = [p \in Pages |->
       IF p \in taken THEN 1
       ELSE IF NeedsCopy(b) /\ p = LastPage(b) THEN refcount[p] - 1
       ELSE refcount[p]]
  /\ page' = [p \in Pages |->
       IF \E i \in Touched(b, w) : grown[i] = p
       THEN GrownPage(b, tokens, w, CHOOSE i \in Touched(b, w) : grown[i] = p)
       ELSE page[p]]
  /\ free' = free \ taken
  /\ numTokens' = [numTokens EXCEPT ![b] = @ + w]
  /\ table' = [table EXCEPT ![b] = grown]
  /\ logical' = logical + (IF w = Len(tokens) THEN w ELSE 0)

AppendTokens(b, tokens) ==
  LET n == Len(tokens)
      w == Written(b, n)
  IN
  /\ b \in live
  /\ n > 0
  /\ numTokens[b] + n <= MaxTokens
  /\ Covered(b)
  /\ RequiredPages(b, n) <= Cardinality(free)
  /\ \E fresh \in LowestFree(PagesTaken(b, w)) : WriteTokens(b, tokens, w, fresh)
  /\ UNCHANGED <<live, parent, children, nextBranch>>

-----------------------------------------------------------------------------
Full(p) == Len(page[p]) = PageSize

InUse == {p \in Pages : Occurrences(p) # {}}

\* Fault: a page several table entries share is left where it is.
CanonicalUnshared(p) ==
  IF Full(p) /\ refcount[p] = 1
  THEN Min({q \in InUse : page[q] = page[p]}) ELSE p

\* Fault: pages in one digest bucket are merged without comparing their bytes.
CanonicalUncompared(p) == IF Full(p) THEN Min({q \in InUse : Full(q)}) ELSE p

\* The lowest page in use with the same bytes; only full pages are compared.
Canonical(p) ==
  IF Full(p) THEN Min({q \in InUse : page[q] = page[p]}) ELSE p

Redirected == {p \in InUse : Canonical(p) # p}

\* Retain the canonical page once per occurrence taken over, then free the
\* duplicate once per occurrence it had.
DedupRefcount ==
  [p \in Pages |->
     IF p \in Redirected THEN refcount[p] - Cardinality(Occurrences(p))
     ELSE refcount[p] + Cardinality(UNION {Occurrences(d) :
                          d \in {q \in Redirected : Canonical(q) = p}})]

Recycled == {p \in Redirected : DedupRefcount[p] = 0}

DedupScan ==
  /\ \A b \in live : Covered(b)
  /\ \A p \in InUse : refcount[p] = Cardinality(Occurrences(p))
  /\ Redirected # {}
  /\ refcount' = DedupRefcount
  /\ table' = [b \in BranchIds |->
                 [i \in 1 .. Len(table[b]) |-> Canonical(table[b][i])]]
  /\ page' = [p \in Pages |-> IF p \in Recycled THEN <<>> ELSE page[p]]
  /\ free' = free \cup Recycled
  /\ UNCHANGED <<logical, live, parent, children, numTokens, nextBranch>>

-----------------------------------------------------------------------------
Appends == UNION {[1 .. n -> Tokens] : n \in 1 .. MaxAppend}

Next ==
  \/ \E b \in BranchIds : Fork(b)
  \/ \E b \in BranchIds : Prune(b)
  \/ \E b \in BranchIds, tokens \in Appends : AppendTokens(b, tokens)
  \/ DedupScan

Spec == Init /\ [][Next]_vars

-----------------------------------------------------------------------------
TypeOK ==
  /\ refcount \in [Pages -> Nat]
  /\ page \in [Pages -> Seq(Tokens)]
  /\ free \in SUBSET Pages
  /\ logical \in Nat
  /\ live \in SUBSET BranchIds
  /\ parent \in [BranchIds -> BranchIds]
  /\ children \in [BranchIds -> SUBSET BranchIds]
  /\ numTokens \in [BranchIds -> Nat]
  /\ table \in [BranchIds -> Seq(Pages)]
  /\ nextBranch \in Nat

\* Every page's reference count is the number of block-table entries of live
\* branches that point at it, and the free heap holds exactly the pages no
\* entry points at: fork, prune, copy-on-write and dedup neither leak a page
\* nor free one a branch still reads.
PagesAccounted ==
  /\ \A p \in Pages : refcount[p] = Cardinality(Occurrences(p))
  /\ free = {p \in Pages : refcount[p] = 0}

\* The block table of every live branch covers its tokens exactly: what
\* _validate_branch_coverage and gather_branch_kv refuse to run without, so
\* no sequence of legal calls makes them raise KVInvariantError.
CoverageExact == \A b \in live : Covered(b)

\* _logical_tokens is the number of tokens of all live branches, also after
\* forks that share pages and appends that hit the pool's capacity.
LogicalExact ==
  logical = Cardinality({x \in live \X (1 .. MaxTokens) : x[2] <= numTokens[x[1]]})

\* child_ids and parent_id agree, and the parent of a live branch is live:
\* prune can always find the parent it must update.
TreeLinked ==
  \A b \in live :
    /\ b # Root => parent[b] \in live /\ b \in children[parent[b]]
    /\ children[b] = {c \in live \ {b} : parent[c] = b}

\* No call writes into a page that is full or that more than one block-table
\* entry points at: the slots of such a page only go away with the page.
SharedPagesImmutable ==
  [][\A p \in Pages :
       (Full(p) \/ refcount[p] > 1) /\ p \notin free' => page'[p] = page[p]]_vars

\* dedup_scan finishes its job in one pass: afterwards no two pages in use
\* are full and equal.
DedupComplete ==
  [][DedupScan =>
       \A p, q \in (Pages \ free)' :
         Len(page'[p]) = PageSize /\ page'[p] = page'[q] => p = q]_vars

\* The cache is a store of independent token sequences, whatever the sharing:
\* every call changes what one branch gathers exactly as BranchStore says.
Store == INSTANCE BranchStore
  WITH history <- [b \in BranchIds |-> Gather(b)]

ImplementsStore == Store!Spec
=============================================================================
