---------------------------- MODULE TreeKVProofs ----------------------------
(***************************************************************************)
(* The safety of the tree KV cache for every pool, page size and number of *)
(* branches: the inductive invariant IInv of TreeKV, one lemma per public  *)
(* call that the call preserves it, and the theorems that follow: types,   *)
(* reference counts, coverage, the logical token count, the tree's links,  *)
(* the immutability of shared pages, the completeness of a dedup scan and  *)
(* that the cache implements BranchStore.                                  *)
(*                                                                         *)
(* Appending is the long part.  Its lemmas follow the code: the capacity   *)
(* check guards the whole write (WrittenAll, AppendWrites), where the new  *)
(* pages go (AppendEntries), what they do to the counts (AppendCounts),    *)
(* which entries the write loop touches (AppendTouches) and what the pages *)
(* then hold (AppendPages, GrownPageLaw).                                  *)
(***************************************************************************)
EXTENDS TreeKV, SharedLemmas

\* The free pages hold nothing, and the ids, links and lengths of branches
\* stay in their ranges: what the conjuncts of IInv need of each other.
Bookkeeping ==
  /\ \A p \in free : page[p] = <<>>
  /\ nextBranch >= 1
  /\ \A b \in live : b < nextBranch
  /\ parent[Root] = Root
  /\ \A b \in BranchIds \ live :
       children[b] = {} /\ table[b] = <<>> /\ numTokens[b] = 0
  /\ \A b \in BranchIds : numTokens[b] <= MaxTokens

\* The inductive invariant: the invariants the run checks, and Bookkeeping.
IInv ==
  /\ TypeOK
  /\ PagesAccounted
  /\ CoverageExact
  /\ LogicalExact
  /\ TreeLinked
  /\ Bookkeeping

-----------------------------------------------------------------------------
\* Occurrences as a function of the live set and the tables, to compare the
\* state before and after a step.
OccOf(L, tb, p) ==
  {x \in L \X TableIndex : x[2] \in DOMAIN tb[x[1]] /\ tb[x[1]][x[2]] = p}

\* The (branch, position) pairs LogicalExact counts.
TokensOf(L, n) == {x \in L \X (1 .. MaxTokens) : x[2] <= n[x[1]]}

-----------------------------------------------------------------------------
\* n tokens take k pages or more exactly when k - 1 pages do not hold them.
LEMMA PagesForLaw ==
  ASSUME NEW n \in Nat
  PROVE  /\ PagesFor(n) \in Nat
         /\ \A k \in Nat \ {0} : k <= PagesFor(n) <=> (k - 1) * PageSize < n
BY CeilingLaw, TreeKVAssumption DEF PagesFor

\* Tokens take at least one page.
LEMMA PagesForPositive ==
  ASSUME NEW n \in Nat \ {0}
  PROVE  1 <= PagesFor(n)
<1>1. 1 <= PagesFor(n) <=> (1 - 1) * PageSize < n
  BY PagesForLaw
<1>2. (1 - 1) * PageSize < n
  BY TreeKVAssumption
<1> QED
  BY <1>1, <1>2

\* More tokens never take fewer pages.
LEMMA PagesForMono ==
  ASSUME NEW m \in Nat, NEW n \in Nat, m <= n
  PROVE  PagesFor(m) <= PagesFor(n)
<1> DEFINE k == PagesFor(m)
<1>1. k \in Nat /\ PagesFor(n) \in Nat
  BY PagesForLaw
<1>2. CASE k = 0
  BY <1>1, <1>2
<1>3. CASE k # 0
  <2>1. (k - 1) * PageSize < m /\ (k - 1) * PageSize \in Int
    BY <1>1, <1>3, PagesForLaw, TreeKVAssumption
  <2>2. (k - 1) * PageSize < n
    BY <2>1
  <2> QED
    BY <1>1, <1>3, <2>2, PagesForLaw
<1> QED
  BY <1>2, <1>3

\* The branch ids, the table indices and so the occurrences are finitely many.
LEMMA OccFinite ==
  ASSUME NEW L \in SUBSET BranchIds, NEW tb, NEW p
  PROVE  IsFiniteSet(OccOf(L, tb, p))
<1>1. PagesFor(MaxTokens) \in Nat
  BY PagesForLaw, TreeKVAssumption
<1>2. IsFiniteSet(BranchIds) /\ IsFiniteSet(TableIndex)
  BY <1>1, FS_Interval, TreeKVAssumption DEF BranchIds, TableIndex
<1>3. IsFiniteSet(L)
  BY <1>2, FS_Subset
<1>4. IsFiniteSet(L \X TableIndex)
  BY <1>2, <1>3, FS_Product
<1> QED
  BY <1>4, FS_Subset DEF OccOf

\* Only the tables of the branches in L matter to the occurrences in L.
LEMMA OccSame ==
  ASSUME NEW L, NEW tb, NEW tc, NEW p, \A b \in L : tc[b] = tb[b]
  PROVE  OccOf(L, tc, p) = OccOf(L, tb, p)
BY DEF OccOf

\* The occurrences of p in one more branch b are those in its own table.
LEMMA OccSplit ==
  ASSUME NEW L \in SUBSET BranchIds, NEW b \in BranchIds, b \notin L,
         NEW tb \in [BranchIds -> Seq(Pages)],
         Len(tb[b]) <= PagesFor(MaxTokens), NEW p
  PROVE  /\ Cardinality(OccOf(L \cup {b}, tb, p)) =
              Cardinality(OccOf(L, tb, p)) + OccurrencesIn(tb[b], p)
         /\ Cardinality(OccOf(L, tb, p)) \in Nat
         /\ OccurrencesIn(tb[b], p) \in Nat
<1> DEFINE At == {i \in DOMAIN tb[b] : tb[b][i] = p}
<1>1. DOMAIN tb[b] = 1 .. Len(tb[b]) /\ Len(tb[b]) \in Nat
  OBVIOUS
<1>2. PagesFor(MaxTokens) \in Nat
  BY PagesForLaw, TreeKVAssumption
<1>3. At \subseteq TableIndex
  BY <1>1, <1>2 DEF TableIndex
<1>4. IsFiniteSet(At)
  <2>1. IsFiniteSet(DOMAIN tb[b])
    BY <1>1, FS_Interval
  <2> QED
    BY <2>1, FS_Subset
<1>5. OccOf(L \cup {b}, tb, p) = OccOf(L, tb, p) \cup ({b} \X At)
  BY <1>3 DEF OccOf
<1>6. OccOf(L, tb, p) \cap ({b} \X At) = {}
  BY DEF OccOf
<1>7. IsFiniteSet(OccOf(L, tb, p))
  BY OccFinite
<1>8. IsFiniteSet({b} \X At) /\ Cardinality({b} \X At) = Cardinality(At)
  BY <1>4, FibreCardinality
<1> HIDE DEF At
<1>9. /\ Cardinality(OccOf(L \cup {b}, tb, p)) =
           Cardinality(OccOf(L, tb, p)) + Cardinality(At)
      /\ Cardinality(OccOf(L, tb, p)) \in Nat
      /\ Cardinality(At) \in Nat
  BY <1>5, <1>6, <1>7, <1>8, DisjointCardinality
<1> QED
  BY <1>9 DEF At, OccurrencesIn

\* The tokens of one more branch b are its own tokens.
LEMMA TokensSplit ==
  ASSUME NEW L \in SUBSET BranchIds, NEW b \in BranchIds, b \notin L,
         NEW n, n[b] \in Nat, n[b] <= MaxTokens
  PROVE  /\ Cardinality(TokensOf(L \cup {b}, n)) =
              Cardinality(TokensOf(L, n)) + n[b]
         /\ Cardinality(TokensOf(L, n)) \in Nat
<1> DEFINE Own == 1 .. n[b]
<1>1. IsFiniteSet(BranchIds) /\ IsFiniteSet(1 .. MaxTokens)
  BY FS_Interval, TreeKVAssumption DEF BranchIds
<1>2. IsFiniteSet(L \X (1 .. MaxTokens))
  BY <1>1, FS_Subset, FS_Product
<1>3. IsFiniteSet(TokensOf(L, n))
  BY <1>2, FS_Subset DEF TokensOf
<1>4. IsFiniteSet(Own) /\ Cardinality(Own) = n[b]
  BY FS_Interval
<1>5. IsFiniteSet({b} \X Own) /\ Cardinality({b} \X Own) = n[b]
  BY <1>4, FibreCardinality
<1>6. TokensOf(L \cup {b}, n) = TokensOf(L, n) \cup ({b} \X Own)
  BY TreeKVAssumption DEF TokensOf
<1>7. TokensOf(L, n) \cap ({b} \X Own) = {}
  BY DEF TokensOf
<1> HIDE DEF Own
<1> QED
  BY <1>3, <1>5, <1>6, <1>7, DisjointCardinality

\* Only the lengths of the branches in L matter to the tokens in L.
LEMMA TokensSame ==
  ASSUME NEW L, NEW n, NEW m, \A b \in L : m[b] = n[b]
  PROVE  TokensOf(L, m) = TokensOf(L, n)
BY DEF TokensOf

-----------------------------------------------------------------------------
\* A page some live table points at is referenced, and is not free.
LEMMA InTableReferenced ==
  ASSUME TypeOK, PagesAccounted, Bookkeeping, CoverageExact,
         NEW b \in live, NEW i \in DOMAIN table[b]
  PROVE  /\ table[b][i] \in Pages
         /\ <<b, i>> \in Occurrences(table[b][i])
         /\ refcount[table[b][i]] > 0
         /\ table[b][i] \notin free
<1> DEFINE p == table[b][i]
<1>0. b \in BranchIds /\ table[b] \in Seq(Pages) /\ numTokens[b] \in Nat
  BY DEF TypeOK
<1>1. /\ p \in Pages
      /\ Len(table[b]) = PagesFor(numTokens[b])
      /\ numTokens[b] <= MaxTokens /\ MaxTokens \in Nat
      /\ i \in Nat /\ 1 <= i /\ i <= Len(table[b])
  BY <1>0, TreeKVAssumption DEF CoverageExact, Covered, Bookkeeping
<1>2. PagesFor(numTokens[b]) <= PagesFor(MaxTokens)
      /\ PagesFor(numTokens[b]) \in Nat /\ PagesFor(MaxTokens) \in Nat
  BY <1>0, <1>1, PagesForMono, PagesForLaw
<1>3. i \in TableIndex
  BY <1>1, <1>2 DEF TableIndex
<1>4. <<b, i>> \in Occurrences(p)
  BY <1>3 DEF Occurrences
<1>5. Occurrences(p) = OccOf(live, table, p)
  BY DEF Occurrences, OccOf
<1>6. IsFiniteSet(Occurrences(p))
  BY <1>5, OccFinite DEF TypeOK
<1>7. Cardinality(Occurrences(p)) # 0
  BY <1>4, <1>6, FS_EmptySet
<1> HIDE DEF p
<1>8. refcount[p] # 0 /\ refcount[p] \in Nat
  BY <1>1, <1>7 DEF PagesAccounted, TypeOK
<1>9. p \notin free
  BY <1>8 DEF PagesAccounted
<1> QED
  BY <1>1, <1>4, <1>8, <1>9 DEF p

-----------------------------------------------------------------------------
\* The initial state: one empty root branch, every page free.
LEMMA InitIInv == Init => IInv
<1> SUFFICES ASSUME Init PROVE IInv
  OBVIOUS
<1> USE TreeKVAssumption
<1>1. TypeOK
  BY DEF Init, TypeOK, Root, BranchIds
<1>2. \A p \in Pages : Occurrences(p) = {}
  BY DEF Init, Occurrences, Root, BranchIds
<1>3. PagesAccounted
  BY <1>2, FS_EmptySet DEF Init, PagesAccounted
<1>4. CoverageExact
  <2>1. PagesFor(0) = 0
    <3>1. PagesFor(0) \in Nat /\ (1 <= PagesFor(0) <=> (1 - 1) * PageSize < 0)
      BY PagesForLaw
    <3>2. ~((1 - 1) * PageSize < 0)
      OBVIOUS
    <3> QED
      BY <3>1, <3>2
  <2> QED
    BY <2>1 DEF Init, CoverageExact, Covered, Root, BranchIds
<1>5. LogicalExact
  <2>1. {x \in live \X (1 .. MaxTokens) : x[2] <= numTokens[x[1]]} = {}
    BY DEF Init, Root, BranchIds
  <2> QED
    BY <2>1, FS_EmptySet DEF Init, LogicalExact
<1>6. TreeLinked
  BY DEF Init, TreeLinked, Root, BranchIds
<1>7. Bookkeeping
  BY DEF Init, Bookkeeping, Root, BranchIds, Pages
<1> QED
  BY <1>1, <1>3, <1>4, <1>5, <1>6, <1>7 DEF IInv

\* A fork shares every page of its source and retains each one as often as
\* the copied table names it.
LEMMA ForkIInv ==
  ASSUME IInv, NEW b \in BranchIds, Fork(b)
  PROVE  IInv'
<1> USE TreeKVAssumption
<1>0. /\ TypeOK /\ PagesAccounted /\ CoverageExact /\ LogicalExact
      /\ TreeLinked /\ Bookkeeping
  BY DEF IInv
<1>1. /\ b \in live /\ nextBranch \in BranchIds /\ nextBranch \notin live
      /\ nextBranch \in Nat /\ nextBranch # Root
  BY <1>0 DEF Fork, Bookkeeping, Root, BranchIds
<1>2. /\ Len(table[b]) <= PagesFor(MaxTokens) /\ numTokens[b] \in Nat
      /\ numTokens[b] <= MaxTokens
  <2>1. numTokens[b] \in Nat /\ numTokens[b] <= MaxTokens
    BY <1>0 DEF TypeOK, Bookkeeping
  <2>2. Len(table[b]) = PagesFor(numTokens[b])
    BY <1>1, <1>0 DEF CoverageExact, Covered
  <2> QED
    BY <2>1, <2>2, PagesForMono
<1>3. /\ live' = live \cup {nextBranch}
      /\ table' \in [BranchIds -> Seq(Pages)]
      /\ table'[nextBranch] = table[b]
      /\ \A c \in live : table'[c] = table[c]
  BY <1>0, <1>1 DEF Fork, TypeOK
<1>4. \A p \in Pages :
        /\ OccurrencesIn(table[b], p) \in Nat
        /\ refcount'[p] = refcount[p] + OccurrencesIn(table[b], p)
        /\ refcount'[p] = Cardinality(Occurrences(p))'
  <2> TAKE p \in Pages
  <2>1. refcount'[p] = refcount[p] + OccurrencesIn(table[b], p)
    BY DEF Fork, ForkRefcount
  <2>2. refcount[p] = Cardinality(OccOf(live, table, p))
    BY <1>0 DEF PagesAccounted, Occurrences, OccOf
  <2>3. OccOf(live, table', p) = OccOf(live, table, p)
    BY <1>3, OccSame
  <2>4. /\ Cardinality(OccOf(live', table', p)) =
             Cardinality(OccOf(live, table', p)) + OccurrencesIn(table'[nextBranch], p)
        /\ OccurrencesIn(table'[nextBranch], p) \in Nat
    <3>1. live \in SUBSET BranchIds /\ Len(table'[nextBranch]) <= PagesFor(MaxTokens)
      BY <1>0, <1>2, <1>3 DEF TypeOK
    <3>2. nextBranch \in BranchIds /\ nextBranch \notin live
          /\ table' \in [BranchIds -> Seq(Pages)]
      BY <1>1, <1>3
    <3>3. /\ Cardinality(OccOf(live \cup {nextBranch}, table', p)) =
               Cardinality(OccOf(live, table', p)) + OccurrencesIn(table'[nextBranch], p)
          /\ OccurrencesIn(table'[nextBranch], p) \in Nat
      BY <3>1, <3>2, OccSplit
    <3> QED
      BY <1>3, <3>3
  <2>5. Occurrences(p)' = OccOf(live', table', p)
    BY DEF Occurrences, OccOf
  <2> QED
    BY <1>3, <2>1, <2>2, <2>3, <2>4, <2>5
<1>5. TypeOK'
  <2>1. refcount' \in [Pages -> Nat]
    BY <1>0, <1>4 DEF Fork, ForkRefcount, TypeOK
  <2>2. logical' \in Nat
    BY <1>0, <1>2 DEF Fork, TypeOK
  <2>3. live' \in SUBSET BranchIds /\ parent' \in [BranchIds -> BranchIds]
        /\ children' \in [BranchIds -> SUBSET BranchIds] /\ nextBranch' \in Nat
    BY <1>0, <1>1 DEF Fork, TypeOK
  <2>4. numTokens' \in [BranchIds -> Nat]
    BY <1>0, <1>2 DEF Fork, TypeOK
  <2>5. page' \in [Pages -> Seq(Tokens)] /\ free' \in SUBSET Pages
    BY <1>0 DEF Fork, TypeOK
  <2> QED
    BY <1>3, <2>1, <2>2, <2>3, <2>4, <2>5 DEF TypeOK
<1>6. PagesAccounted'
  <2>1. free' = {p \in Pages : refcount'[p] = 0}
    <3>1. free' = free /\ free = {p \in Pages : refcount[p] = 0}
      BY <1>0 DEF Fork, PagesAccounted
    <3>2. ASSUME NEW p \in Pages
          PROVE  refcount'[p] = 0 <=> refcount[p] = 0
      <4>1. ASSUME refcount[p] = 0 PROVE OccurrencesIn(table[b], p) = 0
        <5>1. \A i \in DOMAIN table[b] : table[b][i] # p
          <6>1. \A i \in DOMAIN table[b] : refcount[table[b][i]] > 0
            BY <1>0, <1>1, InTableReferenced
          <6> QED
            BY <4>1, <6>1
        <5>2. {i \in DOMAIN table[b] : table[b][i] = p} = {}
          BY <5>1
        <5> QED
          BY <5>2, FS_EmptySet DEF OccurrencesIn
      <4>2. refcount[p] \in Nat /\ OccurrencesIn(table[b], p) \in Nat
            /\ refcount'[p] = refcount[p] + OccurrencesIn(table[b], p)
        BY <1>0, <1>4 DEF TypeOK
      <4> QED
        BY <4>1, <4>2
    <3> QED
      BY <3>1, <3>2
  <2> QED
    BY <1>4, <2>1 DEF PagesAccounted
<1>7. CoverageExact'
  <2> SUFFICES ASSUME NEW c \in live' PROVE Covered(c)'
    BY DEF CoverageExact
  <2> DEFINE d == IF c = nextBranch THEN b ELSE c
  <2>1. /\ d \in live /\ table'[c] = table[d] /\ numTokens'[c] = numTokens[d]
        /\ page' = page
    BY <1>0, <1>1, <1>3 DEF Fork, TypeOK
  <2>2. Covered(d)
    BY <1>0, <2>1 DEF CoverageExact
  <2>3. \A i \in DOMAIN table[d] : refcount'[table[d][i]] # 0
    <3> TAKE i \in DOMAIN table[d]
    <3>1. table[d][i] \in Pages /\ refcount[table[d][i]] > 0
      BY <1>0, <2>1, InTableReferenced
    <3>2. refcount[table[d][i]] \in Nat
      BY <1>0, <3>1 DEF TypeOK
    <3> HIDE DEF d
    <3> QED
      BY <3>1, <3>2, <1>4
  <2> HIDE DEF d
  <2> QED
    BY <2>1, <2>2, <2>3 DEF Covered
<1>8. LogicalExact'
  <2>1. logical = Cardinality(TokensOf(live, numTokens))
    BY <1>0 DEF LogicalExact, TokensOf
  <2>2. /\ numTokens'[nextBranch] = numTokens[b]
        /\ \A c \in live : numTokens'[c] = numTokens[c]
    BY <1>0, <1>1 DEF Fork, TypeOK
  <2>3. TokensOf(live, numTokens') = TokensOf(live, numTokens)
    BY <2>2, TokensSame
  <2>4. Cardinality(TokensOf(live', numTokens')) =
          Cardinality(TokensOf(live, numTokens')) + numTokens[b]
    <3>1. live \in SUBSET BranchIds
      BY <1>0 DEF TypeOK
    <3>2. numTokens'[nextBranch] \in Nat /\ numTokens'[nextBranch] <= MaxTokens
      BY <1>2, <2>2
    <3>3. Cardinality(TokensOf(live \cup {nextBranch}, numTokens')) =
            Cardinality(TokensOf(live, numTokens')) + numTokens'[nextBranch]
      BY <1>1, <3>1, <3>2, TokensSplit
    <3> QED
      BY <1>3, <2>2, <3>3
  <2>5. logical' = Cardinality(TokensOf(live', numTokens'))
    BY <2>1, <2>3, <2>4 DEF Fork
  <2> QED
    BY <2>5 DEF LogicalExact, TokensOf
<1>9. TreeLinked'
  <2>1. /\ parent' = [parent EXCEPT ![nextBranch] = b]
        /\ children' = [children EXCEPT ![b] = @ \cup {nextBranch}]
        /\ live' = live \cup {nextBranch}
    BY DEF Fork
  <2>2. /\ parent \in [BranchIds -> BranchIds]
        /\ children \in [BranchIds -> SUBSET BranchIds]
        /\ live \subseteq BranchIds
    BY <1>0 DEF TypeOK
  <2>3. /\ children[nextBranch] = {} /\ parent[Root] = Root
        /\ \A c \in live : c # Root => parent[c] \in live
    BY <1>0, <1>1 DEF Bookkeeping, TreeLinked
  <2>4. \A c \in live : parent[c] # nextBranch
    BY <1>1, <2>3
  <2>5. ASSUME NEW c \in live'
        PROVE  c # Root => parent'[c] \in live' /\ c \in children'[parent'[c]]
    BY <1>0, <1>1, <2>1, <2>2, <2>5 DEF TreeLinked
  <2>6. ASSUME NEW c \in live'
        PROVE  children'[c] = {e \in live' \ {c} : parent'[e] = c}
    <3>1. CASE c = nextBranch
      BY <1>1, <2>1, <2>2, <2>3, <2>4, <3>1
    <3>2. CASE c # nextBranch
      <4>1. children[c] = {e \in live \ {c} : parent[e] = c}
        BY <1>0, <2>1, <3>2 DEF TreeLinked
      <4> QED
        BY <1>1, <2>1, <2>2, <3>2, <4>1
    <3> QED
      BY <3>1, <3>2
  <2> QED
    BY <2>5, <2>6 DEF TreeLinked
<1>10. Bookkeeping'
  <2>1. \A c \in BranchIds \ live' :
          children'[c] = {} /\ table'[c] = <<>> /\ numTokens'[c] = 0
    <3> SUFFICES ASSUME NEW c \in BranchIds, c \notin live'
                 PROVE  children'[c] = {} /\ table'[c] = <<>> /\ numTokens'[c] = 0
      OBVIOUS
    <3>1. /\ c # b /\ c # nextBranch /\ c \notin live
          /\ children[c] = {} /\ table[c] = <<>> /\ numTokens[c] = 0
      BY <1>0, <1>1, <1>3 DEF Bookkeeping
    <3> QED
      BY <1>0, <3>1 DEF Fork, TypeOK
  <2>2. \A c \in live' : c < nextBranch'
    BY <1>0, <1>1, <1>3 DEF Fork, Bookkeeping, TypeOK, BranchIds
  <2>3. \A c \in BranchIds : numTokens'[c] <= MaxTokens
    BY <1>0, <1>2 DEF Fork, Bookkeeping, TypeOK
  <2>4. nextBranch' >= 1 /\ (\A p \in free' : page'[p] = <<>>)
    BY <1>0, <1>1 DEF Fork, Bookkeeping
  <2>5. parent'[Root] = Root
    BY <1>0, <1>1 DEF Fork, Bookkeeping, TypeOK, Root, BranchIds
  <2> QED
    BY <2>1, <2>2, <2>3, <2>4, <2>5 DEF Bookkeeping
<1> QED
  BY <1>5, <1>6, <1>7, <1>8, <1>9, <1>10 DEF IInv

\* A prune gives back the leaf's references; the pages it held alone return
\* to the free heap empty.
LEMMA PruneIInv ==
  ASSUME IInv, NEW b \in BranchIds, Prune(b)
  PROVE  IInv'
<1> USE TreeKVAssumption
<1> DEFINE Rest == live \ {b}
<1>0. /\ TypeOK /\ PagesAccounted /\ CoverageExact /\ LogicalExact
      /\ TreeLinked /\ Bookkeeping
  BY DEF IInv
<1>1. /\ b \in live /\ live' = Rest /\ b \notin Rest /\ live = Rest \cup {b}
      /\ Rest \in SUBSET BranchIds /\ Rest \subseteq live
  BY <1>0 DEF Prune, TypeOK
<1> HIDE DEF Rest
<1>2. /\ Len(table[b]) <= PagesFor(MaxTokens) /\ numTokens[b] \in Nat
      /\ numTokens[b] <= MaxTokens
  <2>1. numTokens[b] \in Nat /\ numTokens[b] <= MaxTokens
    BY <1>0 DEF TypeOK, Bookkeeping
  <2>2. Len(table[b]) = PagesFor(numTokens[b])
    BY <1>1, <1>0 DEF CoverageExact, Covered
  <2> QED
    BY <2>1, <2>2, PagesForMono
<1>3. /\ table' \in [BranchIds -> Seq(Pages)]
      /\ \A c \in Rest : table'[c] = table[c] /\ numTokens'[c] = numTokens[c]
  BY <1>0, <1>1 DEF Prune, TypeOK
<1>4. \A p \in Pages :
        /\ refcount'[p] = refcount[p] - OccurrencesIn(table[b], p)
        /\ OccurrencesIn(table[b], p) \in Nat
        /\ refcount'[p] = Cardinality(OccOf(Rest, table, p))
        /\ refcount'[p] \in Nat
  <2> TAKE p \in Pages
  <2>1. refcount'[p] = refcount[p] - OccurrencesIn(table[b], p)
    BY DEF Prune, PruneRefcount
  <2>2. refcount[p] = Cardinality(OccOf(live, table, p))
    BY <1>0 DEF PagesAccounted, Occurrences, OccOf
  <2>3. /\ Cardinality(OccOf(Rest \cup {b}, table, p)) =
             Cardinality(OccOf(Rest, table, p)) + OccurrencesIn(table[b], p)
        /\ Cardinality(OccOf(Rest, table, p)) \in Nat
        /\ OccurrencesIn(table[b], p) \in Nat
    <3>1. table \in [BranchIds -> Seq(Pages)]
      BY <1>0 DEF TypeOK
    <3> QED
      BY <1>1, <1>2, <3>1, OccSplit
  <2>4. Cardinality(OccOf(Rest \cup {b}, table, p)) = Cardinality(OccOf(live, table, p))
    BY <1>1
  <2> QED
    BY <2>1, <2>2, <2>3, <2>4
<1>5. \A p \in Pages : refcount'[p] = Cardinality(Occurrences(p))'
  <2> TAKE p \in Pages
  <2>1. OccOf(Rest, table', p) = OccOf(Rest, table, p)
    BY <1>3, OccSame
  <2>2. Occurrences(p)' = OccOf(live', table', p)
    BY DEF Occurrences, OccOf
  <2> QED
    BY <1>1, <1>4, <2>1, <2>2
<1>6. \A p \in Pages :
        /\ p \in Released(b) <=> p \notin free /\ refcount'[p] = 0
        /\ p \in free => refcount'[p] = 0
        /\ p \in Released(b) => page'[p] = <<>>
        /\ p \notin Released(b) => page'[p] = page[p]
  <2> TAKE p \in Pages
  <2>1. PruneRefcount(b)[p] = refcount'[p]
    BY DEF Prune
  <2>2. refcount[p] \in Nat /\ (p \in free <=> refcount[p] = 0)
    BY <1>0 DEF TypeOK, PagesAccounted
  <2>3. p \in Released(b) <=> OccurrencesIn(table[b], p) # 0 /\ refcount'[p] = 0
    BY <2>1 DEF Released
  <2>4. /\ p \in Released(b) => page'[p] = <<>>
        /\ p \notin Released(b) => page'[p] = page[p]
    BY DEF Prune
  <2> QED
    BY <1>4, <2>2, <2>3, <2>4
<1>7. TypeOK'
  <2>1. refcount' \in [Pages -> Nat]
    BY <1>4 DEF Prune, PruneRefcount
  <2>2. logical' \in Nat
    <3>1. logical = Cardinality(TokensOf(Rest \cup {b}, numTokens))
      BY <1>0, <1>1 DEF LogicalExact, TokensOf
    <3>2. /\ Cardinality(TokensOf(Rest \cup {b}, numTokens)) =
               Cardinality(TokensOf(Rest, numTokens)) + numTokens[b]
          /\ Cardinality(TokensOf(Rest, numTokens)) \in Nat
      BY <1>1, <1>2, TokensSplit
    <3>3. logical' = logical - numTokens[b]
      BY DEF Prune
    <3> QED
      BY <1>2, <3>1, <3>2, <3>3
  <2>3. live' \in SUBSET BranchIds /\ parent' \in [BranchIds -> BranchIds]
        /\ nextBranch' \in Nat
    BY <1>0, <1>1 DEF Prune, TypeOK
  <2>4. children' \in [BranchIds -> SUBSET BranchIds]
    BY <1>0 DEF Prune, Unlinked, TypeOK
  <2>5. numTokens' \in [BranchIds -> Nat]
    BY <1>0 DEF Prune, TypeOK
  <2>6. free' \in SUBSET Pages
    BY <1>0 DEF Prune, Released, TypeOK
  <2>7. page' \in [Pages -> Seq(Tokens)]
    BY <1>0 DEF Prune, TypeOK
  <2> QED
    BY <1>3, <2>1, <2>2, <2>3, <2>4, <2>5, <2>6, <2>7 DEF TypeOK
<1>8. PagesAccounted'
  <2>1. free' = free \cup Released(b) /\ free \subseteq Pages
        /\ Released(b) \subseteq Pages
    BY <1>0 DEF Prune, TypeOK, Released
  <2>2. free' = {p \in Pages : refcount'[p] = 0}
    BY <1>6, <2>1
  <2> QED
    BY <1>5, <2>2 DEF PagesAccounted
<1>9. CoverageExact'
  <2> SUFFICES ASSUME NEW c \in live' PROVE Covered(c)'
    BY DEF CoverageExact
  <2>1. /\ c \in live /\ table'[c] = table[c] /\ numTokens'[c] = numTokens[c]
        /\ Covered(c)
    BY <1>0, <1>1, <1>3 DEF CoverageExact
  <2>2. \A i \in DOMAIN table[c] :
          refcount'[table[c][i]] # 0 /\ page'[table[c][i]] = page[table[c][i]]
    <3> TAKE i \in DOMAIN table[c]
    <3> DEFINE p == table[c][i]
    <3>1. p \in Pages /\ <<c, i>> \in Occurrences(p) /\ p \notin free
      BY <1>0, <2>1, InTableReferenced
    <3>2. <<c, i>> \in OccOf(Rest, table, p)
      BY <3>1, <1>1 DEF Occurrences, OccOf
    <3>3. IsFiniteSet(OccOf(Rest, table, p))
      BY <1>1, OccFinite
    <3>4. Cardinality(OccOf(Rest, table, p)) # 0
      BY <3>2, <3>3, FS_EmptySet
    <3> HIDE DEF p
    <3>5. refcount'[p] # 0
      BY <1>4, <3>1, <3>4
    <3>6. page'[p] = page[p]
      BY <1>6, <3>1, <3>5
    <3> QED
      BY <3>5, <3>6 DEF p
  <2> QED
    BY <2>1, <2>2 DEF Covered
<1>10. LogicalExact'
  <2>1. logical = Cardinality(TokensOf(Rest \cup {b}, numTokens))
    BY <1>0, <1>1 DEF LogicalExact, TokensOf
  <2>2. /\ Cardinality(TokensOf(Rest \cup {b}, numTokens)) =
             Cardinality(TokensOf(Rest, numTokens)) + numTokens[b]
        /\ Cardinality(TokensOf(Rest, numTokens)) \in Nat
    BY <1>1, <1>2, TokensSplit
  <2>3. TokensOf(Rest, numTokens') = TokensOf(Rest, numTokens)
    BY <1>3, TokensSame
  <2>4. logical' = Cardinality(TokensOf(live', numTokens'))
    <3>1. logical' = logical - numTokens[b]
      BY DEF Prune
    <3>2. logical' = Cardinality(TokensOf(Rest, numTokens))
      BY <1>2, <2>1, <2>2, <3>1
    <3> QED
      BY <1>1, <2>3, <3>2
  <2> QED
    BY <2>4 DEF LogicalExact, TokensOf
<1>11. TreeLinked'
  <2>1. /\ parent' = [parent EXCEPT ![b] = b]
        /\ children' = [children EXCEPT ![b] = {}, ![parent[b]] = @ \ {b}]
        /\ children[b] = {}
    BY DEF Prune, Unlinked
  <2>2. /\ parent \in [BranchIds -> BranchIds]
        /\ children \in [BranchIds -> SUBSET BranchIds]
        /\ \A c \in Rest : c \in BranchIds /\ c # b
    BY <1>0, <1>1 DEF TypeOK
  <2>3. \A c \in Rest : parent[c] # b
    BY <1>0, <1>1, <2>1 DEF TreeLinked
  <2>4. \A c \in Rest : /\ parent'[c] = parent[c]
                        /\ children'[c] = children[c] \ {b}
    <3> TAKE c \in Rest
    <3>1. parent[b] # c => b \notin children[c]
      BY <1>0, <1>1 DEF TreeLinked
    <3>2. children'[c] = IF c = parent[b] THEN children[c] \ {b} ELSE children[c]
      BY <2>1, <2>2
    <3> QED
      BY <2>1, <2>2, <3>1, <3>2
  <2>5. ASSUME NEW c \in Rest, c # Root
        PROVE  parent'[c] \in Rest /\ c \in children'[parent'[c]]
    <3>1. parent[c] \in live /\ c \in children[parent[c]]
      BY <1>0, <1>1, <2>5 DEF TreeLinked
    <3>2. parent[c] \in Rest
      BY <1>1, <2>3, <3>1
    <3> QED
      BY <2>2, <2>4, <3>1, <3>2
  <2>6. ASSUME NEW c \in Rest
        PROVE  children'[c] = {e \in Rest \ {c} : parent'[e] = c}
    <3>1. children[c] = {e \in live \ {c} : parent[e] = c}
      BY <1>0, <1>1 DEF TreeLinked
    <3>2. children'[c] = {e \in live \ {c} : parent[e] = c} \ {b}
      BY <2>4, <3>1
    <3> QED
      BY <1>1, <2>2, <2>4, <3>2
  <2> QED
    BY <1>1, <2>5, <2>6 DEF TreeLinked
<1>12. Bookkeeping'
  <2>1. \A p \in free' : page'[p] = <<>>
    <3>1. free' = free \cup Released(b) /\ free \subseteq Pages
          /\ Released(b) \subseteq Pages
      BY <1>0 DEF Prune, TypeOK, Released
    <3>2. \A p \in free : page[p] = <<>>
      BY <1>0 DEF Bookkeeping
    <3> QED
      BY <1>6, <3>1, <3>2
  <2>2. nextBranch' = nextBranch /\ nextBranch >= 1
        /\ \A c \in live' : c < nextBranch'
    BY <1>0, <1>1 DEF Prune, Bookkeeping
  <2>3. parent'[Root] = Root
    <3>1. parent' = [parent EXCEPT ![b] = b]
      BY DEF Prune
    <3>2. parent \in [BranchIds -> BranchIds] /\ parent[Root] = Root
      BY <1>0 DEF TypeOK, Bookkeeping
    <3>3. Root \in BranchIds
      BY DEF Root, BranchIds
    <3> QED
      BY <3>1, <3>2, <3>3
  <2>4. \A c \in BranchIds \ live' : children'[c] = {}
    <3>1. /\ children' = [children EXCEPT ![b] = {}, ![parent[b]] = @ \ {b}]
          /\ children \in [BranchIds -> SUBSET BranchIds]
      BY <1>0 DEF Prune, Unlinked, TypeOK
    <3>2. \A c \in BranchIds \ live : children[c] = {}
      BY <1>0 DEF Bookkeeping
    <3> QED
      BY <1>1, <3>1, <3>2
  <2>5. \A c \in BranchIds : numTokens'[c] <= MaxTokens
    <3>1. numTokens' = [numTokens EXCEPT ![b] = 0]
      BY DEF Prune
    <3>2. numTokens \in [BranchIds -> Nat]
          /\ \A c \in BranchIds : numTokens[c] <= MaxTokens
      BY <1>0 DEF TypeOK, Bookkeeping
    <3> QED
      BY <3>1, <3>2
  <2>6. \A c \in BranchIds \ live' : table'[c] = <<>> /\ numTokens'[c] = 0
    <3>1. /\ table' = [table EXCEPT ![b] = <<>>]
          /\ numTokens' = [numTokens EXCEPT ![b] = 0]
          /\ table \in [BranchIds -> Seq(Pages)] /\ numTokens \in [BranchIds -> Nat]
      BY <1>0 DEF Prune, TypeOK
    <3>2. \A c \in BranchIds \ live : table[c] = <<>> /\ numTokens[c] = 0
      BY <1>0 DEF Bookkeeping
    <3> QED
      BY <1>1, <3>1, <3>2
  <2> QED
    BY <2>1, <2>2, <2>3, <2>4, <2>5, <2>6 DEF Bookkeeping
<1> QED
  BY <1>7, <1>8, <1>9, <1>10, <1>11, <1>12 DEF IInv

-----------------------------------------------------------------------------
\* The canonical page of a page in use is in use, holds the same bytes and is
\* its own canonical page; equal full pages have the same one.
LEMMA CanonicalLaw ==
  ASSUME NEW p \in InUse
  PROVE  /\ Canonical(p) \in InUse
         /\ page[Canonical(p)] = page[p]
         /\ Canonical(Canonical(p)) = Canonical(p)
         /\ \A q \in InUse : Full(p) /\ page[q] = page[p] =>
              Canonical(q) = Canonical(p)
<1> DEFINE Same == {q \in InUse : page[q] = page[p]}
<1>1. CASE ~Full(p)
  BY <1>1 DEF Canonical
<1>2. CASE Full(p)
  <2>1. Same \in SUBSET Nat /\ p \in Same
    BY TreeKVAssumption DEF InUse, Pages
  <2>2. \E x \in Same : \A y \in Same : x <= y
    <3> HIDE DEF Same
    <3> QED
      BY <2>1, MinExists
  <2>3. Min(Same) \in Same
    <3> HIDE DEF Same
    <3> QED
      BY <2>2 DEF Min
  <2>4. \A q \in InUse : page[q] = page[p] => Canonical(q) = Min(Same)
    <3> SUFFICES ASSUME NEW q \in InUse, page[q] = page[p]
                 PROVE  Canonical(q) = Min(Same)
      OBVIOUS
    <3>1. {r \in InUse : page[r] = page[q]} = Same /\ Full(q)
      BY <1>2 DEF Full
    <3> QED
      BY <3>1 DEF Canonical
  <2> QED
    BY <2>3, <2>4
<1> QED
  BY <1>1, <1>2

\* A scan that redirects to the canonical pages: how the reference counts and
\* the occurrences change, page by page.
LEMMA DedupCounts ==
  ASSUME IInv, DedupScan
  PROVE  /\ \A p \in Pages :
              /\ refcount'[p] = Cardinality(Occurrences(p))'
              /\ refcount'[p] \in Nat
              /\ p \in Redirected => refcount'[p] = 0
              /\ p \in InUse \ Redirected => refcount'[p] # 0
              /\ p \notin InUse => refcount'[p] = 0
         /\ Recycled = Redirected
<1> USE TreeKVAssumption
<1>0. TypeOK /\ PagesAccounted /\ CoverageExact /\ Bookkeeping
  BY DEF IInv
<1>1. /\ live' = live /\ live \in SUBSET BranchIds
      /\ \A b \in BranchIds : /\ DOMAIN table'[b] = DOMAIN table[b]
                              /\ \A i \in DOMAIN table[b] :
                                   table'[b][i] = Canonical(table[b][i])
  BY <1>0 DEF DedupScan, TypeOK
<1>2. \A q \in Pages : /\ Occurrences(q) = OccOf(live, table, q)
                       /\ Occurrences(q)' = OccOf(live, table', q)
                       /\ IsFiniteSet(Occurrences(q))
                       /\ IsFiniteSet(Occurrences(q)')
                       /\ refcount[q] = Cardinality(Occurrences(q))
  <2> TAKE q \in Pages
  <2>1. /\ Occurrences(q) = OccOf(live, table, q)
        /\ Occurrences(q)' = OccOf(live, table', q)
    BY <1>1 DEF Occurrences, OccOf
  <2>2. IsFiniteSet(OccOf(live, table, q)) /\ IsFiniteSet(OccOf(live, table', q))
    BY <1>1, OccFinite
  <2> QED
    BY <1>0, <2>1, <2>2 DEF PagesAccounted
<1>3. \A x \in live \X TableIndex : x[2] \in DOMAIN table[x[1]] =>
        /\ table[x[1]][x[2]] \in InUse
        /\ x \in Occurrences(table[x[1]][x[2]])
  <2> SUFFICES ASSUME NEW b \in live, NEW i \in DOMAIN table[b]
               PROVE  /\ table[b][i] \in InUse
                      /\ <<b, i>> \in Occurrences(table[b][i])
    OBVIOUS
  <2> QED
    BY <1>0, InTableReferenced DEF InUse
<1>4. ASSUME NEW p \in Redirected
      PROVE  refcount'[p] = 0 /\ Occurrences(p)' = {} /\ DedupRefcount[p] = 0
  <2>1. p \in InUse /\ p \in Pages /\ Canonical(p) # p
    BY DEF Redirected, InUse
  <2>2. \A q \in InUse : Canonical(q) # p
    BY <2>1, CanonicalLaw
  <2>3. Occurrences(p)' = {}
    BY <1>1, <1>2, <1>3, <2>1, <2>2 DEF OccOf
  <2>4. refcount[p] = Cardinality(Occurrences(p)) /\ Cardinality(Occurrences(p)) \in Nat
    BY <1>2, <2>1, FS_CardinalityType
  <2>5. DedupRefcount[p] = refcount[p] - Cardinality(Occurrences(p))
    BY <2>1 DEF DedupRefcount
  <2> QED
    BY <2>3, <2>4, <2>5 DEF DedupScan
<1>5. ASSUME NEW p \in Pages, p \notin Redirected
      PROVE  refcount'[p] = Cardinality(Occurrences(p)')
  <2> DEFINE Moved == UNION {Occurrences(d) : d \in {q \in Redirected : Canonical(q) = p}}
  <2>1. refcount'[p] = refcount[p] + Cardinality(Moved)
    BY <1>5 DEF DedupScan, DedupRefcount
  <2>2. Occurrences(p)' = Occurrences(p) \cup Moved
    <3>1. ASSUME NEW x \in Occurrences(p)'
          PROVE  x \in Occurrences(p) \cup Moved
      <4> DEFINE q == table[x[1]][x[2]]
      <4>1. /\ x \in live \X TableIndex /\ x[2] \in DOMAIN table[x[1]]
            /\ Canonical(q) = p
        BY <1>1, <1>2 DEF OccOf
      <4>2. q \in InUse /\ x \in Occurrences(q)
        BY <1>3, <4>1
      <4> HIDE DEF q
      <4> QED
        BY <4>1, <4>2 DEF Redirected
    <3>2. ASSUME NEW x \in Occurrences(p)
          PROVE  x \in Occurrences(p)'
      <4>1. p \in InUse
        BY <3>2 DEF InUse
      <4>2. Canonical(p) = p
        BY <1>5, <4>1 DEF Redirected
      <4> QED
        BY <1>1, <1>2, <4>2 DEF OccOf
    <3>3. ASSUME NEW d \in Redirected, Canonical(d) = p, NEW x \in Occurrences(d)
          PROVE  x \in Occurrences(p)'
      <4>1. d \in Pages
        BY DEF Redirected, InUse
      <4> QED
        BY <1>1, <1>2, <3>3, <4>1 DEF OccOf
    <3> QED
      BY <3>1, <3>2, <3>3
  <2>3. Occurrences(p) \cap Moved = {}
    BY <1>5 DEF Occurrences
  <2>4. IsFiniteSet(Moved) /\ IsFiniteSet(Occurrences(p))
    <3> HIDE DEF Moved
    <3>1. IsFiniteSet(Occurrences(p)') /\ Moved \in SUBSET (Occurrences(p)')
      BY <1>2, <2>2
    <3> QED
      BY <1>2, <3>1, FS_Subset
  <2> HIDE DEF Moved
  <2> QED
    BY <1>2, <2>1, <2>2, <2>3, <2>4, DisjointCardinality
<1>6. \A p \in Pages : refcount'[p] = Cardinality(Occurrences(p)')
                       /\ refcount'[p] \in Nat
  <2> TAKE p \in Pages
  <2>1. refcount'[p] = Cardinality(Occurrences(p)')
    BY <1>4, <1>5, FS_EmptySet
  <2> QED
    BY <1>2, <2>1, FS_CardinalityType
<1>7. ASSUME NEW p \in InUse \ Redirected
      PROVE  refcount'[p] # 0
  <2>1. p \in Pages /\ Canonical(p) = p /\ Occurrences(p) # {}
    BY DEF InUse, Redirected
  <2>2. Occurrences(p) \subseteq Occurrences(p)'
    BY <1>1, <1>2, <2>1 DEF OccOf
  <2>3. Cardinality(Occurrences(p)') # 0
    BY <1>2, <2>1, <2>2, FS_EmptySet
  <2> QED
    BY <1>6, <2>1, <2>3
<1>8. ASSUME NEW p \in Pages, p \notin InUse
      PROVE  refcount'[p] = 0
  <2>1. \A q \in InUse : Canonical(q) # p
    BY <1>8, CanonicalLaw
  <2>2. Occurrences(p)' = {}
    BY <1>1, <1>2, <1>3, <2>1 DEF OccOf
  <2> QED
    BY <1>6, <2>2, FS_EmptySet
<1>9. Recycled = Redirected
  BY <1>4 DEF Recycled
<1> QED
  BY <1>4, <1>6, <1>7, <1>8, <1>9

\* A dedup scan redirects every duplicate to its canonical page, moves the
\* references with it and recycles the duplicates.
LEMMA DedupIInv ==
  ASSUME IInv, DedupScan
  PROVE  IInv'
<1> USE TreeKVAssumption
<1>0. /\ TypeOK /\ PagesAccounted /\ CoverageExact /\ LogicalExact
      /\ TreeLinked /\ Bookkeeping
  BY DEF IInv
<1>1. /\ UNCHANGED <<logical, live, parent, children, numTokens, nextBranch>>
      /\ free' = free \cup Redirected
      /\ page' = [p \in Pages |-> IF p \in Redirected THEN <<>> ELSE page[p]]
  BY DedupCounts DEF DedupScan
<1>2. Redirected \subseteq InUse /\ InUse \subseteq Pages
  BY DEF Redirected, InUse
<1>3. \A p \in Pages : p \in free <=> p \notin InUse
  <2> TAKE p \in Pages
  <2>1. refcount[p] = Cardinality(Occurrences(p)) /\ IsFiniteSet(Occurrences(p))
    <3>1. Occurrences(p) = OccOf(live, table, p)
      BY DEF Occurrences, OccOf
    <3> QED
      BY <1>0, <3>1, OccFinite DEF PagesAccounted, TypeOK
  <2>2. Occurrences(p) = {} <=> refcount[p] = 0
    BY <2>1, FS_EmptySet
  <2> QED
    BY <1>0, <2>2 DEF PagesAccounted, InUse
<1>4. \A b \in BranchIds :
        /\ Len(table'[b]) = Len(table[b])
        /\ DOMAIN table'[b] = DOMAIN table[b]
        /\ \A i \in DOMAIN table[b] : table'[b][i] = Canonical(table[b][i])
  BY <1>0 DEF DedupScan, TypeOK
<1>5. \A b \in live : \A i \in DOMAIN table[b] : table[b][i] \in InUse
  BY <1>0, InTableReferenced DEF InUse
<1>6. TypeOK'
  <2>1. refcount' \in [Pages -> Nat]
    BY DedupCounts DEF DedupScan, DedupRefcount
  <2>2. page' \in [Pages -> Seq(Tokens)] /\ free' \in SUBSET Pages
    BY <1>0, <1>1, <1>2 DEF TypeOK
  <2>3. table' \in [BranchIds -> Seq(Pages)]
    <3> SUFFICES ASSUME NEW b \in BranchIds
                 PROVE  [i \in 1 .. Len(table[b]) |-> Canonical(table[b][i])] \in Seq(Pages)
      BY DEF DedupScan
    <3>1. table[b] \in Seq(Pages)
      BY <1>0 DEF TypeOK
    <3>2. \A i \in 1 .. Len(table[b]) : Canonical(table[b][i]) \in Pages
      <4>1. CASE b \in live
        BY <1>2, <1>5, <3>1, <4>1, CanonicalLaw
      <4>2. CASE b \notin live
        BY <1>0, <4>2 DEF Bookkeeping
      <4> QED
        BY <4>1, <4>2
    <3> QED
      BY <3>1, <3>2
  <2> QED
    BY <1>0, <1>1, <2>1, <2>2, <2>3 DEF TypeOK
<1>7. PagesAccounted'
  <2>1. free' = {p \in Pages : refcount'[p] = 0}
    <3>1. \A p \in Pages : p \in free' <=> refcount'[p] = 0
      BY <1>1, <1>2, <1>3, DedupCounts
    <3>2. free' \subseteq Pages
      BY <1>6 DEF TypeOK
    <3> QED
      BY <3>1, <3>2
  <2> QED
    BY <2>1, DedupCounts DEF PagesAccounted
<1>8. CoverageExact'
  <2> SUFFICES ASSUME NEW b \in live PROVE Covered(b)'
    BY <1>1 DEF CoverageExact
  <2>1. Covered(b) /\ b \in BranchIds
    BY <1>0 DEF CoverageExact, TypeOK
  <2>2. ASSUME NEW i \in DOMAIN table[b]
        PROVE  /\ refcount'[table'[b][i]] # 0
               /\ page'[table'[b][i]] = page[table[b][i]]
    <3> DEFINE q == table[b][i]
    <3>1. q \in InUse /\ table'[b][i] = Canonical(q)
      BY <1>4, <1>5, <2>1
    <3> HIDE DEF q
    <3>2. /\ Canonical(q) \in InUse \ Redirected
          /\ page[Canonical(q)] = page[q]
      BY <3>1, CanonicalLaw DEF Redirected
    <3>3. Canonical(q) \in Pages
      BY <1>2, <3>2
    <3>4. page'[Canonical(q)] = page[Canonical(q)]
      BY <1>1, <3>2, <3>3
    <3>5. refcount'[Canonical(q)] # 0
      BY <3>2, <3>3, DedupCounts
    <3> QED
      BY <3>1, <3>2, <3>4, <3>5 DEF q
  <2> QED
    BY <1>1, <1>4, <2>1, <2>2 DEF Covered
<1>9. LogicalExact' /\ TreeLinked'
  BY <1>0, <1>1 DEF LogicalExact, TreeLinked
<1>10. Bookkeeping'
  <2>1. \A p \in free' : page'[p] = <<>>
    BY <1>0, <1>1, <1>2 DEF Bookkeeping, TypeOK
  <2>2. \A c \in BranchIds \ live' :
          children'[c] = {} /\ table'[c] = <<>> /\ numTokens'[c] = 0
    <3> SUFFICES ASSUME NEW c \in BranchIds \ live
                 PROVE  children'[c] = {} /\ table'[c] = <<>> /\ numTokens'[c] = 0
      BY <1>1
    <3>1. children[c] = {} /\ table[c] = <<>> /\ numTokens[c] = 0
      BY <1>0 DEF Bookkeeping
    <3>2. table'[c] \in Seq(Pages) /\ Len(table'[c]) = Len(table[c])
      BY <1>4, <1>6 DEF TypeOK
    <3> QED
      BY <1>1, <3>1, <3>2
  <2> QED
    BY <1>0, <1>1, <2>1, <2>2 DEF Bookkeeping
<1> QED
  BY <1>6, <1>7, <1>8, <1>9, <1>10 DEF IInv

-----------------------------------------------------------------------------
\* An append whose capacity check passed writes all its tokens: the step with
\* the number of tokens written, and the pages taken, filled in.
AppendWith(b, tokens, fresh) ==
  /\ b \in live
  /\ Len(tokens) > 0
  /\ numTokens[b] + Len(tokens) <= MaxTokens
  /\ Covered(b)
  /\ fresh \in LowestFree(PagesTaken(b, Len(tokens)))
  /\ WriteTokens(b, tokens, Len(tokens), fresh)
  /\ UNCHANGED <<live, parent, children, nextBranch>>

\* The capacity check demands the pages the write loop takes, so no append
\* that starts runs out of pages half way.
LEMMA WrittenAll ==
  ASSUME NEW b, NEW n \in Nat \ {0}, RequiredPages(b, n) <= Cardinality(free)
  PROVE  Written(b, n) = n
<1> DEFINE S == {0} \cup {m \in 1 .. n : PagesTaken(b, m) <= Cardinality(free)}
<1>1. n \in S
  BY DEF RequiredPages, PagesTaken
<1>2. \A y \in S : y \in Nat /\ n >= y
  OBVIOUS
<1> HIDE DEF S
<1>3. Max(S) \in S /\ \A y \in S : Max(S) >= y
  BY <1>1, <1>2 DEF Max
<1>4. Max(S) = n
  <2> DEFINE m == Max(S)
  <2>1. m \in S /\ m >= n
    BY <1>1, <1>3
  <2> HIDE DEF m
  <2>2. m = n
    BY <1>2, <2>1
  <2> QED
    BY <2>2 DEF m
<1> QED
  BY <1>4 DEF Written, S

\* An accepted append writes all its tokens, with as many fresh pages as the
\* capacity check asked for.
LEMMA AppendWrites ==
  ASSUME NEW b \in BranchIds, NEW tokens \in Appends, AppendTokens(b, tokens)
  PROVE  tokens \in Seq(Tokens) /\ \E fresh : AppendWith(b, tokens, fresh)
<1>1. tokens \in Seq(Tokens)
  BY TreeKVAssumption DEF Appends
<1>2. Len(tokens) \in Nat \ {0} /\ RequiredPages(b, Len(tokens)) <= Cardinality(free)
  BY <1>1 DEF AppendTokens
<1>3. Written(b, Len(tokens)) = Len(tokens)
  BY <1>2, WrittenAll
<1>4. PICK fresh \in LowestFree(PagesTaken(b, Len(tokens))) :
        WriteTokens(b, tokens, Len(tokens), fresh)
  BY <1>3 DEF AppendTokens
<1>5. AppendWith(b, tokens, fresh)
  BY <1>4 DEF AppendTokens, AppendWith
<1> QED
  BY <1>1, <1>5

\* Two places that point at a page make its reference count at least two.
LEMMA TwoOccurrences ==
  ASSUME TypeOK, PagesAccounted, NEW p \in Pages,
         NEW x \in Occurrences(p), NEW y \in Occurrences(p), x # y
  PROVE  refcount[p] >= 2
<1>1. IsFiniteSet(Occurrences(p)) /\ refcount[p] = Cardinality(Occurrences(p))
  <2>1. Occurrences(p) = OccOf(live, table, p)
    BY DEF Occurrences, OccOf
  <2> QED
    BY <2>1, OccFinite DEF PagesAccounted, TypeOK
<1>2. IsFiniteSet({x}) /\ Cardinality({x}) = 1
  BY FS_Singleton
<1>3. Cardinality({x} \cup {y}) = 2
  BY <1>2, FS_AddElement
<1>4. {x} \cup {y} \in SUBSET Occurrences(p)
  OBVIOUS
<1>5. Cardinality({x} \cup {y}) <= Cardinality(Occurrences(p))
  BY <1>1, <1>4, FS_Subset
<1> QED
  BY <1>1, <1>3, <1>5

\* Entry i of the grown table is a page the append takes.
IsNew(b, i) == i > Len(table[b]) \/ (i = Len(table[b]) /\ NeedsCopy(b))

\* The sizes before and after an append, and where its pages come from.
LEMMA AppendSizes ==
  ASSUME IInv, NEW b \in BranchIds, NEW tokens \in Seq(Tokens), NEW fresh,
         AppendWith(b, tokens, fresh)
  PROVE  LET L == Len(table[b])
             N == numTokens[b] + Len(tokens)
             K == PagesFor(N)
         IN
         /\ numTokens[b] \in Nat /\ Len(tokens) \in Nat \ {0}
         /\ N \in Nat /\ N <= MaxTokens
         /\ table[b] \in Seq(Pages) /\ L \in Nat /\ K \in Nat
         /\ L = PagesFor(numTokens[b])
         /\ L <= K /\ K <= PagesFor(MaxTokens)
         /\ NeedsCopy(b) => 1 <= L
         /\ PagesTaken(b, Len(tokens)) = K - L + Copies(b)
         /\ PagesTaken(b, Len(tokens)) \in Nat
         /\ fresh \in [1 .. K - L + Copies(b) -> free]
         /\ \A i, j \in 1 .. K - L + Copies(b) : i # j => fresh[i] # fresh[j]
<1> USE TreeKVAssumption
<1> DEFINE L == Len(table[b])
           N == numTokens[b] + Len(tokens)
           K == PagesFor(N)
<1>0. TypeOK
  BY DEF IInv
<1>1. /\ numTokens[b] \in Nat /\ Len(tokens) \in Nat \ {0}
      /\ N \in Nat /\ N <= MaxTokens
      /\ table[b] \in Seq(Pages) /\ L \in Nat
  BY <1>0 DEF AppendWith, TypeOK
<1>2. L = PagesFor(numTokens[b])
  BY DEF AppendWith, Covered
<1>3. L <= K /\ K <= PagesFor(MaxTokens) /\ K \in Nat
  <2>1. numTokens[b] <= N
    BY <1>1
  <2> HIDE DEF N
  <2>2. PagesFor(numTokens[b]) <= PagesFor(N)
    BY <1>1, <2>1, PagesForMono
  <2>3. PagesFor(N) <= PagesFor(MaxTokens)
    BY <1>1, PagesForMono
  <2>4. PagesFor(N) \in Nat
    BY <1>1, PagesForLaw
  <2> QED
    BY <1>2, <2>2, <2>3, <2>4
<1>4. NeedsCopy(b) => 1 <= L
  <2> SUFFICES ASSUME NeedsCopy(b) PROVE 1 <= PagesFor(numTokens[b])
    BY <1>2
  <2>1. numTokens[b] # 0
    BY DEF NeedsCopy
  <2> QED
    BY <1>1, <2>1, PagesForPositive
<1>5. Copies(b) \in {0, 1}
  BY DEF Copies
<1>6. PagesTaken(b, Len(tokens)) = K - L + Copies(b)
  BY DEF PagesTaken
<1> HIDE DEF K, L, N
<1>7. K - L + Copies(b) \in Nat
  BY <1>1, <1>3, <1>5
<1> DEFINE k == K - L + Copies(b)
<1>8. /\ fresh \in [1 .. k -> free]
      /\ \A i, j \in 1 .. k : i < j => fresh[i] < fresh[j]
  BY <1>6 DEF AppendWith, LowestFree
<1>9. k \in Nat
  BY <1>7
<1> HIDE DEF k
<1>10. \A i, j \in 1 .. k : i # j => fresh[i] # fresh[j]
  <2> TAKE i, j \in 1 .. k
  <2>1. fresh[i] \in Int /\ fresh[j] \in Int
    <3>1. free \subseteq Int
      BY <1>0 DEF TypeOK, Pages
    <3>2. fresh[i] \in free /\ fresh[j] \in free
      BY <1>8
    <3> QED
      BY <3>1, <3>2
  <2>2. i \in Int /\ j \in Int
    BY <1>9
  <2> QED
    BY <1>8, <2>1, <2>2
<1> QED
  BY <1>1, <1>2, <1>3, <1>4, <1>6, <1>7, <1>8, <1>10 DEF K, L, N, k

\* The grown table: pages the append takes at the new places, each at one
\* place only, and what the table held before at the others.
LEMMA AppendEntries ==
  ASSUME IInv, NEW b \in BranchIds, NEW tokens \in Seq(Tokens), NEW fresh,
         AppendWith(b, tokens, fresh)
  PROVE  LET K == PagesFor(numTokens[b] + Len(tokens))
             grown == GrownTable(b, Len(tokens), fresh)
         IN
         /\ grown \in Seq(Pages)
         /\ Len(grown) = K
         /\ \A i \in 1 .. K : IsNew(b, i) => grown[i] \in free
         /\ \A i \in 1 .. K : ~IsNew(b, i) =>
              i \in DOMAIN table[b] /\ grown[i] = table[b][i] /\ grown[i] \notin free
         /\ \A i, j \in 1 .. K : IsNew(b, i) /\ i # j => grown[i] # grown[j]
         /\ \A p : p \in Range(fresh) <=>
              \E i \in 1 .. K : IsNew(b, i) /\ grown[i] = p
<1> DEFINE L == Len(table[b])
           K == PagesFor(numTokens[b] + Len(tokens))
           c == Copies(b)
           grown == GrownTable(b, Len(tokens), fresh)
<1>1. /\ table[b] \in Seq(Pages) /\ L \in Nat /\ K \in Nat /\ L <= K
      /\ NeedsCopy(b) => 1 <= L
      /\ c = IF NeedsCopy(b) THEN 1 ELSE 0
      /\ fresh \in [1 .. K - L + c -> free]
      /\ \A i, j \in 1 .. K - L + c : i # j => fresh[i] # fresh[j]
  BY AppendSizes DEF Copies
<1>2. free \subseteq Pages
  BY DEF IInv, TypeOK
<1>3. \A i \in DOMAIN table[b] : table[b][i] \in Pages /\ table[b][i] \notin free
  BY InTableReferenced DEF IInv, AppendWith
<1>4. grown = [i \in 1 .. K |->
                 IF i = L /\ NeedsCopy(b) THEN fresh[1]
                 ELSE IF i <= L THEN table[b][i] ELSE fresh[i - L + c]]
  BY DEF GrownTable
<1>5. \A i : IsNew(b, i) <=> i > L \/ (i = L /\ NeedsCopy(b))
  BY DEF IsNew
<1> HIDE DEF L, K, c, grown
<1>6. ASSUME NEW i \in 1 .. K, IsNew(b, i)
      PROVE  i - L + c \in 1 .. K - L + c /\ grown[i] = fresh[i - L + c]
  BY <1>1, <1>4, <1>5, <1>6
<1>7. ASSUME NEW i \in 1 .. K, ~IsNew(b, i)
      PROVE  i \in DOMAIN table[b] /\ grown[i] = table[b][i]
  <2>1. i <= L /\ i \in 1 .. L /\ ~(i = L /\ NeedsCopy(b))
    BY <1>1, <1>5, <1>7
  <2>2. grown[i] = table[b][i]
    BY <1>4, <2>1
  <2> QED
    BY <1>1, <2>1, <2>2 DEF L
<1>8. \A i \in 1 .. K : IsNew(b, i) => grown[i] \in free
  BY <1>1, <1>6
<1>9. \A i \in 1 .. K : grown[i] \in Pages
  BY <1>2, <1>3, <1>7, <1>8
<1>10. grown \in Seq(Pages) /\ Len(grown) = K
  <2>1. DOMAIN grown = 1 .. K /\ grown = [i \in 1 .. K |-> grown[i]]
    BY <1>4
  <2> QED
    BY <1>1, <1>9, <2>1
<1>11. \A i, j \in 1 .. K : IsNew(b, i) /\ i # j => grown[i] # grown[j]
  <2> SUFFICES ASSUME NEW i \in 1 .. K, NEW j \in 1 .. K, IsNew(b, i), i # j
               PROVE  grown[i] # grown[j]
    OBVIOUS
  <2>1. CASE IsNew(b, j)
    <3>1. i - L + c # j - L + c
      BY <1>1
    <3> QED
      BY <1>1, <1>6, <2>1, <3>1
  <2>2. CASE ~IsNew(b, j)
    BY <1>3, <1>7, <1>8, <2>2
  <2> QED
    BY <2>1, <2>2
<1>12. \A p : p \in Range(fresh) <=>
         \E i \in 1 .. K : IsNew(b, i) /\ grown[i] = p
  <2> TAKE p
  <2>1. ASSUME NEW j \in DOMAIN fresh, p = fresh[j]
        PROVE  \E i \in 1 .. K : IsNew(b, i) /\ grown[i] = p
    <3>1. j \in 1 .. K - L + c
      BY <1>1
    <3>2. /\ j + L - c \in 1 .. K /\ IsNew(b, j + L - c)
          /\ (j + L - c) - L + c = j
      BY <1>1, <1>5, <3>1
    <3> QED
      BY <1>6, <2>1, <3>2
  <2>2. ASSUME NEW i \in 1 .. K, IsNew(b, i), grown[i] = p
        PROVE  p \in Range(fresh)
    BY <1>1, <1>6, <2>2 DEF Range
  <2> QED
    BY <2>1, <2>2 DEF Range
<1> QED
  BY <1>3, <1>7, <1>8, <1>10, <1>11, <1>12 DEF K, grown

\* The reference counts after an append count the entries of the new tables.
LEMMA AppendCounts ==
  ASSUME IInv, NEW b \in BranchIds, NEW tokens \in Seq(Tokens), NEW fresh,
         AppendWith(b, tokens, fresh), NEW p \in Pages
  PROVE  /\ refcount'[p] = Cardinality(Occurrences(p))'
         /\ refcount'[p] \in Nat
         /\ p \in free' <=> refcount'[p] = 0
<1> DEFINE L == Len(table[b])
           K == PagesFor(numTokens[b] + Len(tokens))
           grown == GrownTable(b, Len(tokens), fresh)
           taken == Range(fresh)
           Rest == live \ {b}
           Before == {i \in DOMAIN table[b] : table[b][i] = p}
           After == {i \in DOMAIN grown : grown[i] = p}
<1>0. TypeOK /\ PagesAccounted /\ CoverageExact /\ Bookkeeping
  BY DEF IInv
<1>1. /\ table[b] \in Seq(Pages) /\ L \in Nat /\ K \in Nat /\ L <= K
      /\ L <= PagesFor(MaxTokens) /\ K <= PagesFor(MaxTokens)
      /\ NeedsCopy(b) => 1 <= L
  <2>1. PagesFor(MaxTokens) \in Nat
    BY PagesForLaw, TreeKVAssumption
  <2> QED
    BY <2>1, AppendSizes
<1>2. /\ grown \in Seq(Pages) /\ Len(grown) = K
      /\ \A i \in 1 .. K : IsNew(b, i) => grown[i] \in free
      /\ \A i \in 1 .. K : ~IsNew(b, i) =>
           i \in DOMAIN table[b] /\ grown[i] = table[b][i] /\ grown[i] \notin free
      /\ \A i, j \in 1 .. K : IsNew(b, i) /\ i # j => grown[i] # grown[j]
      /\ \A q : q \in taken <=> \E i \in 1 .. K : IsNew(b, i) /\ grown[i] = q
  <2>1. grown \in Seq(Pages) /\ Len(grown) = K
    BY AppendEntries
  <2>2. \A i \in 1 .. K : IsNew(b, i) => grown[i] \in free
    BY AppendEntries
  <2>3. \A i \in 1 .. K : ~IsNew(b, i) =>
           i \in DOMAIN table[b] /\ grown[i] = table[b][i] /\ grown[i] \notin free
    BY AppendEntries
  <2>4. \A i, j \in 1 .. K : IsNew(b, i) /\ i # j => grown[i] # grown[j]
    BY AppendEntries
  <2>5. \A q : q \in taken <=> \E i \in 1 .. K : IsNew(b, i) /\ grown[i] = q
    BY AppendEntries
  <2> QED
    BY <2>1, <2>2, <2>3, <2>4, <2>5
<1>3. \A i : IsNew(b, i) <=> i > L \/ (i = L /\ NeedsCopy(b))
  BY DEF IsNew
<1>4. /\ refcount'[p] = IF p \in taken THEN 1
                        ELSE IF NeedsCopy(b) /\ p = LastPage(b)
                             THEN refcount[p] - 1 ELSE refcount[p]
      /\ free' = free \ taken
      /\ table' = [table EXCEPT ![b] = grown]
      /\ live' = live /\ b \in live
  BY DEF AppendWith, WriteTokens
<1>5. /\ Rest \in SUBSET BranchIds /\ b \notin Rest /\ live = Rest \cup {b}
      /\ table \in [BranchIds -> Seq(Pages)]
      /\ table' \in [BranchIds -> Seq(Pages)] /\ table'[b] = grown
      /\ \A c \in Rest : table'[c] = table[c]
      /\ refcount[p] \in Nat
  BY <1>0, <1>2, <1>4 DEF TypeOK
<1>6. /\ LastPage(b) = table[b][L]
      /\ \A i \in DOMAIN table[b] : table[b][i] \notin free
  BY <1>0, <1>4, InTableReferenced DEF LastPage
<1> HIDE DEF L, K, grown, taken, Rest
<1>7. /\ refcount[p] = Cardinality(OccOf(Rest, table, p)) + Cardinality(Before)
      /\ Cardinality(OccOf(Rest, table, p)) \in Nat
      /\ Cardinality(Before) \in Nat
  <2>1. refcount[p] = Cardinality(OccOf(Rest \cup {b}, table, p))
    BY <1>0, <1>5 DEF PagesAccounted, Occurrences, OccOf
  <2>2. Len(table[b]) <= PagesFor(MaxTokens)
    BY <1>1 DEF L
  <2>3. /\ Cardinality(OccOf(Rest \cup {b}, table, p)) =
             Cardinality(OccOf(Rest, table, p)) + OccurrencesIn(table[b], p)
        /\ Cardinality(OccOf(Rest, table, p)) \in Nat
        /\ OccurrencesIn(table[b], p) \in Nat
    BY <1>5, <2>2, OccSplit
  <2> QED
    BY <2>1, <2>3 DEF OccurrencesIn
<1>8. Cardinality(Occurrences(p))' =
        Cardinality(OccOf(Rest, table, p)) + Cardinality(After)
  <2>1. Cardinality(Occurrences(p))' = Cardinality(OccOf(Rest \cup {b}, table', p))
    BY <1>4, <1>5 DEF Occurrences, OccOf
  <2>2. OccOf(Rest, table', p) = OccOf(Rest, table, p)
    BY <1>5, OccSame
  <2>3. Len(table'[b]) <= PagesFor(MaxTokens)
    BY <1>1, <1>2, <1>5
  <2>4. Cardinality(OccOf(Rest \cup {b}, table', p)) =
          Cardinality(OccOf(Rest, table', p)) + OccurrencesIn(table'[b], p)
    BY <1>5, <2>3, OccSplit
  <2> QED
    BY <1>5, <2>1, <2>2, <2>4 DEF OccurrencesIn
<1>9. DOMAIN table[b] = 1 .. L /\ DOMAIN grown = 1 .. K
  BY <1>1, <1>2 DEF L
<1>10. p \in free <=> refcount[p] = 0
  BY <1>0 DEF PagesAccounted
<1>11. CASE p \in taken
  <2>1. PICK i \in 1 .. K : IsNew(b, i) /\ grown[i] = p
    BY <1>2, <1>11
  <2>2. After = {i}
    BY <1>2, <1>9, <2>1
  <2>3. p \in free
    BY <1>2, <2>1
  <2>4. Before = {}
    BY <1>6, <2>3
  <2>5. Cardinality(After) = 1 /\ Cardinality(Before) = 0
    BY <2>2, <2>4, FS_Singleton, FS_EmptySet
  <2>6. refcount[p] = 0
    BY <1>10, <2>3
  <2> QED
    BY <1>4, <1>7, <1>8, <1>11, <2>5, <2>6
<1>12. CASE p \notin taken /\ NeedsCopy(b) /\ p = LastPage(b)
  <2>1. After = Before \ {L}
    BY <1>1, <1>2, <1>3, <1>9, <1>12
  <2>2. L \in Before
    BY <1>1, <1>6, <1>9, <1>12
  <2>3. IsFiniteSet(Before)
    <3>1. IsFiniteSet(1 .. L) /\ Before \in SUBSET (1 .. L)
      BY <1>1, <1>9, FS_Interval
    <3> QED
      BY <3>1, FS_Subset
  <2>4. refcount[p] > 1
    BY <1>12 DEF NeedsCopy
  <2> HIDE DEF After, Before
  <2>5. Cardinality(After) = Cardinality(Before) - 1
    BY <2>1, <2>2, <2>3, FS_RemoveElement
  <2>6. p \notin free' /\ refcount'[p] = refcount[p] - 1 /\ refcount'[p] # 0
    BY <1>4, <1>5, <1>10, <1>12, <2>4
  <2> QED
    BY <1>5, <1>7, <1>8, <2>4, <2>5, <2>6
<1>13. CASE p \notin taken /\ ~(NeedsCopy(b) /\ p = LastPage(b))
  <2>1. \A i \in 1 .. K : grown[i] = p => ~IsNew(b, i)
    BY <1>2, <1>13
  <2>2. ASSUME NEW i \in Before PROVE i \in After
    <3>1. i \in 1 .. L /\ table[b][i] = p
      BY <1>9
    <3>2. ~IsNew(b, i)
      BY <1>1, <1>3, <1>6, <1>13, <3>1
    <3> QED
      BY <1>1, <1>2, <1>9, <3>1, <3>2
  <2>3. After = Before
    BY <1>2, <1>9, <2>1, <2>2
  <2> HIDE DEF After, Before
  <2> QED
    BY <1>4, <1>5, <1>7, <1>8, <1>10, <1>13, <2>3
<1> QED
  BY <1>11, <1>12, <1>13

\* The entries the write loop touches are new pages or the tail, and a tail
\* it writes in place has room and is referenced once.
LEMMA AppendTouches ==
  ASSUME IInv, NEW b \in BranchIds, NEW tokens \in Seq(Tokens), NEW fresh,
         AppendWith(b, tokens, fresh)
  PROVE  LET L == Len(table[b])
             K == PagesFor(numTokens[b] + Len(tokens))
         IN
         /\ Touched(b, Len(tokens)) \subseteq 1 .. K
         /\ \A i \in Touched(b, Len(tokens)) : ~IsNew(b, i) =>
              /\ i = L /\ refcount[LastPage(b)] = 1
              /\ numTokens[b] < L * PageSize
         /\ \A i \in Touched(b, Len(tokens)) :
              i >= L /\ (i # L => numTokens[b] <= (i - 1) * PageSize)
         /\ \A i \in 1 .. K : i \notin Touched(b, Len(tokens)) =>
              ~IsNew(b, i) /\ i * PageSize <= numTokens[b]
<1> USE TreeKVAssumption
<1> DEFINE n == Len(tokens)
           L == Len(table[b])
           K == PagesFor(numTokens[b] + n)
           nt == numTokens[b]
<1>1. /\ nt \in Nat /\ n \in Nat \ {0} /\ nt + n \in Nat
      /\ L \in Nat /\ K \in Nat /\ L <= K /\ L = PagesFor(nt)
      /\ NeedsCopy(b) => 1 <= L
  BY AppendSizes
<1>2. \A i \in Nat \ {0} : i <= L <=> (i - 1) * PageSize < nt
  BY <1>1, PagesForLaw
<1>3. \A i : IsNew(b, i) <=> i > L \/ (i = L /\ NeedsCopy(b))
  BY DEF IsNew
<1>4. NeedsCopy(b) <=> nt % PageSize # 0 /\ refcount[LastPage(b)] > 1
  BY DEF NeedsCopy
<1>5. Touched(b, n) = {i \in 1 .. K : nt < i * PageSize}
  BY DEF Touched
<1>6. 1 <= L => refcount[LastPage(b)] \in Nat /\ refcount[LastPage(b)] > 0
  <2> SUFFICES ASSUME 1 <= L
               PROVE  refcount[LastPage(b)] \in Nat /\ refcount[LastPage(b)] > 0
    OBVIOUS
  <2>1. L \in DOMAIN table[b]
    BY <1>1, AppendSizes
  <2>2. LastPage(b) \in Pages /\ refcount[LastPage(b)] > 0
    BY <2>1, InTableReferenced DEF IInv, AppendWith, LastPage
  <2> QED
    BY <2>2 DEF IInv, TypeOK
<1> HIDE DEF n, L, K, nt
<1>7. \A i \in Int : i * PageSize \in Int /\ (i - 1) * PageSize = i * PageSize - PageSize
  OBVIOUS
<1>8. \A i \in Nat : nt <= i * PageSize <=> L <= i
  <2> TAKE i \in Nat
  <2>1. i + 1 <= L <=> (i + 1 - 1) * PageSize < nt
    BY <1>2
  <2>2. (i + 1 - 1) * PageSize = i * PageSize /\ i * PageSize \in Int
    OBVIOUS
  <2> QED
    BY <1>1, <2>1, <2>2
<1>9. ASSUME NEW i \in Touched(b, n)
      PROVE  /\ i \in 1 .. K /\ i >= L /\ nt < i * PageSize
             /\ i # L => nt <= (i - 1) * PageSize
  <2>1. i \in 1 .. K /\ nt < i * PageSize /\ i \in Nat /\ i - 1 \in Nat
    BY <1>1, <1>5
  <2>2. i >= L
    BY <1>1, <1>7, <1>8, <2>1
  <2>3. i # L => nt <= (i - 1) * PageSize
    BY <1>1, <1>8, <2>1, <2>2
  <2> QED
    BY <2>1, <2>2, <2>3
<1>10. ASSUME NEW i \in Touched(b, n), ~IsNew(b, i)
       PROVE  i = L /\ refcount[LastPage(b)] = 1 /\ nt < L * PageSize
  <2>1. i = L /\ 1 <= L /\ nt < L * PageSize
    BY <1>1, <1>3, <1>9, <1>10
  <2>2. nt % PageSize # 0
    <3> SUFFICES ASSUME nt % PageSize = 0 PROVE FALSE
      OBVIOUS
    <3> DEFINE q == nt \div PageSize
    <3>0. q \in Nat /\ nt = PageSize * q + (nt % PageSize)
      BY <1>1, DivMod
    <3> HIDE DEF q
    <3>1. nt = PageSize * q /\ q \in Nat
      BY <3>0
    <3>2. PageSize * q = q * PageSize
      BY <3>1
    <3>3. nt <= q * PageSize
      BY <1>1, <3>1, <3>2
    <3>4. L <= q
      BY <1>8, <3>1, <3>3
    <3>5. L < q => PageSize * L + PageSize <= PageSize * q
      BY <1>1, <3>1, MulMono
    <3>6. PageSize * L = L * PageSize /\ PageSize * L \in Int
      BY <1>1
    <3>7. L = q => nt = L * PageSize
      BY <3>1, <3>2
    <3>8. ~(L < q)
      <4> SUFFICES ASSUME L < q PROVE FALSE
        OBVIOUS
      <4>1. PageSize * L + PageSize <= nt
        BY <3>1, <3>5
      <4>2. L * PageSize + PageSize <= nt /\ L * PageSize \in Int
        BY <3>6, <4>1
      <4> QED
        BY <1>1, <2>1, <4>2
    <3> QED
      BY <1>1, <2>1, <3>1, <3>4, <3>6, <3>7, <3>8
  <2> QED
    BY <1>3, <1>4, <1>6, <1>10, <2>1, <2>2
<1>11. ASSUME NEW i \in 1 .. K, i \notin Touched(b, n)
       PROVE  ~IsNew(b, i) /\ i * PageSize <= nt
  <2>1. i * PageSize <= nt /\ i \in Nat \ {0}
    BY <1>1, <1>5, <1>7, <1>11
  <2>2. (i - 1) * PageSize < nt
    BY <1>1, <1>7, <2>1
  <2>3. i <= L
    BY <1>2, <2>1, <2>2
  <2>4. i = L => nt = PageSize * L
    BY <1>1, <1>8, <2>1
  <2>5. i = L => nt % PageSize = 0
    BY <1>1, <2>4, DivUnique
  <2> QED
    BY <1>1, <1>3, <1>4, <2>1, <2>3, <2>5
<1> QED
  BY <1>9, <1>10, <1>11 DEF n, L, K, nt

\* What an append leaves in the pages: the touched entries get their grown
\* pages, every other place in a block table reads what it read before.
LEMMA AppendPages ==
  ASSUME IInv, NEW b \in BranchIds, NEW tokens \in Seq(Tokens), NEW fresh,
         AppendWith(b, tokens, fresh)
  PROVE  LET K == PagesFor(numTokens[b] + Len(tokens))
             grown == GrownTable(b, Len(tokens), fresh)
             touched == Touched(b, Len(tokens))
         IN
         /\ \A i \in touched :
              page'[grown[i]] = GrownPage(b, tokens, Len(tokens), i)
         /\ \A i \in 1 .. K : i \notin touched =>
              i \in DOMAIN table[b] /\ grown[i] = table[b][i]
         /\ \A p \in Pages : (\A i \in touched : grown[i] # p) => page'[p] = page[p]
         /\ \A c \in live : \A j \in DOMAIN table[c] :
              c # b \/ j \notin touched => page'[table[c][j]] = page[table[c][j]]
<1> DEFINE L == Len(table[b])
           K == PagesFor(numTokens[b] + Len(tokens))
           grown == GrownTable(b, Len(tokens), fresh)
           touched == Touched(b, Len(tokens))
<1>1. TypeOK /\ PagesAccounted /\ CoverageExact /\ Bookkeeping /\ b \in live
  BY DEF IInv, AppendWith
<1>2. page' = [p \in Pages |->
         IF \E i \in touched : grown[i] = p
         THEN GrownPage(b, tokens, Len(tokens), CHOOSE i \in touched : grown[i] = p)
         ELSE page[p]]
  BY DEF AppendWith, WriteTokens
<1>3. grown \in Seq(Pages) /\ Len(grown) = K
  BY AppendEntries
<1>4. \A i \in 1 .. K : IsNew(b, i) => grown[i] \in free
  BY AppendEntries
<1>5. \A i \in 1 .. K : ~IsNew(b, i) =>
        i \in DOMAIN table[b] /\ grown[i] = table[b][i] /\ grown[i] \notin free
  BY AppendEntries
<1>6. \A i, j \in 1 .. K : IsNew(b, i) /\ i # j => grown[i] # grown[j]
  BY AppendEntries
<1>7. /\ touched \subseteq 1 .. K
      /\ \A i \in touched : ~IsNew(b, i) => i = L /\ refcount[LastPage(b)] = 1
      /\ \A i \in 1 .. K : i \notin touched => ~IsNew(b, i)
  BY AppendTouches
<1>8. LastPage(b) = table[b][L]
  BY DEF LastPage
<1> HIDE DEF L, K, grown, touched
<1>9. \A i, j \in touched : grown[i] = grown[j] => i = j
  BY <1>6, <1>7
<1>10. \A i \in touched : grown[i] \in Pages
  BY <1>3, <1>7
<1>11. ASSUME NEW i \in touched
       PROVE  page'[grown[i]] = GrownPage(b, tokens, Len(tokens), i)
  <2>1. (CHOOSE j \in touched : grown[j] = grown[i]) = i
    BY <1>9
  <2> QED
    BY <1>2, <1>10, <2>1
<1>12. \A p \in Pages : (\A i \in touched : grown[i] # p) => page'[p] = page[p]
  BY <1>2
<1>13. ASSUME NEW c \in live, NEW j \in DOMAIN table[c], c # b \/ j \notin touched
       PROVE  page'[table[c][j]] = page[table[c][j]]
  <2> DEFINE p == table[c][j]
  <2>1. p \in Pages /\ p \notin free /\ <<c, j>> \in Occurrences(p)
    BY <1>1, InTableReferenced
  <2> HIDE DEF p
  <2>2. ASSUME NEW i \in touched, grown[i] = p
        PROVE  FALSE
    <3>1. ~IsNew(b, i)
      BY <1>4, <1>7, <2>1, <2>2
    <3>2. i \in DOMAIN table[b] /\ p = table[b][i] /\ i = L
          /\ refcount[p] = 1
      BY <1>5, <1>7, <1>8, <2>2, <3>1
    <3>3. <<b, i>> \in Occurrences(p)
      BY <1>1, <3>2, InTableReferenced
    <3>4. <<b, i>> # <<c, j>>
      BY <1>13
    <3>5. refcount[p] >= 2
      BY <1>1, <2>1, <3>3, <3>4, TwoOccurrences
    <3> QED
      BY <3>2, <3>5
  <2>3. page'[p] = page[p]
    BY <1>12, <2>1, <2>2
  <2> QED
    BY <2>3 DEF p
<1>14. \A i \in 1 .. K : i \notin touched =>
         i \in DOMAIN table[b] /\ grown[i] = table[b][i]
  BY <1>5, <1>7
<1> QED
  BY <1>11, <1>12, <1>13, <1>14 DEF K, grown, touched

\* A grown page is a sequence of tokens that fills the page as far as the
\* branch's tokens reach, and starts with what the page held before.
LEMMA GrownPageLaw ==
  ASSUME IInv, NEW b \in BranchIds, NEW tokens \in Seq(Tokens), NEW fresh,
         AppendWith(b, tokens, fresh), NEW i \in Touched(b, Len(tokens))
  PROVE  /\ GrownPage(b, tokens, Len(tokens), i) \in Seq(Tokens)
         /\ Len(GrownPage(b, tokens, Len(tokens), i)) =
              MinOf(PageSize, numTokens[b] + Len(tokens) - (i - 1) * PageSize)
<1> USE TreeKVAssumption
<1> DEFINE n == Len(tokens)
           L == Len(table[b])
           nt == numTokens[b]
           K == PagesFor(nt + n)
           kept == IF i = L THEN page[LastPage(b)] ELSE <<>>
           base == (i - 1) * PageSize
           length == MinOf(PageSize, nt + n - base)
<1>1. TypeOK /\ PagesAccounted /\ CoverageExact /\ Bookkeeping /\ b \in live
      /\ Covered(b)
  BY DEF IInv, AppendWith
<1>2. /\ nt \in Nat /\ n \in Nat \ {0} /\ nt + n \in Nat
      /\ L \in Nat /\ K \in Nat
  BY AppendSizes
<1>3. i \in 1 .. K /\ i >= L /\ (i # L => nt <= base)
  BY AppendTouches
<1>4. base \in Nat /\ base < nt + n
  <2>1. \A k \in Nat \ {0} : k <= K <=> (k - 1) * PageSize < nt + n
    BY <1>2, PagesForLaw
  <2> QED
    BY <1>2, <1>3, <2>1
<1>5. /\ kept \in Seq(Tokens) /\ Len(kept) \in Nat
      /\ i = L => Len(kept) = MinOf(PageSize, nt - base)
      /\ i # L => Len(kept) = 0
  <2>1. CASE i = L
    <3>1. L \in DOMAIN table[b]
      BY <1>2, <1>3, <2>1, AppendSizes
    <3>2. LastPage(b) = table[b][L] /\ LastPage(b) \in Pages
      BY <1>1, <3>1, InTableReferenced DEF LastPage
    <3>3. Len(page[LastPage(b)]) = MinOf(PageSize, nt - base)
      BY <1>1, <2>1, <3>1, <3>2 DEF Covered
    <3>4. page[LastPage(b)] \in Seq(Tokens)
      BY <1>1, <3>2 DEF TypeOK
    <3> QED
      BY <2>1, <3>3, <3>4
  <2>2. CASE i # L
    BY <2>2
  <2> QED
    BY <2>1, <2>2
<1>6. GrownPage(b, tokens, n, i) =
        [o \in 1 .. length |->
           IF o <= Len(kept) THEN kept[o] ELSE tokens[base + o - nt]]
  BY DEF GrownPage
<1> HIDE DEF n, L, nt, K, kept, base
<1>7. length \in Nat /\ length <= PageSize /\ length <= nt + n - base
  BY <1>2, <1>4 DEF MinOf
<1> HIDE DEF length
<1>8. ASSUME NEW o \in 1 .. length
      PROVE  (IF o <= Len(kept) THEN kept[o] ELSE tokens[base + o - nt]) \in Tokens
  <2>1. CASE o <= Len(kept)
    <3>1. o \in 1 .. Len(kept)
      BY <1>5, <1>7, <2>1
    <3> QED
      BY <1>5, <2>1, <3>1
  <2>2. CASE ~(o <= Len(kept))
    <3>1. nt < base + o
      BY <1>2, <1>3, <1>4, <1>5, <1>7, <2>2 DEF MinOf
    <3>2. base + o - nt \in 1 .. n
      BY <1>2, <1>4, <1>7, <3>1
    <3>3. base + o - nt \in DOMAIN tokens
      BY <3>2 DEF n
    <3> QED
      BY <2>2, <3>3
  <2> QED
    BY <2>1, <2>2
<1>9. GrownPage(b, tokens, n, i) \in Seq(Tokens)
      /\ Len(GrownPage(b, tokens, n, i)) = length
  BY <1>6, <1>7, <1>8
<1> QED
  BY <1>9 DEF length, n, nt, base

\* append_tokens preserves the invariant, copy-on-write included.
LEMMA AppendIInv ==
  ASSUME IInv, NEW b \in BranchIds, NEW tokens \in Seq(Tokens), NEW fresh,
         AppendWith(b, tokens, fresh)
  PROVE  IInv'
<1> USE TreeKVAssumption
<1> DEFINE n == Len(tokens)
           L == Len(table[b])
           nt == numTokens[b]
           K == PagesFor(nt + n)
           grown == GrownTable(b, n, fresh)
           touched == Touched(b, n)
           grownPage(i) == GrownPage(b, tokens, n, i)
<1>1. /\ TypeOK /\ PagesAccounted /\ CoverageExact /\ LogicalExact /\ TreeLinked
      /\ Bookkeeping /\ b \in live
  BY DEF IInv, AppendWith
<1>2. /\ free' = free \ Range(fresh)
      /\ numTokens' = [numTokens EXCEPT ![b] = @ + n]
      /\ table' = [table EXCEPT ![b] = grown]
      /\ logical' = logical + n
      /\ UNCHANGED <<live, parent, children, nextBranch>>
  BY DEF AppendWith, WriteTokens
<1>3. /\ nt \in Nat /\ n \in Nat \ {0} /\ nt + n \in Nat /\ nt + n <= MaxTokens
      /\ L \in Nat /\ K \in Nat /\ K <= PagesFor(MaxTokens)
  BY AppendSizes
<1>4. grown \in Seq(Pages) /\ Len(grown) = K
  BY AppendEntries
<1>5. \A i \in 1 .. K : ~IsNew(b, i) => grown[i] \notin free
  BY AppendEntries
<1>6. \A p : p \in Range(fresh) <=> \E i \in 1 .. K : IsNew(b, i) /\ grown[i] = p
  BY AppendEntries
<1>7. /\ touched \subseteq 1 .. K
      /\ \A i \in 1 .. K : i \notin touched => i * PageSize <= nt
  BY AppendTouches
<1>8. /\ \A i \in touched : page'[grown[i]] = grownPage(i)
      /\ \A i \in 1 .. K : i \notin touched =>
           i \in DOMAIN table[b] /\ grown[i] = table[b][i]
      /\ \A p \in Pages : (\A i \in touched : grown[i] # p) => page'[p] = page[p]
      /\ \A c \in live : \A j \in DOMAIN table[c] :
           c # b \/ j \notin touched => page'[table[c][j]] = page[table[c][j]]
  BY AppendPages
<1>9. \A i \in touched :
        /\ grownPage(i) \in Seq(Tokens)
        /\ Len(grownPage(i)) = MinOf(PageSize, nt + n - (i - 1) * PageSize)
  BY GrownPageLaw
<1>10. \A p \in Pages : /\ refcount'[p] = Cardinality(Occurrences(p))'
                        /\ refcount'[p] \in Nat
                        /\ p \in free' <=> refcount'[p] = 0
  BY AppendCounts
<1>11. TypeOK'
  <2>1. refcount' \in [Pages -> Nat]
    BY <1>10 DEF AppendWith, WriteTokens
  <2>2. page' \in [Pages -> Seq(Tokens)]
    <3>1. ASSUME NEW p \in Pages PROVE page'[p] \in Seq(Tokens)
      <4> HIDE DEF grownPage, touched, grown
      <4>1. CASE \E i \in touched : grown[i] = p
        BY <1>8, <1>9, <4>1
      <4>2. CASE ~\E i \in touched : grown[i] = p
        BY <1>1, <1>8, <4>2 DEF TypeOK
      <4> QED
        BY <4>1, <4>2
    <3>2. page' = [p \in Pages |-> page'[p]]
      BY DEF AppendWith, WriteTokens
    <3> QED
      BY <3>1, <3>2
  <2>3. free' \in SUBSET Pages /\ live' \in SUBSET BranchIds
        /\ parent' \in [BranchIds -> BranchIds]
        /\ children' \in [BranchIds -> SUBSET BranchIds] /\ nextBranch' \in Nat
    BY <1>1, <1>2 DEF TypeOK
  <2>4. logical' \in Nat
    BY <1>1, <1>2, <1>3 DEF TypeOK
  <2>5. numTokens' \in [BranchIds -> Nat]
    BY <1>1, <1>2, <1>3 DEF TypeOK
  <2>6. table' \in [BranchIds -> Seq(Pages)]
    BY <1>1, <1>2, <1>4 DEF TypeOK
  <2> QED
    BY <2>1, <2>2, <2>3, <2>4, <2>5, <2>6 DEF TypeOK
<1>12. PagesAccounted'
  <2>1. free' = {p \in Pages : refcount'[p] = 0}
    BY <1>10, <1>11 DEF TypeOK
  <2> QED
    BY <1>10, <2>1 DEF PagesAccounted
<1>13. /\ table'[b] = grown /\ numTokens'[b] = nt + n
       /\ \A c \in live \ {b} : table'[c] = table[c] /\ numTokens'[c] = numTokens[c]
       /\ live \subseteq BranchIds
  BY <1>1, <1>2 DEF TypeOK
<1>14. Bookkeeping'
  <2>1. ASSUME NEW p \in free' PROVE page'[p] = <<>>
    <3>1. p \in free /\ p \in Pages /\ page[p] = <<>>
      BY <1>1, <1>2 DEF Bookkeeping, TypeOK
    <3>2. \A i \in touched : grown[i] # p
      BY <1>2, <1>5, <1>6, <1>7, <3>1
    <3> QED
      BY <1>8, <3>1, <3>2
  <2>2. \A c \in BranchIds \ live' :
          children'[c] = {} /\ table'[c] = <<>> /\ numTokens'[c] = 0
    BY <1>1, <1>2 DEF Bookkeeping, TypeOK
  <2>3. \A c \in BranchIds : numTokens'[c] <= MaxTokens
    BY <1>1, <1>2, <1>3 DEF Bookkeeping, TypeOK
  <2> QED
    BY <1>1, <1>2, <2>1, <2>2, <2>3 DEF Bookkeeping
<1>15. CoverageExact'
  <2> SUFFICES ASSUME NEW c \in live PROVE Covered(c)'
    BY <1>2 DEF CoverageExact
  <2>1. Len(table'[c]) = PagesFor(numTokens'[c])
    <3>1. c # b => Len(table[c]) = PagesFor(numTokens[c])
      BY <1>1 DEF CoverageExact, Covered
    <3> QED
      BY <1>4, <1>13, <3>1
  <2>2. ASSUME NEW i \in DOMAIN table'[c]
        PROVE  refcount'[table'[c][i]] # 0
    <3> DEFINE p == table'[c][i]
    <3>1. table'[c] \in Seq(Pages) /\ numTokens'[c] \in Nat
          /\ numTokens'[c] <= MaxTokens
      BY <1>11, <1>13, <1>14 DEF TypeOK, Bookkeeping
    <3>2. p \in Pages /\ i \in 1 .. PagesFor(numTokens'[c])
      BY <2>1, <3>1
    <3>3. PagesFor(numTokens'[c]) <= PagesFor(MaxTokens)
          /\ PagesFor(numTokens'[c]) \in Nat /\ PagesFor(MaxTokens) \in Nat
      BY <3>1, PagesForMono, PagesForLaw
    <3>4. <<c, i>> \in OccOf(live, table', p)
      BY <3>2, <3>3 DEF OccOf, TableIndex
    <3> HIDE DEF p
    <3>5. refcount'[p] = Cardinality(OccOf(live, table', p))
      <4>1. \A q \in Pages : Occurrences(q)' = OccOf(live, table', q)
        BY <1>2 DEF Occurrences, OccOf
      <4>2. \A q \in Pages : refcount'[q] = Cardinality(OccOf(live, table', q))
        BY <1>10, <4>1
      <4> QED
        BY <3>2, <4>2
    <3>6. IsFiniteSet(OccOf(live, table', p))
      BY <1>13, OccFinite
    <3>7. Cardinality(OccOf(live, table', p)) # 0
      BY <3>4, <3>6, FS_EmptySet
    <3>8. refcount'[p] # 0
      BY <3>5, <3>7
    <3> QED
      BY <3>8 DEF p
  <2>3. ASSUME NEW i \in DOMAIN table'[c]
        PROVE  Len(page'[table'[c][i]]) =
                 MinOf(PageSize, numTokens'[c] - (i - 1) * PageSize)
    <3>1. CASE c # b
      <4>1. table'[c] = table[c] /\ numTokens'[c] = numTokens[c]
        BY <1>13, <3>1
      <4>2. i \in DOMAIN table[c]
        BY <4>1
      <4>3. page'[table[c][i]] = page[table[c][i]]
        BY <1>8, <3>1, <4>2
      <4>4. Len(page[table[c][i]]) = MinOf(PageSize, numTokens[c] - (i - 1) * PageSize)
        BY <1>1, <4>2 DEF CoverageExact, Covered
      <4>5. Len(page'[table'[c][i]]) = Len(page[table[c][i]])
        BY <4>1, <4>3
      <4> QED
        BY <4>1, <4>4, <4>5
    <3>2. CASE c = b /\ i \in touched
      <4>1. table'[c] = grown /\ numTokens'[c] = nt + n
        BY <1>13, <3>2
      <4>2. /\ page'[grown[i]] = grownPage(i)
            /\ Len(grownPage(i)) = MinOf(PageSize, nt + n - (i - 1) * PageSize)
        BY <1>8, <1>9, <3>2
      <4> HIDE DEF grownPage, grown, nt, n
      <4>3. page'[table'[c][i]] = page'[grown[i]]
        BY <4>1
      <4>4. numTokens'[c] - (i - 1) * PageSize = nt + n - (i - 1) * PageSize
        <5>1. nt \in Int /\ n \in Int /\ (i - 1) * PageSize \in Int
          BY <1>3, <1>7, <3>2
        <5> QED
          BY <4>1, <5>1
      <4> QED
        BY <4>2, <4>3, <4>4, Zenon
    <3>3. CASE c = b /\ i \notin touched
      <4>1. i \in 1 .. K
        BY <1>3, <1>4, <1>13, <3>3
      <4>2. i \in DOMAIN table[b] /\ grown[i] = table[b][i] /\ i * PageSize <= nt
        BY <1>7, <1>8, <3>3, <4>1
      <4>3. page'[grown[i]] = page[table[b][i]]
        BY <1>1, <1>8, <3>3, <4>2
      <4>4. Len(page[table[b][i]]) = MinOf(PageSize, nt - (i - 1) * PageSize)
        BY <1>1, <4>2 DEF CoverageExact, Covered
      <4>5. /\ MinOf(PageSize, nt - (i - 1) * PageSize) = PageSize
            /\ MinOf(PageSize, nt + n - (i - 1) * PageSize) = PageSize
        <5> HIDE DEF nt, n, K
        <5> DEFINE base == (i - 1) * PageSize
        <5>1. base = i * PageSize - PageSize /\ i * PageSize \in Int /\ base \in Int
          BY <1>3, <4>1
        <5> HIDE DEF base
        <5>2. i * PageSize <= nt /\ nt \in Nat /\ n \in Nat
          BY <1>3, <4>2
        <5>3. PageSize <= nt - base /\ PageSize <= nt + n - base
          BY <5>1, <5>2
        <5>4. MinOf(PageSize, nt - base) = PageSize
              /\ MinOf(PageSize, nt + n - base) = PageSize
          BY <5>3 DEF MinOf
        <5> QED
          BY <5>4 DEF base
      <4>6. table'[c] = grown /\ numTokens'[c] = nt + n
        BY <1>13, <3>3
      <4> HIDE DEF grown, nt, n
      <4>7. page'[table'[c][i]] = page'[grown[i]]
        BY <4>6
      <4>8. numTokens'[c] - (i - 1) * PageSize = nt + n - (i - 1) * PageSize
        <5>1. nt \in Int /\ n \in Int /\ (i - 1) * PageSize \in Int
          BY <1>3, <4>1
        <5> QED
          BY <4>6, <5>1
      <4> QED
        BY <4>3, <4>4, <4>5, <4>7, <4>8, Zenon
    <3> QED
      BY <3>1, <3>2, <3>3
  <2> QED
    BY <2>1, <2>2, <2>3 DEF Covered
<1>16. LogicalExact'
  <2> DEFINE Rest == live \ {b}
  <2>1. Rest \in SUBSET BranchIds /\ b \notin Rest /\ live = Rest \cup {b}
    BY <1>1, <1>13
  <2> HIDE DEF Rest, n, nt
  <2>2. /\ nt = numTokens[b] /\ nt <= MaxTokens
        /\ numTokens'[b] \in Nat /\ numTokens'[b] <= MaxTokens
        /\ \A c \in Rest : numTokens'[c] = numTokens[c]
    BY <1>3, <1>13 DEF Rest, nt
  <2>3. logical = Cardinality(TokensOf(Rest \cup {b}, numTokens))
    BY <1>1, <2>1 DEF LogicalExact, TokensOf
  <2>4. /\ Cardinality(TokensOf(Rest \cup {b}, numTokens)) =
             Cardinality(TokensOf(Rest, numTokens)) + nt
        /\ Cardinality(TokensOf(Rest, numTokens)) \in Nat
    BY <1>3, <2>1, <2>2, TokensSplit
  <2>5. Cardinality(TokensOf(Rest \cup {b}, numTokens')) =
             Cardinality(TokensOf(Rest, numTokens')) + numTokens'[b]
    BY <2>1, <2>2, TokensSplit
  <2>6. TokensOf(Rest, numTokens') = TokensOf(Rest, numTokens)
    BY <2>2, TokensSame
  <2>7. logical' = Cardinality(TokensOf(Rest \cup {b}, numTokens'))
    BY <1>2, <1>3, <1>13, <2>3, <2>4, <2>5, <2>6
  <2>8. live' = Rest \cup {b}
    BY <1>2, <2>1
  <2> QED
    BY <2>7, <2>8 DEF LogicalExact, TokensOf
<1>17. TreeLinked'
  BY <1>1, <1>2 DEF TreeLinked
<1> QED
  BY <1>11, <1>12, <1>14, <1>15, <1>16, <1>17 DEF IInv

-----------------------------------------------------------------------------
\* Every step of the cache preserves the invariant.
LEMMA NextIInv == IInv /\ [Next]_vars => IInv'
<1> SUFFICES ASSUME IInv, [Next]_vars PROVE IInv'
  OBVIOUS
<1>1. ASSUME NEW b \in BranchIds, Fork(b) PROVE IInv'
  BY <1>1, ForkIInv
<1>2. ASSUME NEW b \in BranchIds, Prune(b) PROVE IInv'
  BY <1>2, PruneIInv
<1>3. ASSUME NEW b \in BranchIds, NEW tokens \in Appends, AppendTokens(b, tokens)
      PROVE  IInv'
  <2>1. tokens \in Seq(Tokens) /\ \E fresh : AppendWith(b, tokens, fresh)
    BY <1>3, AppendWrites
  <2> QED
    BY <2>1, AppendIInv
<1>4. CASE DedupScan
  BY <1>4, DedupIInv
<1>5. CASE UNCHANGED vars
  BY <1>5 DEF vars, IInv, TypeOK, PagesAccounted, Occurrences, CoverageExact,
    Covered, LogicalExact, TreeLinked, Bookkeeping
<1> QED
  BY <1>1, <1>2, <1>3, <1>4, <1>5 DEF Next

\* The invariant holds in every reachable state.
THEOREM Invariance == Spec => []IInv
<1>1. Init => IInv
  BY InitIInv
<1>2. IInv /\ [Next]_vars => IInv'
  BY NextIInv
<1> QED
  BY <1>1, <1>2, PTL DEF Spec

\* Every state has its type: no count ever goes below zero.
THEOREM TypeCorrect == Spec => []TypeOK
<1>1. IInv => TypeOK
  BY DEF IInv
<1> QED
  BY <1>1, Invariance, PTL

\* No page leaks and none is freed while a live branch reads it.
THEOREM PagesAlwaysAccounted == Spec => []PagesAccounted
<1>1. IInv => PagesAccounted
  BY DEF IInv
<1> QED
  BY <1>1, Invariance, PTL

\* The tables of live branches always cover exactly their tokens.
THEOREM CoverageAlwaysExact == Spec => []CoverageExact
<1>1. IInv => CoverageExact
  BY DEF IInv
<1> QED
  BY <1>1, Invariance, PTL

\* The logical token count never drifts from the branches.
THEOREM LogicalAlwaysExact == Spec => []LogicalExact
<1>1. IInv => LogicalExact
  BY DEF IInv
<1> QED
  BY <1>1, Invariance, PTL

\* The parent and child links always agree.
THEOREM TreeAlwaysLinked == Spec => []TreeLinked
<1>1. IInv => TreeLinked
  BY DEF IInv
<1> QED
  BY <1>1, Invariance, PTL

-----------------------------------------------------------------------------
\* What SharedPagesImmutable says of one step.
PageKept(p) == (Full(p) \/ refcount[p] > 1) /\ p \notin free' => page'[p] = page[p]

\* An append writes only into pages it took, and into a tail that has room
\* and is referenced once.
LEMMA AppendKeepsPages ==
  ASSUME IInv, NEW b \in BranchIds, NEW tokens \in Seq(Tokens), NEW fresh,
         AppendWith(b, tokens, fresh), NEW p \in Pages
  PROVE  PageKept(p)
<1> USE TreeKVAssumption
<1> DEFINE L == Len(table[b])
           K == PagesFor(numTokens[b] + Len(tokens))
           grown == GrownTable(b, Len(tokens), fresh)
           touched == Touched(b, Len(tokens))
           nt == numTokens[b]
<1>1. TypeOK /\ PagesAccounted /\ Bookkeeping /\ Covered(b) /\ b \in live
  BY DEF IInv, AppendWith
<1>2. /\ touched \subseteq 1 .. K
      /\ \A i \in touched : ~IsNew(b, i) =>
           i = L /\ refcount[LastPage(b)] = 1 /\ nt < L * PageSize
  BY AppendTouches
<1>3. \A i \in 1 .. K : IsNew(b, i) => grown[i] \in free
  BY AppendEntries
<1>4. \A i \in 1 .. K : ~IsNew(b, i) => i \in DOMAIN table[b] /\ grown[i] = table[b][i]
  BY AppendEntries
<1>5. \A q \in Pages : (\A i \in touched : grown[i] # q) => page'[q] = page[q]
  BY AppendPages
<1>6. nt \in Nat /\ L \in Nat
  BY AppendSizes
<1> HIDE DEF L, K, grown, touched, nt
<1>7. ASSUME NEW i \in touched, grown[i] = p, IsNew(b, i)
      PROVE  ~Full(p) /\ ~(refcount[p] > 1)
  <2>1. p \in free
    BY <1>2, <1>3, <1>7
  <2>2. page[p] = <<>> /\ refcount[p] = 0
    BY <1>1, <2>1 DEF Bookkeeping, PagesAccounted
  <2> QED
    BY <2>2 DEF Full
<1>8. ASSUME NEW i \in touched, grown[i] = p, ~IsNew(b, i)
      PROVE  ~Full(p) /\ ~(refcount[p] > 1)
  <2>1. /\ L \in DOMAIN table[b] /\ p = table[b][L] /\ refcount[LastPage(b)] = 1
        /\ nt < L * PageSize
    BY <1>2, <1>4, <1>8
  <2>2. p = LastPage(b)
    BY <2>1 DEF LastPage, L
  <2> DEFINE room == nt - (L - 1) * PageSize
  <2>3. Len(page[p]) = MinOf(PageSize, room)
    BY <1>1, <2>1 DEF Covered, nt
  <2>4. L * PageSize \in Int /\ (L - 1) * PageSize = L * PageSize - PageSize
    BY <1>6
  <2>5. room \in Int /\ room < PageSize
    BY <1>6, <2>1, <2>4
  <2> HIDE DEF room
  <2>6. Len(page[p]) # PageSize
    BY <2>3, <2>5 DEF MinOf
  <2> QED
    BY <2>1, <2>2, <2>6 DEF Full
<1> QED
  BY <1>5, <1>7, <1>8 DEF PageKept

\* No step writes into a page that is full or that two places point at.
LEMMA NextKeepsPages == IInv /\ [Next]_vars => [\A p \in Pages : PageKept(p)]_vars
<1> SUFFICES ASSUME IInv, Next, NEW p \in Pages PROVE PageKept(p)
  BY DEF vars
<1>1. ASSUME NEW b \in BranchIds, Fork(b) PROVE PageKept(p)
  BY <1>1 DEF Fork, PageKept
<1>2. ASSUME NEW b \in BranchIds, Prune(b) PROVE PageKept(p)
  <2>1. page'[p] = (IF p \in Released(b) THEN <<>> ELSE page[p])
        /\ free' = free \cup Released(b)
    BY <1>2 DEF Prune
  <2> QED
    BY <2>1 DEF PageKept
<1>3. ASSUME NEW b \in BranchIds, NEW tokens \in Appends, AppendTokens(b, tokens)
      PROVE  PageKept(p)
  <2>1. tokens \in Seq(Tokens) /\ \E fresh : AppendWith(b, tokens, fresh)
    BY <1>3, AppendWrites
  <2> QED
    BY <2>1, AppendKeepsPages
<1>4. CASE DedupScan
  <2>1. page'[p] = (IF p \in Recycled THEN <<>> ELSE page[p])
        /\ free' = free \cup Recycled
    BY <1>4 DEF DedupScan
  <2> QED
    BY <2>1 DEF PageKept
<1> QED
  BY <1>1, <1>2, <1>3, <1>4 DEF Next

\* A page that is full, or that two places point at, is never written.
THEOREM SharedPagesNeverWritten == Spec => SharedPagesImmutable
<1>1. IInv /\ [Next]_vars => [\A p \in Pages :
        (Full(p) \/ refcount[p] > 1) /\ p \notin free' => page'[p] = page[p]]_vars
  BY NextKeepsPages DEF PageKept
<1> QED
  BY <1>1, Invariance, PTL DEF Spec, SharedPagesImmutable

\* After a scan two full pages in use with the same bytes are the same page.
LEMMA DedupMerges ==
  ASSUME IInv, DedupScan, NEW p \in (Pages \ free)', NEW q \in (Pages \ free)',
         Len(page'[p]) = PageSize, page'[p] = page'[q]
  PROVE  p = q
<1>1. /\ free' = free \cup Redirected
      /\ page' = [r \in Pages |-> IF r \in Redirected THEN <<>> ELSE page[r]]
  BY DedupCounts DEF DedupScan
<1>2. ASSUME NEW r \in Pages, r \notin free'
      PROVE  r \in InUse /\ Canonical(r) = r /\ page'[r] = page[r]
  <2>1. r \notin free /\ r \notin Redirected
    BY <1>1, <1>2
  <2>2. refcount[r] # 0 /\ refcount[r] = Cardinality(Occurrences(r))
    BY <2>1 DEF IInv, PagesAccounted
  <2>3. r \in InUse
    BY <2>2, FS_EmptySet DEF InUse
  <2> QED
    BY <1>1, <2>1, <2>3 DEF Redirected
<1>3. p \in Pages /\ q \in Pages /\ p \notin free' /\ q \notin free'
  BY DEF Pages
<1>4. Full(p) /\ page[q] = page[p]
  BY <1>2, <1>3 DEF Full
<1> QED
  BY <1>2, <1>3, <1>4, CanonicalLaw

\* One scan leaves no two full pages in use with the same bytes.
THEOREM DedupFindsAll == Spec => DedupComplete
<1>1. IInv /\ [Next]_vars => [DedupScan =>
        \A p, q \in (Pages \ free)' :
          Len(page'[p]) = PageSize /\ page'[p] = page'[q] => p = q]_vars
  BY DedupMerges
<1> QED
  BY <1>1, Invariance, PTL DEF Spec, DedupComplete

-----------------------------------------------------------------------------
(* TreeKV implements BranchStore: whatever pages branches share, copy or   *)
(* have merged, each branch reads back the tokens appended to it and to    *)
(* its ancestors before the fork.  Every step of TreeKV is the step of     *)
(* BranchStore of the same name, and a dedup scan is a stuttering step.    *)

\* Token m of a branch is slot o of page i of its table.
PageOf(m) == ((m - 1) \div PageSize) + 1
SlotOf(m) == ((m - 1) % PageSize) + 1

\* Page and slot of a token determine it.
LEMMA Position ==
  ASSUME NEW m \in Nat \ {0}
  PROVE  /\ PageOf(m) \in Nat \ {0}
         /\ SlotOf(m) \in 1 .. PageSize
         /\ (PageOf(m) - 1) * PageSize \in Nat
         /\ m = (PageOf(m) - 1) * PageSize + SlotOf(m)
<1> USE TreeKVAssumption
<1> DEFINE q == (m - 1) \div PageSize
           r == (m - 1) % PageSize
<1>1. m - 1 \in Nat
  OBVIOUS
<1>2. q \in Nat /\ r \in 0 .. PageSize - 1 /\ m - 1 = PageSize * q + r
  BY <1>1, DivMod
<1>3. PageOf(m) = q + 1 /\ SlotOf(m) = r + 1
  BY DEF PageOf, SlotOf
<1> HIDE DEF q, r
<1>4. (q + 1 - 1) * PageSize = PageSize * q /\ PageSize * q \in Nat
  BY <1>2
<1> QED
  BY <1>2, <1>3, <1>4

\* A token of a live branch lies in a covered slot of one of its pages.
LEMMA Covering ==
  ASSUME IInv, NEW b \in live, NEW m \in 1 .. numTokens[b]
  PROVE  /\ PageOf(m) \in DOMAIN table[b]
         /\ SlotOf(m) \in DOMAIN page[table[b][PageOf(m)]]
         /\ page[table[b][PageOf(m)]] \in Seq(Tokens)
<1> USE TreeKVAssumption
<1> DEFINE i == PageOf(m)
           o == SlotOf(m)
           base == (i - 1) * PageSize
           nt == numTokens[b]
           p == table[b][i]
<1>1. TypeOK /\ PagesAccounted /\ CoverageExact /\ Bookkeeping /\ Covered(b)
  BY DEF IInv, CoverageExact
<1>2. nt \in Nat /\ table[b] \in Seq(Pages) /\ Len(table[b]) = PagesFor(nt)
  BY <1>1 DEF TypeOK, Covered
<1>3. i \in Nat \ {0} /\ o \in 1 .. PageSize /\ base \in Nat /\ m = base + o
  BY <1>2, Position
<1>4. \A k \in Nat \ {0} : k <= PagesFor(nt) <=> (k - 1) * PageSize < nt
  BY <1>2, PagesForLaw
<1>5. base < nt
  <2> HIDE DEF i, o, base, nt
  <2> QED
    BY <1>2, <1>3 DEF nt
<1>6. i <= PagesFor(nt)
  BY <1>3, <1>4, <1>5
<1>7. i \in DOMAIN table[b]
  BY <1>2, <1>3, <1>6
<1>8. p \in Pages /\ Len(page[p]) = MinOf(PageSize, nt - base)
  BY <1>1, <1>7, InTableReferenced DEF Covered
<1>9. page[p] \in Seq(Tokens)
  BY <1>1, <1>8 DEF TypeOK
<1>10. o \in DOMAIN page[p]
  <2>1. m <= nt
    BY <1>2
  <2> HIDE DEF i, o, base, nt, p
  <2>2. o <= MinOf(PageSize, nt - base)
    BY <1>2, <1>3, <2>1 DEF MinOf
  <2> QED
    BY <1>3, <1>8, <1>9, <2>2
<1> QED
  BY <1>7, <1>9, <1>10

\* A branch reads back as many tokens as it holds; one that is gone, none.
LEMMA GatherType ==
  ASSUME IInv, NEW b \in BranchIds
  PROVE  /\ numTokens[b] \in Nat
         /\ Gather(b) \in Seq(Tokens)
         /\ Len(Gather(b)) = numTokens[b]
         /\ b \notin live => Gather(b) = <<>>
<1>1. numTokens[b] \in Nat
  BY DEF IInv, TypeOK
<1>2. Gather(b) = [m \in 1 .. numTokens[b] |-> page[table[b][PageOf(m)]][SlotOf(m)]]
  BY DEF Gather, PageOf, SlotOf
<1>3. CASE b \in live
  <2>1. \A m \in 1 .. numTokens[b] : page[table[b][PageOf(m)]][SlotOf(m)] \in Tokens
    BY <1>3, Covering
  <2> QED
    BY <1>1, <1>2, <1>3, <2>1
<1>4. CASE b \notin live
  <2>1. numTokens[b] = 0
    BY <1>4 DEF IInv, Bookkeeping
  <2> QED
    BY <1>2, <2>1
<1> QED
  BY <1>1, <1>3, <1>4

\* A branch whose places keep what they hold reads back what it read before.
LEMMA GatherSame ==
  ASSUME IInv, NEW b \in live, numTokens'[b] = numTokens[b],
         \A i \in DOMAIN table[b] : page'[table'[b][i]] = page[table[b][i]]
  PROVE  Gather(b)' = Gather(b)
<1>1. Gather(b) = [m \in 1 .. numTokens[b] |-> page[table[b][PageOf(m)]][SlotOf(m)]]
  BY DEF Gather, PageOf, SlotOf
<1>2. Gather(b)' = [m \in 1 .. numTokens[b] |-> page'[table'[b][PageOf(m)]][SlotOf(m)]]
  BY DEF Gather, PageOf, SlotOf
<1>3. \A m \in 1 .. numTokens[b] :
        page'[table'[b][PageOf(m)]][SlotOf(m)] = page[table[b][PageOf(m)]][SlotOf(m)]
  BY Covering
<1> QED
  BY <1>1, <1>2, <1>3

-----------------------------------------------------------------------------
\* The histories as a state function, to speak of its value before and after.
History == [b \in BranchIds |-> Gather(b)]

\* The empty cache is the empty store.
LEMMA InitRefines == Init => Store!Init
<1> SUFFICES ASSUME Init PROVE Store!Init
  OBVIOUS
<1>1. \A b \in BranchIds : Gather(b) = <<>>
  BY DEF Init, Gather
<1> QED
  BY <1>1 DEF Init, Store!Init, Store!BranchIds, Store!Root, BranchIds, Root

\* A fork is a fork of the store: the child reads what its source reads.
LEMMA ForkRefines ==
  ASSUME IInv, IInv', NEW b \in BranchIds, Fork(b)
  PROVE  Store!Fork(b)
<1>1. PICK new \in BranchIds : new = nextBranch
  BY DEF Fork
<1>2. TypeOK /\ Bookkeeping /\ b \in live
  BY DEF IInv, Fork
<1>3. new \notin live
  <2>1. \A c \in live : c < nextBranch /\ c \in Int
    BY <1>2 DEF Bookkeeping, TypeOK, BranchIds
  <2> QED
    BY <1>1, <2>1
<1>4. /\ table' = [table EXCEPT ![new] = table[b]]
      /\ numTokens' = [numTokens EXCEPT ![new] = numTokens[b]]
      /\ page' = page /\ live' = live \cup {new}
      /\ table \in [BranchIds -> Seq(Pages)] /\ numTokens \in [BranchIds -> Nat]
  BY <1>1, <1>2 DEF Fork, TypeOK
<1>5. ASSUME NEW c \in BranchIds, c # new
      PROVE  Gather(c)' = Gather(c)
  <2>1. table'[c] = table[c] /\ numTokens'[c] = numTokens[c]
    BY <1>4, <1>5
  <2> QED
    BY <1>4, <2>1 DEF Gather
<1>6. Gather(new)' = Gather(b)
  <2>1. table'[new] = table[b] /\ numTokens'[new] = numTokens[b]
    BY <1>1, <1>4
  <2> QED
    BY <1>4, <2>1 DEF Gather
<1>7. History' = [History EXCEPT ![new] = History[b]]
  <2>1. History' = [c \in BranchIds |-> IF c = new THEN Gather(b) ELSE Gather(c)]
    BY <1>5, <1>6 DEF History
  <2> QED
    BY <2>1 DEF History
<1> QED
  BY <1>1, <1>2, <1>7 DEF Fork, Store!Fork, Store!BranchIds, BranchIds, History

\* A prune is a prune of the store: the other branches read what they read.
LEMMA PruneRefines ==
  ASSUME IInv, IInv', NEW b \in BranchIds, Prune(b)
  PROVE  Store!Prune(b)
<1>1. /\ TypeOK /\ PagesAccounted /\ CoverageExact /\ TreeLinked /\ Bookkeeping
      /\ PagesAccounted' /\ CoverageExact' /\ TypeOK' /\ Bookkeeping'
  BY DEF IInv
<1>2. /\ b \in live /\ live' = live \ {b} /\ children[b] = {}
      /\ table' = [table EXCEPT ![b] = <<>>]
      /\ numTokens' = [numTokens EXCEPT ![b] = 0]
      /\ page' = [p \in Pages |-> IF p \in Released(b) THEN <<>> ELSE page[p]]
      /\ refcount' = PruneRefcount(b)
      /\ table \in [BranchIds -> Seq(Pages)] /\ numTokens \in [BranchIds -> Nat]
  BY <1>1 DEF Prune, TypeOK
<1>3. \A c \in live \ {b} : parent[c] # b
  BY <1>1, <1>2 DEF TreeLinked
<1>4. ASSUME NEW c \in live, c # b
      PROVE  Gather(c)' = Gather(c)
  <2>1. c \in live' /\ table'[c] = table[c] /\ numTokens'[c] = numTokens[c]
        /\ c \in BranchIds
    BY <1>1, <1>2, <1>4 DEF TypeOK
  <2>2. ASSUME NEW i \in DOMAIN table[c]
        PROVE  page'[table'[c][i]] = page[table[c][i]]
    <3>1. table[c][i] \in Pages
      BY <1>1, <2>1, InTableReferenced
    <3>2. refcount'[table[c][i]] # 0
      <4>1. Covered(c)'
        BY <1>1, <2>1 DEF CoverageExact
      <4> QED
        BY <2>1, <4>1 DEF Covered
    <3>3. table[c][i] \notin Released(b)
      BY <1>2, <3>2 DEF Released
    <3> QED
      BY <1>2, <2>1, <3>1, <3>3
  <2> QED
    BY <2>1, <2>2, GatherSame
<1>5. ASSUME NEW c \in BranchIds, c \notin live
      PROVE  Gather(c)' = Gather(c)
  <2>1. numTokens[c] = 0 /\ numTokens'[c] = 0
    BY <1>1, <1>2, <1>5 DEF Bookkeeping
  <2>2. Gather(c) = <<>>
    BY <2>1 DEF Gather
  <2>3. Gather(c)' = <<>>
    BY <2>1 DEF Gather
  <2> QED
    BY <2>2, <2>3
<1>6. Gather(b)' = <<>>
  <2>1. numTokens'[b] = 0
    BY <1>2
  <2> QED
    BY <2>1 DEF Gather
<1>7. History' = [History EXCEPT ![b] = <<>>]
  <2>1. History' = [c \in BranchIds |-> IF c = b THEN <<>> ELSE Gather(c)]
    BY <1>4, <1>5, <1>6 DEF History
  <2> QED
    BY <2>1 DEF History
<1> QED
  BY <1>2, <1>3, <1>7 DEF Prune, Store!Prune, Store!BranchIds, BranchIds, History

\* A dedup scan is a stuttering step: no branch reads anything else after it.
LEMMA DedupRefines ==
  ASSUME IInv, DedupScan
  PROVE  UNCHANGED Store!vars
<1>1. /\ TypeOK /\ PagesAccounted /\ CoverageExact /\ Bookkeeping
      /\ UNCHANGED <<live, parent, numTokens, nextBranch>>
  BY DEF IInv, DedupScan
<1>2. /\ page' = [p \in Pages |-> IF p \in Redirected THEN <<>> ELSE page[p]]
      /\ live \subseteq BranchIds
  BY <1>1, DedupCounts DEF DedupScan, TypeOK
<1>3. ASSUME NEW c \in live
      PROVE  Gather(c)' = Gather(c)
  <2>1. ASSUME NEW i \in DOMAIN table[c]
        PROVE  page'[table'[c][i]] = page[table[c][i]]
    <3> DEFINE q == table[c][i]
    <3>1. q \in InUse
      BY <1>1, InTableReferenced DEF InUse
    <3>2. table'[c][i] = Canonical(q)
      BY <1>1, <1>2 DEF DedupScan, TypeOK
    <3> HIDE DEF q
    <3>3. /\ Canonical(q) \in InUse /\ Canonical(q) \notin Redirected
          /\ page[Canonical(q)] = page[q]
      BY <3>1, CanonicalLaw DEF Redirected
    <3>4. Canonical(q) \in Pages
      BY <3>3 DEF InUse
    <3> QED
      BY <1>2, <3>2, <3>3, <3>4 DEF q
  <2> QED
    BY <1>1, <2>1, GatherSame
<1>4. ASSUME NEW c \in BranchIds, c \notin live
      PROVE  Gather(c)' = Gather(c)
  <2>1. numTokens[c] = 0 /\ numTokens'[c] = 0
    BY <1>1, <1>4 DEF Bookkeeping
  <2>2. Gather(c) = <<>>
    BY <2>1 DEF Gather
  <2>3. Gather(c)' = <<>>
    BY <2>1 DEF Gather
  <2> QED
    BY <2>2, <2>3
<1>5. History' = History
  BY <1>3, <1>4 DEF History
<1> QED
  BY <1>1, <1>5 DEF Store!vars, History

\* The concatenation of two sequences, element by element.
LEMMA Concatenation ==
  ASSUME NEW S, NEW g \in Seq(S), NEW t \in Seq(S)
  PROVE  g \o t = [m \in 1 .. Len(g) + Len(t) |->
                     IF m <= Len(g) THEN g[m] ELSE t[m - Len(g)]]
<1> DEFINE h == g \o t
           k == Len(g) + Len(t)
<1>1. h \in Seq(S) /\ Len(h) = k /\ k \in Nat
  OBVIOUS
<1>2. \A m \in 1 .. k : h[m] = IF m <= Len(g) THEN g[m] ELSE t[m - Len(g)]
  OBVIOUS
<1> HIDE DEF h
<1>3. h = [m \in 1 .. k |-> h[m]]
  BY <1>1
<1> HIDE DEF k
<1>4. h = [m \in 1 .. k |-> IF m <= Len(g) THEN g[m] ELSE t[m - Len(g)]]
  BY <1>2, <1>3
<1> QED
  BY <1>4 DEF h, k

\* An append extends the sequence of its branch and of no other.
LEMMA AppendRefines ==
  ASSUME IInv, NEW b \in BranchIds, NEW tokens \in Seq(Tokens), NEW fresh,
         AppendWith(b, tokens, fresh)
  PROVE  Store!AppendTokens(b, tokens)
<1> USE TreeKVAssumption
<1> DEFINE n == Len(tokens)
           nt == numTokens[b]
           L == Len(table[b])
           K == PagesFor(nt + n)
           grown == GrownTable(b, n, fresh)
           touched == Touched(b, n)
<1>1. /\ TypeOK /\ PagesAccounted /\ CoverageExact /\ Bookkeeping /\ Covered(b)
      /\ b \in live /\ live \subseteq BranchIds
      /\ UNCHANGED <<live, parent, nextBranch>>
      /\ numTokens' = [numTokens EXCEPT ![b] = @ + n]
      /\ table' = [table EXCEPT ![b] = grown]
  BY DEF IInv, AppendWith, WriteTokens, TypeOK
<1>2. /\ nt \in Nat /\ n \in Nat \ {0} /\ nt + n \in Nat /\ L \in Nat /\ K \in Nat
  BY AppendSizes
<1>3. /\ table'[b] = grown /\ numTokens'[b] = nt + n
      /\ \A c \in BranchIds \ {b} : table'[c] = table[c] /\ numTokens'[c] = numTokens[c]
  BY <1>1 DEF TypeOK
<1>4. /\ \A i \in touched : page'[grown[i]] = GrownPage(b, tokens, n, i)
      /\ \A i \in 1 .. K : i \notin touched =>
           i \in DOMAIN table[b] /\ grown[i] = table[b][i]
      /\ \A c \in live : \A j \in DOMAIN table[c] :
           c # b \/ j \notin touched => page'[table[c][j]] = page[table[c][j]]
  BY AppendPages
<1>5. /\ \A i \in 1 .. K : i \notin touched => i * PageSize <= nt
      /\ \A i \in touched : i >= L /\ (i # L => nt <= (i - 1) * PageSize)
  BY AppendTouches
<1>6. ASSUME NEW c \in live, c # b
      PROVE  Gather(c)' = Gather(c)
  <2>1. table'[c] = table[c] /\ numTokens'[c] = numTokens[c]
    BY <1>1, <1>3, <1>6
  <2>2. \A i \in DOMAIN table[c] : page'[table[c][i]] = page[table[c][i]]
    BY <1>4, <1>6
  <2>3. \A i \in DOMAIN table[c] : page'[table'[c][i]] = page[table[c][i]]
    BY <2>1, <2>2
  <2> QED
    BY <2>1, <2>3, GatherSame
<1>7. ASSUME NEW c \in BranchIds, c \notin live
      PROVE  Gather(c)' = Gather(c)
  <2>1. numTokens[c] = 0 /\ numTokens'[c] = 0
    BY <1>1, <1>3, <1>7 DEF Bookkeeping
  <2>2. Gather(c) = <<>>
    BY <2>1 DEF Gather
  <2>3. Gather(c)' = <<>>
    BY <2>1 DEF Gather
  <2> QED
    BY <2>2, <2>3
<1>8. Gather(b)' = [m \in 1 .. nt + n |-> page'[grown[PageOf(m)]][SlotOf(m)]]
  <2>1. \A c \in BranchIds : Gather(c)' =
          [m \in 1 .. numTokens'[c] |-> page'[table'[c][PageOf(m)]][SlotOf(m)]]
    BY DEF Gather, PageOf, SlotOf
  <2> QED
    BY <1>3, <2>1
<1>9. ASSUME NEW m \in 1 .. nt + n
      PROVE  page'[grown[PageOf(m)]][SlotOf(m)] =
               IF m <= nt THEN Gather(b)[m] ELSE tokens[m - nt]
  <2> DEFINE i == PageOf(m)
             o == SlotOf(m)
             base == (i - 1) * PageSize
  <2>1. /\ m \in Nat \ {0} /\ i \in Nat \ {0} /\ o \in 1 .. PageSize
        /\ base \in Nat /\ m = base + o
    <3>1. m \in Nat \ {0}
      BY <1>2
    <3> QED
      BY <3>1, Position
  <2>2. i \in 1 .. K
    <3>1. i <= K <=> base < nt + n
      BY <1>2, <2>1, PagesForLaw
    <3>2. base < nt + n
      <4> HIDE DEF i, o, base, nt, n
      <4> QED
        BY <1>2, <2>1
    <3> HIDE DEF i, K
    <3> QED
      BY <1>2, <2>1, <3>1, <3>2
  <2>3. m <= nt => Gather(b)[m] = page[table[b][i]][o]
    BY <1>2 DEF Gather, PageOf, SlotOf
  <2> HIDE DEF i, o
  <2>4. CASE i \notin touched
    <3>1. m <= nt
      <4>1. i * PageSize = base + PageSize /\ i * PageSize <= nt
        BY <1>5, <2>1, <2>2, <2>4
      <4> HIDE DEF base
      <4> QED
        BY <1>2, <2>1, <4>1
    <3>2. page'[grown[i]] = page[table[b][i]]
      BY <1>1, <1>4, <2>2, <2>4
    <3> QED
      BY <2>3, <3>1, <3>2 DEF i, o
  <2>5. CASE i \in touched
    <3> DEFINE kept == IF i = L THEN page[LastPage(b)] ELSE <<>>
               length == MinOf(PageSize, nt + n - base)
    <3>1. page'[grown[i]] = [s \in 1 .. length |->
            IF s <= Len(kept) THEN kept[s] ELSE tokens[base + s - nt]]
      BY <1>4, <2>5 DEF GrownPage
    <3>2. /\ Len(kept) \in Int
          /\ i = L => Len(kept) = MinOf(PageSize, nt - base)
                      /\ kept = page[table[b][i]]
          /\ i # L => Len(kept) = 0 /\ nt <= base
      <4>1. CASE i = L
        <5>1. L \in DOMAIN table[b]
          BY <1>2, <2>1, <4>1, AppendSizes
        <5>2. LastPage(b) = table[b][L] /\ LastPage(b) \in Pages
          BY <1>1, <5>1, InTableReferenced DEF LastPage
        <5>3. Len(page[LastPage(b)]) = MinOf(PageSize, nt - base)
          BY <1>1, <4>1, <5>1, <5>2 DEF Covered
        <5>4. page[LastPage(b)] \in Seq(Tokens)
          BY <1>1, <5>2 DEF TypeOK
        <5> QED
          BY <4>1, <5>2, <5>3, <5>4
      <4>2. CASE i # L
        BY <1>5, <2>5, <4>2
      <4> QED
        BY <4>1, <4>2
    <3> HIDE DEF kept, base, nt, n, L
    <3>3. o \in 1 .. length
      BY <1>2, <2>1 DEF MinOf
    <3> HIDE DEF length
    <3>4. page'[grown[i]][o] = IF o <= Len(kept) THEN kept[o] ELSE tokens[base + o - nt]
      BY <3>1, <3>3
    <3>5. CASE o <= Len(kept)
      <4>1. i = L /\ m <= nt
        BY <1>2, <2>1, <3>2, <3>5 DEF MinOf
      <4> QED
        BY <2>3, <3>2, <3>4, <3>5, <4>1 DEF i, o
    <3>6. CASE ~(o <= Len(kept))
      <4>1. ~(m <= nt) /\ base + o - nt = m - nt
        BY <1>2, <2>1, <3>2, <3>6 DEF MinOf
      <4> QED
        BY <3>4, <3>6, <4>1 DEF i, o
    <3> QED
      BY <3>5, <3>6
  <2> QED
    BY <2>4, <2>5
<1>10. Gather(b)' = Gather(b) \o tokens
  <2>1. Gather(b) \in Seq(Tokens) /\ Len(Gather(b)) = nt
    BY GatherType
  <2>2. Gather(b)' = [m \in 1 .. nt + n |->
                        IF m <= nt THEN Gather(b)[m] ELSE tokens[m - nt]]
    BY <1>8, <1>9
  <2> DEFINE g == Gather(b)
  <2>3. g \o tokens = [m \in 1 .. nt + n |-> IF m <= nt THEN g[m] ELSE tokens[m - nt]]
    <3>1. g \in Seq(Tokens) /\ Len(g) = nt /\ Len(tokens) = n
      BY <2>1
    <3> HIDE DEF g, nt, n
    <3>2. g \o tokens = [m \in 1 .. Len(g) + Len(tokens) |->
                           IF m <= Len(g) THEN g[m] ELSE tokens[m - Len(g)]]
      BY <3>1, Concatenation
    <3> QED
      BY <3>1, <3>2, Zenon
  <2> QED
    BY <2>2, <2>3
<1>11. History' = [History EXCEPT ![b] = @ \o tokens]
  <2>1. History' = [c \in BranchIds |-> IF c = b THEN Gather(b) \o tokens ELSE Gather(c)]
    BY <1>6, <1>7, <1>10 DEF History
  <2> QED
    BY <2>1 DEF History
<1> QED
  BY <1>1, <1>11 DEF Store!AppendTokens, Store!BranchIds, BranchIds, History

-----------------------------------------------------------------------------
\* Every step of the cache is a step of the store, or leaves it as it is.
LEMMA NextRefines == IInv /\ IInv' /\ [Next]_vars => [Store!Next]_(Store!vars)
<1> SUFFICES ASSUME IInv, IInv', [Next]_vars PROVE [Store!Next]_(Store!vars)
  OBVIOUS
<1>1. ASSUME NEW b \in BranchIds, Fork(b) PROVE Store!Next
  BY <1>1, ForkRefines DEF Store!Next, Store!BranchIds, BranchIds
<1>2. ASSUME NEW b \in BranchIds, Prune(b) PROVE Store!Next
  BY <1>2, PruneRefines DEF Store!Next, Store!BranchIds, BranchIds
<1>3. ASSUME NEW b \in BranchIds, NEW tokens \in Appends, AppendTokens(b, tokens)
      PROVE  Store!Next
  <2>1. tokens \in Seq(Tokens) /\ \E fresh : AppendWith(b, tokens, fresh)
    BY <1>3, AppendWrites
  <2>2. Store!AppendTokens(b, tokens)
    BY <2>1, AppendRefines
  <2> QED
    BY <2>2 DEF Store!Next, Store!BranchIds, BranchIds, Store!Appends, Appends
<1>4. CASE DedupScan
  BY <1>4, DedupRefines
<1>5. CASE UNCHANGED vars
  BY <1>5 DEF vars, Store!vars, Gather
<1> QED
  BY <1>1, <1>2, <1>3, <1>4, <1>5 DEF Next

\* The paged, shared and deduplicated cache implements the store of
\* independent token sequences.
THEOREM Refinement == Spec => ImplementsStore
<1>1. Init => Store!Init
  BY InitRefines
<1>2. IInv /\ IInv' /\ [Next]_vars => [Store!Next]_(Store!vars)
  BY NextRefines
<1> QED
  BY <1>1, <1>2, Invariance, PTL DEF Spec, ImplementsStore, Store!Spec
=============================================================================
