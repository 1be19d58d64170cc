----------------------------- MODULE BenchProofs ------------------------------
(***************************************************************************)
(* Proofs about Bench, for every number of cells, tasks, samples, threads  *)
(* and processes started, wherever the process is killed: what a results   *)
(* file and an artifact contain, and what a resumed run asks for again.    *)
(*                                                                         *)
(* A sample has one place in the list (ListOfSamples), in the pool (Apart) *)
(* and in what was journalled (Resuming), so that at the end the samples   *)
(* are the expected ones, each once; sorted, the samples of a task are     *)
(* those of index 0, 1, ..., and the metrics count what they should        *)
(* (MetricsCount).                                                         *)
(***************************************************************************)
EXTENDS Bench, SharedLemmas, SequenceTheorems, TLAPS

Journalled == INSTANCE SharedLemmas WITH Op <- Recovered

-----------------------------------------------------------------------------
(* The list of samples.                                                    *)

Places == DOMAIN Specifications

Spots == [cell : 0 .. Cells - 1, task : 0 .. Tasks - 1, index : 0 .. KSamples - 1]

Spot(c, t, i) == [cell |-> c, task |-> t, index |-> i]

\* The place of a sample in the list.
PlaceFor(c, t, i) == KSamples * (Tasks * c + t) + i + 1

LEMMA Sizes ==
  /\ Cells \in Nat \ {0} /\ Tasks \in Nat \ {0} /\ KSamples \in Nat \ {0}
  /\ Tasks * KSamples \in Nat \ {0} /\ Cells * Tasks \in Nat \ {0}
  /\ Cells * Tasks * KSamples \in Nat \ {0}
  /\ Places = 1 .. Cells * Tasks * KSamples
<1>1. Cells \in Nat \ {0} /\ Tasks \in Nat \ {0} /\ KSamples \in Nat \ {0}
  BY BenchAssumption
<1>2. Tasks * KSamples \in Nat \ {0} /\ Cells * Tasks \in Nat \ {0}
  BY <1>1
<1>3. Cells * Tasks * KSamples \in Nat \ {0}
  BY <1>1, <1>2
<1>4. Places = 1 .. Cells * Tasks * KSamples
  BY DEF Places, Specifications
<1> QED
  BY <1>1, <1>2, <1>3, <1>4

LEMMA SpotAtPlace ==
  ASSUME NEW c \in 0 .. Cells - 1, NEW t \in 0 .. Tasks - 1, NEW i \in 0 .. KSamples - 1
  PROVE  /\ PlaceFor(c, t, i) \in Places
         /\ Specifications[PlaceFor(c, t, i)] = Spot(c, t, i)
<1> DEFINE q == Tasks * c + t
           m == KSamples * q + i
<1>1. /\ c \in Nat /\ t \in Nat /\ i \in Nat /\ c \in Int /\ t \in Int
      /\ c < Cells /\ t < Tasks /\ i < KSamples
  BY Sizes
<1>2. q \in Nat
  BY <1>1, Sizes
<1>3. q < Cells * Tasks
  <2>1. Tasks * c + Tasks <= Tasks * Cells
    BY <1>1, Sizes, MulMono
  <2>2. Tasks * Cells = Cells * Tasks /\ Tasks * c \in Nat /\ Tasks * Cells \in Nat
    BY <1>1, Sizes
  <2> QED
    BY <1>1, <2>1, <2>2, Sizes
<1>4. m \in Nat
  <2> HIDE DEF q
  <2> QED
    BY <1>1, <1>2, Sizes
<1>5. m < Cells * Tasks * KSamples
  <2> HIDE DEF q
  <2>1. KSamples * q + KSamples <= KSamples * (Cells * Tasks)
    <3>1. q \in Int /\ Cells * Tasks \in Int
      BY <1>2, Sizes
    <3> QED
      BY <1>3, <3>1, Sizes, MulMono
  <2>2. KSamples * (Cells * Tasks) = Cells * Tasks * KSamples
    BY Sizes
  <2>3. KSamples * q \in Nat
    BY <1>2, Sizes
  <2> QED
    BY <1>1, <2>1, <2>2, <2>3, Sizes
<1>6. PlaceFor(c, t, i) = m + 1 /\ m + 1 \in Places
  BY <1>4, <1>5, Sizes DEF PlaceFor
<1>7. q = m \div KSamples /\ i = m % KSamples
  <2> HIDE DEF q
  <2>1. m = KSamples * q + i
    OBVIOUS
  <2> HIDE DEF m
  <2> QED
    BY <1>2, <1>4, <2>1, Sizes, DivUnique
<1>8. t = q % Tasks
  <2>1. q = Tasks * c + t
    OBVIOUS
  <2> HIDE DEF q
  <2> QED
    BY <1>1, <1>2, <2>1, Sizes, DivUnique
<1>9. c = m \div (Tasks * KSamples)
  <2> DEFINE r == KSamples * t + i
  <2>1. KSamples * t + KSamples <= KSamples * Tasks
    BY <1>1, Sizes, MulMono
  <2>2. KSamples * Tasks = Tasks * KSamples /\ KSamples * t \in Nat
    BY <1>1, Sizes
  <2>3. r \in 0 .. Tasks * KSamples - 1
    BY <1>1, <2>1, <2>2, Sizes
  <2>4. m = (Tasks * KSamples) * c + r
    <3>1. KSamples * (Tasks * c + t) = KSamples * (Tasks * c) + KSamples * t
      BY <1>1, Sizes
    <3>2. KSamples * (Tasks * c) = (Tasks * KSamples) * c
      BY <1>1, Sizes
    <3>3. (Tasks * KSamples) * c \in Nat
      BY <1>1, Sizes
    <3> QED
      BY <1>1, <2>2, <3>1, <3>2, <3>3
  <2> HIDE DEF r, m
  <2> QED
    BY <1>1, <1>4, <2>3, <2>4, Sizes, DivUnique
<1>10. Specifications[m + 1] =
         [cell |-> m \div (Tasks * KSamples), task |-> (m \div KSamples) % Tasks,
          index |-> m % KSamples]
  <2>1. m + 1 \in Places
    BY <1>6
  <2>2. \A n \in Places :
          Specifications[n] =
            [cell |-> (n - 1) \div (Tasks * KSamples),
             task |-> ((n - 1) \div KSamples) % Tasks, index |-> (n - 1) % KSamples]
    BY Sizes, Zenon DEF Specifications
  <2> DEFINE p == m + 1
  <2>3. p \in Places /\ p - 1 = m
    <3> HIDE DEF m
    <3> QED
      BY <1>4, <2>1
  <2> HIDE DEF p
  <2>4. Specifications[p] =
          [cell |-> (p - 1) \div (Tasks * KSamples),
           task |-> ((p - 1) \div KSamples) % Tasks, index |-> (p - 1) % KSamples]
    BY <2>2, <2>3, Zenon
  <2> HIDE DEF m
  <2>5. Specifications[p] =
          [cell |-> m \div (Tasks * KSamples), task |-> (m \div KSamples) % Tasks,
           index |-> m % KSamples]
    BY <2>3, <2>4, Zenon
  <2> QED
    BY <2>5, Zenon DEF p
<1> HIDE DEF m, q
<1>11. Specifications[m + 1] = Spot(c, t, i)
  BY <1>7, <1>8, <1>9, <1>10, Zenon DEF Spot
<1> QED
  BY <1>6, <1>11, Zenon

LEMMA PlaceHasSpot ==
  ASSUME NEW n \in Places
  PROVE  \E c \in 0 .. Cells - 1 : \E t \in 0 .. Tasks - 1 : \E i \in 0 .. KSamples - 1 :
           n = PlaceFor(c, t, i)
<1> DEFINE m == n - 1
           q == m \div KSamples
           i == m % KSamples
           c == q \div Tasks
           t == q % Tasks
<1>1. m \in Nat /\ m < Cells * Tasks * KSamples /\ n = m + 1
  BY Sizes
<1>2. q \in Nat /\ i \in 0 .. KSamples - 1 /\ m = KSamples * q + i
  <2> HIDE DEF m
  <2> QED
    BY <1>1, Sizes, DivMod
<1>3. c \in Nat /\ t \in 0 .. Tasks - 1 /\ q = Tasks * c + t
  <2> HIDE DEF q
  <2> QED
    BY <1>2, Sizes, DivMod
<1> HIDE DEF m, q, i, c, t
<1>4. q < Cells * Tasks
  <2> SUFFICES ASSUME ~(q < Cells * Tasks) PROVE FALSE
    OBVIOUS
  <2>1. Cells * Tasks < q \/ Cells * Tasks = q
    BY <1>2, Sizes
  <2>2. KSamples * (Cells * Tasks) <= KSamples * q
    <3>1. CASE Cells * Tasks = q
      BY <1>2, <3>1, Sizes
    <3>2. CASE Cells * Tasks < q
      <4>1. q \in Int /\ Cells * Tasks \in Int
        BY <1>2, Sizes
      <4>2. KSamples * (Cells * Tasks) + KSamples <= KSamples * q
        BY <3>2, <4>1, Sizes, MulMono
      <4>3. KSamples * (Cells * Tasks) \in Nat /\ KSamples * q \in Nat
        BY <1>2, Sizes
      <4> QED
        BY <4>2, <4>3, Sizes
    <3> QED
      BY <2>1, <3>1, <3>2
  <2>3. KSamples * (Cells * Tasks) = Cells * Tasks * KSamples
    BY Sizes
  <2>4. KSamples * q \in Nat
    BY <1>2, Sizes
  <2> QED
    BY <1>1, <1>2, <2>2, <2>3, <2>4, Sizes
<1>5. c < Cells
  <2> SUFFICES ASSUME ~(c < Cells) PROVE FALSE
    OBVIOUS
  <2>1. Cells < c \/ Cells = c
    BY <1>3, Sizes
  <2>2. Tasks * Cells <= Tasks * c
    <3>1. CASE Cells = c
      BY <1>3, <3>1, Sizes
    <3>2. CASE Cells < c
      <4>1. Tasks * Cells + Tasks <= Tasks * c
        BY <1>3, <3>2, Sizes, MulMono
      <4>2. Tasks * Cells \in Nat /\ Tasks * c \in Nat
        BY <1>3, Sizes
      <4> QED
        BY <4>1, <4>2, Sizes
    <3> QED
      BY <2>1, <3>1, <3>2
  <2>3. Tasks * Cells = Cells * Tasks /\ Tasks * c \in Nat
    BY <1>3, Sizes
  <2> QED
    BY <1>2, <1>3, <1>4, <2>2, <2>3, Sizes
<1>6. c \in 0 .. Cells - 1
  BY <1>3, <1>5, Sizes
<1>7. n = PlaceFor(c, t, i)
  BY <1>1, <1>2, <1>3 DEF PlaceFor
<1> QED
  BY <1>2, <1>3, <1>6, <1>7

\* The list has every sample once.
LEMMA ListOfSamples ==
  /\ Range(Specifications) = Spots
  /\ \A n \in Places : Specifications[n] \in Spots
  /\ \A m, n \in Places : Specifications[m] = Specifications[n] => m = n
  /\ \A s \in Spots : \E n \in Places : Specifications[n] = s
<1>1. \A n \in Places : \E s \in Spots :
         /\ Specifications[n] = s /\ n = PlaceFor(s.cell, s.task, s.index)
  <2> TAKE n \in Places
  <2>1. PICK c \in 0 .. Cells - 1 : \E t \in 0 .. Tasks - 1 : \E i \in 0 .. KSamples - 1 :
           n = PlaceFor(c, t, i)
    BY PlaceHasSpot
  <2>2. PICK t \in 0 .. Tasks - 1 : \E i \in 0 .. KSamples - 1 : n = PlaceFor(c, t, i)
    BY <2>1
  <2>3. PICK i \in 0 .. KSamples - 1 : n = PlaceFor(c, t, i)
    BY <2>2
  <2>4. Specifications[n] = Spot(c, t, i)
    BY <2>3, SpotAtPlace
  <2>5. /\ Spot(c, t, i) \in Spots
        /\ Spot(c, t, i).cell = c /\ Spot(c, t, i).task = t /\ Spot(c, t, i).index = i
    BY DEF Spot, Spots
  <2>6. n = PlaceFor(Spot(c, t, i).cell, Spot(c, t, i).task, Spot(c, t, i).index)
    BY <2>3, <2>5
  <2> QED
    BY <2>4, <2>5, <2>6
<1>2. \A s \in Spots : \E n \in Places : Specifications[n] = s
  <2> TAKE s \in Spots
  <2>1. /\ s.cell \in 0 .. Cells - 1 /\ s.task \in 0 .. Tasks - 1
        /\ s.index \in 0 .. KSamples - 1
        /\ s = Spot(s.cell, s.task, s.index)
    BY DEF Spot, Spots
  <2>2. /\ PlaceFor(s.cell, s.task, s.index) \in Places
        /\ Specifications[PlaceFor(s.cell, s.task, s.index)] = Spot(s.cell, s.task, s.index)
    BY <2>1, SpotAtPlace
  <2> QED
    BY <2>1, <2>2
<1>3. \A n \in Places : Specifications[n] \in Spots
  BY <1>1
<1>4. \A m, n \in Places : Specifications[m] = Specifications[n] => m = n
  BY <1>1
<1>5. Range(Specifications) = Spots
  BY <1>2, <1>3, Zenon DEF Range, Places
<1> QED
  BY <1>2, <1>3, <1>4, <1>5

-----------------------------------------------------------------------------
(* What the journal gives back.                                            *)

Samples(C) == [spec : Spots, config : C, correct : BOOLEAN]

Entries == [sample : Samples(Configs), whole : BOOLEAN]

Lines == [records : Seq(Entries), ended : BOOLEAN]

\* A list of samples without two of one key.
OneOfEach(samples) ==
  \A m, n \in DOMAIN samples : samples[m].spec = samples[n].spec => m = n

LEMMA RecordedLines ==
  ASSUME NEW lines \in Seq(Lines)
  PROVE  /\ Recorded(lines) =
              {lines[n].records[1].sample : n \in {m \in DOMAIN lines : Parses(lines[m])}}
         /\ Recorded(lines) \subseteq Samples(Configs)
<1>1. \A s : s \in Recorded(lines)
              <=> \E n \in DOMAIN lines : Parses(lines[n]) /\ s = lines[n].records[1].sample
  BY DEF Recorded, Range
<1>2. \A n \in DOMAIN lines : Parses(lines[n]) => lines[n].records[1].sample \in Samples(Configs)
  <2> TAKE n \in DOMAIN lines
  <2> HAVE Parses(lines[n])
  <2>1. lines[n] \in Lines
    OBVIOUS
  <2>2. lines[n].records \in Seq(Entries) /\ Len(lines[n].records) = 1
    BY <2>1 DEF Lines, Parses
  <2>3. lines[n].records[1] \in Entries
    BY <2>2
  <2> QED
    BY <2>3 DEF Entries
<1> QED
  BY <1>1, <1>2

\* The lists of samples that reading the lines passes through.
LEMMA ReadingSteps ==
  ASSUME NEW lines, NEW n \in Nat, DOMAIN lines = 1 .. n
  PROVE  \E v : /\ v[0] = <<>>
                /\ \A i \in 1 .. n : v[i] = Recovered(v[i - 1], lines[i])
                /\ Resumed(lines) = v[n]
<1>1. Resumed(lines) = Journalled!Result(<<>>, lines)
  BY DEF Resumed, FoldLeft, MapThenFoldSet, Max, Journalled!Result, Journalled!FoldLeft,
         Journalled!MapThenFoldSet, Journalled!Max
<1> QED
  BY <1>1, Journalled!FoldSteps

\* PartialStore.load reads every record, each once.
LEMMA ReadBack ==
  ASSUME NEW lines \in Seq(Lines)
  PROVE  /\ Resumed(lines) \in Seq(Samples(Configs))
         /\ Range(Resumed(lines)) = Recorded(lines)
         /\ \A i, j \in DOMAIN Resumed(lines) :
              Resumed(lines)[i] = Resumed(lines)[j] => i = j
<1> DEFINE n == Len(lines)
           read(k) == {lines[i].records[1].sample : i \in {m \in 1 .. k : Parses(lines[m])}}
           Good(q, k) == /\ q \in Seq(Samples(Configs))
                         /\ Range(q) = read(k)
                         /\ \A i, j \in DOMAIN q : q[i] = q[j] => i = j
<1>1. n \in Nat /\ DOMAIN lines = 1 .. n
  OBVIOUS
<1>2. PICK v : /\ v[0] = <<>>
               /\ \A i \in 1 .. n : v[i] = Recovered(v[i - 1], lines[i])
               /\ Resumed(lines) = v[n]
  <2> HIDE DEF n
  <2> QED
    BY <1>1, ReadingSteps
<1>3. Good(v[0], 0)
  BY <1>2 DEF Range
<1>4. ASSUME NEW k \in 0 .. n - 1, Good(v[k], k)
      PROVE  Good(v[k + 1], k + 1)
  <2>1. /\ k + 1 \in 1 .. n /\ k + 1 - 1 = k /\ 1 .. k + 1 = 1 .. k \cup {k + 1}
        /\ k + 1 \in DOMAIN lines
    BY <1>1
  <2>2. v[k + 1] = Recovered(v[k], lines[k + 1])
    BY <1>2, <2>1
  <2>3. CASE ~Parses(lines[k + 1])
    <3>1. v[k + 1] = v[k]
      BY <2>2, <2>3 DEF Recovered
    <3>2. read(k + 1) = read(k)
      BY <2>1, <2>3
    <3> QED
      BY <1>4, <3>1, <3>2
  <2>4. CASE Parses(lines[k + 1])
    <3> DEFINE s == lines[k + 1].records[1].sample
    <3>1. read(k + 1) = read(k) \cup {s}
      BY <2>1, <2>4
    <3>2. s \in Samples(Configs)
      <4>1. s \in Recorded(lines)
        BY <2>1, <2>4, RecordedLines
      <4> QED
        BY <4>1, RecordedLines
    <3>3. v[k + 1] = IF Contains(v[k], s) THEN v[k] ELSE Append(v[k], s)
      BY <2>2, <2>4 DEF Recovered
    <3>4. Contains(v[k], s) <=> s \in Range(v[k])
      <4>1. DOMAIN v[k] = 1 .. Len(v[k])
        BY <1>4
      <4> QED
        BY <4>1, Zenon DEF Contains, Range
    <3> HIDE DEF s, read
    <3>5. CASE s \in Range(v[k])
      <4>1. v[k + 1] = v[k] /\ read(k + 1) = read(k)
        BY <1>4, <3>1, <3>3, <3>4, <3>5
      <4> QED
        BY <1>4, <4>1
    <3>6. CASE s \notin Range(v[k])
      <4>1. v[k + 1] = Append(v[k], s)
        BY <3>3, <3>4, <3>6
      <4>2. v[k] \in Seq(Samples(Configs)) /\ \A i \in 1 .. Len(v[k]) : v[k][i] # s
        BY <1>4, <3>6 DEF Range
      <4>3. /\ v[k + 1] \in Seq(Samples(Configs)) /\ DOMAIN v[k + 1] = 1 .. Len(v[k]) + 1
            /\ Len(v[k]) \in Nat /\ DOMAIN v[k] = 1 .. Len(v[k])
            /\ v[k + 1][Len(v[k]) + 1] = s
            /\ \A i \in 1 .. Len(v[k]) : v[k + 1][i] = v[k][i]
        BY <3>2, <4>1, <4>2
      <4>4. Range(v[k + 1]) = Range(v[k]) \cup {s}
        <5>1. \A i : i \in 1 .. Len(v[k]) + 1 <=> i \in 1 .. Len(v[k]) \/ i = Len(v[k]) + 1
          BY <4>3
        <5> QED
          BY <4>3, <5>1 DEF Range
      <4>5. \A i, j \in DOMAIN v[k + 1] : v[k + 1][i] = v[k + 1][j] => i = j
        <5>1. \A i \in DOMAIN v[k + 1] : i \in 1 .. Len(v[k]) \/ i = Len(v[k]) + 1
          BY <4>3
        <5> QED
          BY <1>4, <4>2, <4>3, <5>1
      <4> QED
        BY <1>4, <3>1, <4>3, <4>4, <4>5
    <3> QED
      BY <3>5, <3>6
  <2> QED
    BY <2>3, <2>4
<1> DEFINE Reached == {k \in 0 .. n : Good(v[k], k)}
<1>5. n \in Reached
  <2>1. 0 \in Reached
    BY <1>1, <1>3
  <2>2. \A i \in 0 .. n - 1 : i \in Reached => i + 1 \in Reached
    <3> HIDE DEF Good, n
    <3>1. \A i \in 0 .. n - 1 : i + 1 \in 0 .. n
      BY <1>1
    <3> QED
      BY <1>4, <3>1
  <2>3. 0 .. n \subseteq Reached
    <3> HIDE DEF Reached, n
    <3> QED
      BY <1>1, <2>1, <2>2, IntervalInduction
  <2> HIDE DEF Reached
  <2> QED
    BY <1>1, <2>3
<1>7. Good(v[n], n)
  <2> HIDE DEF Good
  <2> QED
    BY <1>5
<1>8. read(n) = Recorded(lines)
  BY <1>1, RecordedLines
<1> HIDE DEF read, n
<1> QED
  BY <1>2, <1>7, <1>8

-----------------------------------------------------------------------------
(* Sorting.                                                                *)

LEMMA EarlierIsStrict ==
  ASSUME NEW samples, NEW N \in Nat, NEW C, NEW D \in SUBSET (1 .. N),
         \A i \in 1 .. N : samples[i] \in Samples(C),
         NEW R, \A i, j \in D : <<i, j>> \in R <=> Earlier(samples, i, j)
  PROVE  StrictOrder(R, D)
<1> DEFINE c(i) == samples[i].spec.cell
           t(i) == samples[i].spec.task
           x(i) == samples[i].spec.index
<1>1. \A i \in D : c(i) \in Int /\ t(i) \in Int /\ x(i) \in Int /\ i \in Int
  <2> TAKE i \in D
  <2>1. samples[i].spec \in Spots /\ i \in 1 .. N
    BY DEF Samples
  <2>2. /\ samples[i].spec.cell \in 0 .. Cells - 1 /\ samples[i].spec.task \in 0 .. Tasks - 1
        /\ samples[i].spec.index \in 0 .. KSamples - 1
    BY <2>1 DEF Spots
  <2> QED
    BY <2>1, <2>2
<1> DEFINE before(i, j) == \/ c(i) < c(j)
                           \/ c(i) = c(j) /\ t(i) < t(j)
                           \/ c(i) = c(j) /\ t(i) = t(j) /\ x(i) < x(j)
<1>2. \A i, j \in D : <<i, j>> \in R <=> before(i, j) \/ (~before(j, i) /\ i < j)
  BY DEF Earlier, Before
<1> HIDE DEF c, t, x
<1>3. \A i \in D : <<i, i>> \notin R
  BY <1>1, <1>2
<1>4. \A i, j \in D : i # j => <<i, j>> \in R \/ <<j, i>> \in R
  BY <1>1, <1>2
<1>5. \A i, j, k \in D : <<i, j>> \in R /\ <<j, k>> \in R => <<i, k>> \in R
  <2> TAKE i, j, k \in D
  <2>1. /\ c(i) \in Int /\ t(i) \in Int /\ x(i) \in Int /\ i \in Int
        /\ c(j) \in Int /\ t(j) \in Int /\ x(j) \in Int /\ j \in Int
        /\ c(k) \in Int /\ t(k) \in Int /\ x(k) \in Int /\ k \in Int
    BY <1>1
  <2>2. (before(i, j) \/ (~before(j, i) /\ i < j)) /\ (before(j, k) \/ (~before(k, j) /\ j < k))
        => before(i, k) \/ (~before(k, i) /\ i < k)
    BY <2>1
  <2> QED
    BY <1>2, <2>2
<1> QED
  BY <1>3, <1>4, <1>5 DEF StrictOrder

\* p lists the places D in the order of their samples.
ListsOfCell(p, samples, D) ==
  /\ Cardinality(D) \in Nat
  /\ \A n \in 1 .. Cardinality(D) : p[n] \in D /\ Sorted(samples, D)[n] = samples[p[n]]
  /\ \A i \in D : \E n \in 1 .. Cardinality(D) : p[n] = i
  /\ \A m, n \in 1 .. Cardinality(D) : m < n => Earlier(samples, p[m], p[n])

LEMMA SortedPlaces ==
  ASSUME NEW samples, NEW N \in Nat, NEW C, NEW D \in SUBSET (1 .. N),
         \A i \in 1 .. N : samples[i] \in Samples(C)
  PROVE  \E p : ListsOfCell(p, samples, D)
<1> DEFINE R == {pair \in D \X D : Earlier(samples, pair[1], pair[2])}
<1>1. \A i, j \in D : <<i, j>> \in R <=> Earlier(samples, i, j)
  OBVIOUS
<1> HIDE DEF R
<1>2. \A i \in D : Below(R, D, i) = {j \in D : Earlier(samples, j, i)}
  BY <1>1 DEF Below
<1>3. StrictOrder(R, D)
  BY <1>1, EarlierIsStrict
<1>4. IsFiniteSet(D)
  <2>1. 1 \in Int /\ N \in Int
    OBVIOUS
  <2> QED
    BY <2>1, FS_Interval, FS_Subset
<1>5. PICK p : Ordered(p, R, D)
  BY <1>3, <1>4, InOrder
<1>6. ASSUME NEW n \in 1 .. Cardinality(D)
      PROVE  p[n] \in D /\ Sorted(samples, D)[n] = samples[p[n]]
  <2>1. Sorted(samples, D)[n]
        = samples[CHOOSE i \in D : Cardinality({j \in D : Earlier(samples, j, i)}) = n - 1]
    BY Zenon DEF Sorted
  <2>2. (CHOOSE i \in D : Cardinality({j \in D : Earlier(samples, j, i)}) = n - 1)
        = CHOOSE i \in D : Cardinality(Below(R, D, i)) = n - 1
    BY <1>2, Zenon
  <2>3. p[n] \in D /\ p[n] = CHOOSE i \in D : Cardinality(Below(R, D, i)) = n - 1
    BY <1>5, Zenon DEF Ordered
  <2> QED
    BY <2>1, <2>2, <2>3, Zenon
<1>7. \A m, n \in 1 .. Cardinality(D) : m < n => Earlier(samples, p[m], p[n])
  BY <1>1, <1>5, <1>6 DEF Ordered
<1>8. Cardinality(D) \in Nat /\ \A i \in D : \E n \in 1 .. Cardinality(D) : p[n] = i
  BY <1>5 DEF Ordered
<1>9. ListsOfCell(p, samples, D)
  BY <1>6, <1>7, <1>8 DEF ListsOfCell
<1> QED
  BY <1>9

\* Of samples of different keys the sorted ones are in strict order.
LEMMA SortedSamples ==
  ASSUME NEW C, NEW samples \in Seq(Samples(C)), OneOfEach(samples),
         NEW D \in SUBSET DOMAIN samples
  PROVE  /\ Cardinality(D) \in Nat
         /\ DOMAIN Sorted(samples, D) = 1 .. Cardinality(D)
         /\ Sorted(samples, D) \in Seq(Samples(C))
         /\ Range(Sorted(samples, D)) = {samples[i] : i \in D}
         /\ \A m, n \in 1 .. Cardinality(D) :
              m < n => Before(Sorted(samples, D)[m], Sorted(samples, D)[n])
<1> DEFINE N == Len(samples)
           q == Sorted(samples, D)
           M == Cardinality(D)
<1>1. N \in Nat /\ D \in SUBSET (1 .. N) /\ \A i \in 1 .. N : samples[i] \in Samples(C)
  OBVIOUS
<1>2. PICK p : ListsOfCell(p, samples, D)
  <2> HIDE DEF N
  <2> QED
    BY <1>1, SortedPlaces
<1>3. DOMAIN q = 1 .. M
  BY DEF Sorted
<1>4. M \in Nat /\ \A n \in 1 .. M : p[n] \in D /\ q[n] = samples[p[n]]
  BY <1>2 DEF ListsOfCell
<1>5. \A n \in 1 .. M : q[n] \in Samples(C)
  BY <1>1, <1>4
<1>6. q \in Seq(Samples(C))
  <2>1. q = [n \in 1 .. M |-> q[n]]
    BY <1>3 DEF Sorted
  <2> HIDE DEF q, M
  <2> QED
    BY <1>4, <1>5, <2>1
<1>7. \A s : s \in Range(q) <=> \E i \in D : s = samples[i]
  <2>1. \A i \in D : \E n \in 1 .. M : p[n] = i
    BY <1>2 DEF ListsOfCell
  <2> HIDE DEF q, M
  <2>2. \A s : s \in Range(q) <=> \E n \in 1 .. M : s = q[n]
    BY <1>3, Zenon DEF Range
  <2> QED
    BY <1>4, <2>1, <2>2
<1>8. ASSUME NEW m \in 1 .. M, NEW n \in 1 .. M, m < n PROVE Before(q[m], q[n])
  <2>1. Earlier(samples, p[m], p[n])
    BY <1>2, <1>8 DEF ListsOfCell
  <2> DEFINE i == p[m]
             j == p[n]
  <2>2. i \in D /\ j \in D /\ q[m] = samples[i] /\ q[n] = samples[j]
    BY <1>4
  <2> HIDE DEF q, M
  <2>3. CASE Before(samples[i], samples[j])
    BY <2>2, <2>3
  <2>4. CASE ~Before(samples[i], samples[j])
    <3>1. ~Before(samples[j], samples[i]) /\ i < j
      BY <2>1, <2>4 DEF Earlier
    <3> HIDE DEF i, j
    <3>2. samples[i].spec \in Spots /\ samples[j].spec \in Spots /\ i # j
          /\ i \in DOMAIN samples /\ j \in DOMAIN samples
      BY <1>1, <2>2, <3>1 DEF Samples
    <3> DEFINE a == samples[i].spec
               b == samples[j].spec
    <3>3. a # b
      BY <3>2 DEF OneOfEach
    <3>4. /\ ~(a.cell < b.cell) /\ ~(b.cell < a.cell)
          /\ a.cell = b.cell => ~(a.task < b.task) /\ ~(b.task < a.task)
          /\ a.cell = b.cell /\ a.task = b.task => ~(a.index < b.index) /\ ~(b.index < a.index)
      BY <2>4, <3>1 DEF Before
    <3>5. a \in Spots /\ b \in Spots
      BY <3>2
    <3> HIDE DEF a, b
    <3>6. /\ a.cell \in Int /\ a.task \in Int /\ a.index \in Int
          /\ b.cell \in Int /\ b.task \in Int /\ b.index \in Int
      BY <3>5 DEF Spots
    <3>7. a.cell = b.cell
      BY <3>4, <3>6
    <3>8. a.task = b.task
      BY <3>4, <3>6, <3>7
    <3>9. a.index = b.index
      BY <3>4, <3>6, <3>7, <3>8
    <3> QED
      BY <3>3, <3>5, <3>7, <3>8, <3>9 DEF Spots
  <2> QED
    BY <2>3, <2>4
<1> HIDE DEF q, M
<1>9. Range(q) = {samples[i] : i \in D}
  BY <1>7
<1> QED
  BY <1>3, <1>4, <1>6, <1>8, <1>9 DEF q, M

-----------------------------------------------------------------------------
(* The metrics of a cell.                                                  *)

\* An increasing list of all the numbers less than K.
ListsBelow(g, N, K) ==
  /\ \A n \in 1 .. N : g[n] \in 0 .. K - 1
  /\ \A m, n \in 1 .. N : m < n => g[m] < g[n]
  /\ \A i \in 0 .. K - 1 : \E n \in 1 .. N : g[n] = i

LEMMA IncreasingOnto ==
  ASSUME NEW N \in Nat, NEW K \in Nat, NEW g, ListsBelow(g, N, K)
  PROVE  N = K /\ \A n \in 1 .. N : g[n] = n - 1
<1> USE DEF ListsBelow
<1> DEFINE T == {i \in 0 .. K : i <= N /\ \A n \in 1 .. i : g[n] = n - 1}
<1>1. 0 \in T
  OBVIOUS
<1>2. \A i \in 0 .. K - 1 : i \in T => i + 1 \in T
  <2> SUFFICES ASSUME NEW i \in 0 .. K - 1, i \in T PROVE i + 1 \in T
    OBVIOUS
  <2>1. i <= N /\ (\A n \in 1 .. i : g[n] = n - 1) /\ i \in Nat /\ i + 1 \in 0 .. K
    OBVIOUS
  <2>2. PICK m \in 1 .. N : g[m] = i
    OBVIOUS
  <2>3. m > i
    <3> SUFFICES ASSUME m <= i PROVE FALSE
      BY <2>1
    <3>1. m \in 1 .. i
      BY <2>1
    <3>2. g[m] = m - 1
      BY <2>1, <3>1
    <3> QED
      BY <2>1, <2>2, <3>1, <3>2
  <2>4. m = i + 1
    <3> SUFFICES ASSUME m > i + 1 PROVE FALSE
      BY <2>1, <2>3
    <3>1. i + 1 \in 1 .. N /\ i + 1 < m
      BY <2>1
    <3>2. g[i + 1] < i /\ g[i + 1] \in 0 .. K - 1
      BY <2>2, <3>1
    <3>3. i # 0 /\ i \in 1 .. i /\ i \in 1 .. N
      BY <2>1, <3>2
    <3>4. g[i] = i - 1
      BY <2>1, <3>3
    <3>5. i < i + 1
      BY <2>1
    <3>6. g[i] < g[i + 1]
      BY <3>1, <3>3, <3>5
    <3> QED
      BY <2>1, <3>2, <3>4, <3>6
  <2>5. i + 1 <= N /\ g[i + 1] = i
    BY <2>1, <2>2, <2>4
  <2>6. \A n \in 1 .. i + 1 : n \in 1 .. i \/ n = i + 1
    BY <2>1
  <2>7. \A n \in 1 .. i + 1 : g[n] = n - 1
    <3> TAKE n \in 1 .. i + 1
    <3>1. CASE n \in 1 .. i
      BY <2>1, <3>1
    <3>2. CASE n = i + 1
      BY <2>1, <2>5, <3>2
    <3> QED
      BY <2>6, <3>1, <3>2
  <2> QED
    BY <2>1, <2>5, <2>7
<1>3. K \in T
  <2>1. 0 .. K \subseteq T
    <3> HIDE DEF T
    <3> QED
      BY <1>1, <1>2, IntervalInduction
  <2>2. K \in 0 .. K
    OBVIOUS
  <2> HIDE DEF T
  <2> QED
    BY <2>1, <2>2
<1>4. K <= N /\ \A n \in 1 .. K : g[n] = n - 1
  BY <1>3
<1>5. N = K
  <2> SUFFICES ASSUME K < N PROVE FALSE
    BY <1>4
  <2>1. K + 1 \in 1 .. N
    OBVIOUS
  <2>2. g[K + 1] \in 0 .. K - 1
    BY <2>1
  <2>3. K \in 1 .. K /\ K \in 1 .. N /\ K < K + 1
    BY <2>2
  <2>4. g[K] = K - 1 /\ g[K] < g[K + 1]
    BY <1>4, <2>1, <2>3
  <2> QED
    BY <2>2, <2>4
<1> QED
  BY <1>4, <1>5

\* All the samples of a run, each once.
Whole(samples) ==
  /\ OneOfEach(samples)
  /\ \A i \in DOMAIN samples : samples[i].spec \in Spots
  /\ \A s \in Spots : \E i \in DOMAIN samples : samples[i].spec = s

Group(samples, cell, task) ==
  Sorted(samples, {i \in OfCell(samples, cell) : samples[i].spec.task = task})

\* The samples of a task in a cell, in order of their index.
Grouped(q, samples, cell, task) ==
  /\ DOMAIN q = 1 .. KSamples
  /\ \A n \in 1 .. KSamples :
       q[n] \in Range(samples) /\ q[n].spec = Spot(cell, task, n - 1)

LEMMA GroupOfTask ==
  ASSUME NEW C, NEW samples \in Seq(Samples(C)), Whole(samples),
         NEW cell \in 0 .. Cells - 1, NEW task \in 0 .. Tasks - 1
  PROVE  Grouped(Group(samples, cell, task), samples, cell, task)
<1> DEFINE D == {i \in OfCell(samples, cell) : samples[i].spec.task = task}
           q == Group(samples, cell, task)
           N == Cardinality(D)
           g == [n \in 1 .. N |-> q[n].spec.index]
<1>1. q = Sorted(samples, D) /\ D \in SUBSET DOMAIN samples /\ OneOfEach(samples)
  BY DEF Group, OfCell, Whole
<1>2. \A i \in D : samples[i].spec.cell = cell /\ samples[i].spec.task = task
  BY DEF OfCell
<1>3. \A i \in DOMAIN samples :
         samples[i].spec.cell = cell /\ samples[i].spec.task = task => i \in D
  BY DEF OfCell
<1> HIDE DEF D, q
<1>4. /\ N \in Nat
      /\ DOMAIN q = 1 .. N
      /\ Range(q) = {samples[i] : i \in D}
      /\ \A m, n \in 1 .. N : m < n => Before(q[m], q[n])
  BY <1>1, SortedSamples
<1>5. \A n \in 1 .. N : \E i \in D : q[n] = samples[i]
  <2>1. \A n \in 1 .. N : q[n] \in Range(q)
    BY <1>4 DEF Range
  <2> QED
    BY <1>4, <2>1
<1>6. \A n \in 1 .. N : /\ q[n] \in Range(samples) /\ q[n].spec \in Spots
                        /\ q[n].spec.cell = cell /\ q[n].spec.task = task
  <2> TAKE n \in 1 .. N
  <2>1. PICK i \in D : q[n] = samples[i]
    BY <1>5
  <2>2. i \in DOMAIN samples
    BY <1>1
  <2> QED
    BY <1>2, <2>1, <2>2 DEF Range, Whole
<1>7. \A n \in 1 .. N : g[n] = q[n].spec.index
  OBVIOUS
<1> HIDE DEF g, N
<1>8. \A n \in 1 .. N : g[n] \in 0 .. KSamples - 1
  BY <1>6, <1>7 DEF Spots
<1>9. \A m, n \in 1 .. N : m < n => g[m] < g[n]
  <2> TAKE m, n \in 1 .. N
  <2> HAVE m < n
  <2>1. Before(q[m], q[n])
    BY <1>4
  <2>2. cell \in Int /\ task \in Int
    OBVIOUS
  <2>3. /\ q[m].spec.cell = cell /\ q[m].spec.task = task
        /\ q[n].spec.cell = cell /\ q[n].spec.task = task
    BY <1>6
  <2>4. q[m].spec.index < q[n].spec.index
    BY <2>1, <2>2, <2>3 DEF Before
  <2> QED
    BY <1>7, <2>4
<1>10. \A i \in 0 .. KSamples - 1 : \E n \in 1 .. N : g[n] = i
  <2> TAKE i \in 0 .. KSamples - 1
  <2>1. /\ Spot(cell, task, i) \in Spots /\ Spot(cell, task, i).index = i
        /\ Spot(cell, task, i).cell = cell /\ Spot(cell, task, i).task = task
    BY DEF Spot, Spots
  <2>2. PICK j \in DOMAIN samples : samples[j].spec = Spot(cell, task, i)
    BY <2>1 DEF Whole
  <2>3. j \in D
    BY <1>3, <2>1, <2>2
  <2>4. samples[j] \in Range(q)
    BY <1>4, <2>3
  <2>5. PICK n \in 1 .. N : q[n] = samples[j]
    BY <1>4, <2>4, Zenon DEF Range
  <2> QED
    BY <1>7, <2>1, <2>2, <2>5
<1>11. N = KSamples /\ \A n \in 1 .. N : g[n] = n - 1
  <2>1. N \in Nat /\ KSamples \in Nat
    BY <1>4, Sizes DEF N
  <2>2. ListsBelow(g, N, KSamples)
    BY <1>8, <1>9, <1>10 DEF ListsBelow
  <2> QED
    BY <2>1, <2>2, IncreasingOnto
<1>12. \A n \in 1 .. N : q[n].spec = Spot(cell, task, n - 1)
  <2> TAKE n \in 1 .. N
  <2>1. q[n].spec = Spot(q[n].spec.cell, q[n].spec.task, q[n].spec.index)
    BY <1>6 DEF Spot, Spots
  <2> QED
    BY <1>6, <1>7, <1>11, <2>1
<1>13. Grouped(q, samples, cell, task)
  BY <1>4, <1>6, <1>11, <1>12 DEF Grouped, N
<1> QED
  BY <1>13 DEF q

LEMMA FirstOnes ==
  ASSUME NEW S, NEW o \in Seq(S), NEW k \in 1 .. Len(o)
  PROVE  \A b : b \in Range(SubSeq(o, 1, k)) <=> \E n \in 1 .. k : b = o[n]
<1>1. k \in Nat /\ DOMAIN SubSeq(o, 1, k) = 1 .. k /\ \A n \in 1 .. k : SubSeq(o, 1, k)[n] = o[n]
  OBVIOUS
<1> QED
  BY <1>1, Zenon DEF Range

\* What the metrics ask of a task, in terms of the samples of its list.
LEMMA PassedInGroup ==
  ASSUME NEW C, NEW samples \in Seq(Samples(C)), Whole(samples),
         NEW doc, Range(doc.samples) = Range(samples),
         NEW cell \in 0 .. Cells - 1, NEW task \in 0 .. Tasks - 1, NEW i \in 0 .. KSamples - 1
  PROVE  Passed(doc, cell, task, i) <=> TRUE = Group(samples, cell, task)[i + 1].correct
<1> DEFINE q == Group(samples, cell, task)
<1>1. Grouped(q, samples, cell, task)
  BY GroupOfTask
<1> HIDE DEF q
<1>2. i + 1 \in 1 .. KSamples /\ i + 1 - 1 = i
  BY Sizes
<1> DEFINE s == q[i + 1]
<1>3. s \in Range(samples) /\ s.spec = Spot(cell, task, i)
  BY <1>1, <1>2 DEF Grouped
<1> HIDE DEF s
<1>4. \A r \in Range(samples) : r \in Samples(C)
  BY DEF Range
<1>5. \A r \in Range(samples) : r.spec = Spot(cell, task, i) => r = s
  BY <1>3 DEF Range, Whole, OneOfEach
<1>6. s.correct \in BOOLEAN
  BY <1>3, <1>4 DEF Samples
<1>7. Passed(doc, cell, task, i)
      <=> \E r \in Range(samples) : r.spec = Spot(cell, task, i) /\ r.correct
  BY Zenon DEF Passed, Spot
<1>8. Passed(doc, cell, task, i) <=> s.correct
  BY <1>3, <1>5, <1>7, Zenon
<1>9. Passed(doc, cell, task, i) <=> TRUE = s.correct
  BY <1>6, <1>8, Zenon
<1> QED
  BY <1>9 DEF s, q

\* accuracy_at_k and pass_power_k count the tasks they are meant to count.
LEMMA MetricsCount ==
  ASSUME NEW C, NEW samples \in Seq(Samples(C)), Whole(samples),
         NEW doc, Range(doc.samples) = Range(samples),
         NEW cell \in 0 .. Cells - 1, NEW k \in 1 .. KSamples
  PROVE  /\ AccuracyAt(samples, OfCell(samples, cell), k) = Cardinality(SolvedAt(doc, cell, k))
         /\ PassPower(samples, OfCell(samples, cell), k) = Cardinality(PassedAll(doc, cell, k))
<1> DEFINE D == OfCell(samples, cell)
           q(task) == Group(samples, cell, task)
           o(task) == Outcomes(samples, D, task)
           first(task) == Range(SubSeq(o(task), 1, k))
<1>1. TasksOf(samples, D) = 0 .. Tasks - 1
  <2>1. \A i \in D : samples[i].spec.task \in 0 .. Tasks - 1
    BY DEF OfCell, Whole, Spots
  <2>2. ASSUME NEW t \in 0 .. Tasks - 1 PROVE \E i \in D : samples[i].spec.task = t
    <3>1. 0 \in 0 .. KSamples - 1
      BY Sizes
    <3>2. /\ Spot(cell, t, 0) \in Spots
          /\ Spot(cell, t, 0).cell = cell /\ Spot(cell, t, 0).task = t
      BY <3>1 DEF Spot, Spots
    <3> QED
      BY <3>2 DEF Whole, OfCell
  <2> HIDE DEF D
  <2> QED
    BY <2>1, <2>2 DEF TasksOf
<1>0. \A r \in Range(samples) : r.correct \in BOOLEAN
  <2>1. \A r \in Range(samples) : r \in Samples(C)
    BY DEF Range
  <2> QED
    BY <2>1 DEF Samples
<1>2. ASSUME NEW task \in 0 .. Tasks - 1
      PROVE  \A b : b \in first(task) <=> \E n \in 1 .. k : b = q(task)[n].correct
  <2>1. Grouped(q(task), samples, cell, task)
    BY GroupOfTask
  <2>2. o(task) = [n \in DOMAIN q(task) |-> q(task)[n].correct]
    BY Zenon DEF Outcomes, Group
  <2> HIDE DEF q, o
  <2>3. \A n \in 1 .. KSamples : q(task)[n].correct \in BOOLEAN
    BY <1>0, <2>1, Zenon DEF Grouped
  <2>4. DOMAIN q(task) = 1 .. KSamples
    BY <2>1 DEF Grouped
  <2>5. o(task) = [n \in 1 .. KSamples |-> q(task)[n].correct]
    BY <2>2, <2>4, Zenon
  <2>6. KSamples \in Nat
    BY Sizes
  <2>7. o(task) \in Seq(BOOLEAN) /\ Len(o(task)) = KSamples
    BY <2>3, <2>5, <2>6
  <2>8. \A b : b \in first(task) <=> \E n \in 1 .. k : b = o(task)[n]
    BY <2>7, FirstOnes
  <2>9. \A n \in 1 .. k : o(task)[n] = q(task)[n].correct
    BY <2>5, <2>6
  <2> HIDE DEF first
  <2> QED
    BY <2>8, <2>9, Zenon
<1>3. ASSUME NEW task \in 0 .. Tasks - 1, NEW n \in 1 .. k
      PROVE  Passed(doc, cell, task, n - 1) <=> TRUE = q(task)[n].correct
  <2>1. n - 1 \in 0 .. KSamples - 1 /\ n - 1 + 1 = n
    BY Sizes
  <2>2. \A i \in 0 .. KSamples - 1 :
          Passed(doc, cell, task, i) <=> TRUE = q(task)[i + 1].correct
    BY PassedInGroup
  <2> HIDE DEF q
  <2>3. Passed(doc, cell, task, n - 1) <=> TRUE = q(task)[n - 1 + 1].correct
    BY <2>1, <2>2, Zenon
  <2> QED
    BY <2>1, <2>3, Zenon
<1>4. ASSUME NEW task \in 0 .. Tasks - 1, NEW n \in 1 .. k
      PROVE  q(task)[n].correct \in BOOLEAN
  <2>1. Grouped(q(task), samples, cell, task)
    BY GroupOfTask
  <2>2. n \in 1 .. KSamples
    BY Sizes
  <2> HIDE DEF q
  <2>3. q(task)[n] \in Range(samples)
    BY <2>1, <2>2 DEF Grouped
  <2> QED
    BY <1>0, <2>3, Zenon
<1> HIDE DEF q, first
<1>5. ASSUME NEW task \in 0 .. Tasks - 1
      PROVE  /\ TRUE \in first(task) <=> \E i \in 0 .. k - 1 : Passed(doc, cell, task, i)
             /\ FALSE \notin first(task) <=> \A i \in 0 .. k - 1 : Passed(doc, cell, task, i)
  <2>1. TRUE \in first(task) <=> \E n \in 1 .. k : Passed(doc, cell, task, n - 1)
    BY <1>2, <1>3, Zenon
  <2>0. \A n \in 1 .. k : FALSE = q(task)[n].correct <=> ~Passed(doc, cell, task, n - 1)
    <3> TAKE n \in 1 .. k
    <3>1. Passed(doc, cell, task, n - 1) <=> TRUE = q(task)[n].correct
      BY <1>3
    <3>2. q(task)[n].correct \in BOOLEAN
      BY <1>4
    <3> QED
      BY <3>1, <3>2, Zenon
  <2>2. FALSE \in first(task) <=> \E n \in 1 .. k : ~Passed(doc, cell, task, n - 1)
    BY <1>2, <2>0, Zenon
  <2>3. \A i \in 0 .. k - 1 : \E n \in 1 .. k : i = n - 1
    <3> TAKE i \in 0 .. k - 1
    <3> WITNESS i + 1 \in 1 .. k
    <3> QED
      OBVIOUS
  <2>4. \A n \in 1 .. k : n - 1 \in 0 .. k - 1
    OBVIOUS
  <2> QED
    BY <2>1, <2>2, <2>3, <2>4, Zenon
<1>6. {task \in TasksOf(samples, D) : TRUE \in first(task)} = SolvedAt(doc, cell, k)
  BY <1>1, <1>5, Zenon DEF SolvedAt
<1>7. {task \in TasksOf(samples, D) : FALSE \notin first(task)} = PassedAll(doc, cell, k)
  BY <1>1, <1>5, Zenon DEF PassedAll
<1> QED
  BY <1>6, <1>7, Zenon DEF AccuracyAt, PassPower, first

-----------------------------------------------------------------------------
(* The results document.                                                   *)

LEMMA AsManySamples ==
  ASSUME NEW C, NEW samples \in Seq(Samples(C)), Whole(samples)
  PROVE  Len(samples) = Len(Specifications)
<1> DEFINE N == Len(samples)
           M == Cells * Tasks * KSamples
           f == [i \in 1 .. N |-> samples[i].spec]
           g == [n \in 1 .. M |-> Specifications[n]]
<1>1. N \in Nat /\ DOMAIN samples = 1 .. N
  OBVIOUS
<1>2. M \in Nat /\ Places = 1 .. M
  BY Sizes
<1>3. Len(Specifications) = M
  <2>1. DOMAIN Specifications = 1 .. M
    BY <1>2 DEF Places
  <2> HIDE DEF M
  <2>2. Specifications = [n \in 1 .. M |-> Specifications[n]]
    BY <2>1, Zenon DEF Specifications
  <2> QED
    BY <1>2, <2>1, <2>2
<1>4. f \in Bijection(1 .. N, Spots)
  <2>1. \A i \in 1 .. N : f[i] = samples[i].spec
    OBVIOUS
  <2>2. f \in [1 .. N -> Spots]
    BY <1>1 DEF Whole
  <2> HIDE DEF f, N
  <2>3. \A i, j \in 1 .. N : f[i] = f[j] => i = j
    BY <1>1, <2>1 DEF Whole, OneOfEach
  <2>4. \A s \in Spots : \E i \in 1 .. N : f[i] = s
    BY <1>1, <2>1 DEF Whole
  <2> QED
    BY <2>2, <2>3, <2>4 DEF Bijection, Injection, Surjection, IsInjective
<1>5. g \in Bijection(1 .. M, Spots)
  <2> HIDE DEF M
  <2>1. \A n \in 1 .. M : g[n] = Specifications[n]
    OBVIOUS
  <2>2. \A n \in 1 .. M : Specifications[n] \in Spots
    BY <1>2, ListOfSamples
  <2>3. g \in [1 .. M -> Spots]
    BY <2>2
  <2> HIDE DEF g
  <2>4. \A i, j \in 1 .. M : g[i] = g[j] => i = j
    BY <1>2, <2>1, ListOfSamples
  <2>5. \A s \in Spots : \E i \in 1 .. M : g[i] = s
    BY <1>2, <2>1, ListOfSamples
  <2> QED
    BY <2>3, <2>4, <2>5 DEF Bijection, Injection, Surjection, IsInjective
<1> HIDE DEF f, g, N, M
<1>6. /\ IsFiniteSet(1 .. N) /\ Cardinality(1 .. N) = N
      /\ IsFiniteSet(1 .. M) /\ Cardinality(1 .. M) = M
  <2>1. 1 \in Int /\ N \in Int /\ M \in Int
    BY <1>1, <1>2
  <2> QED
    BY <1>1, <1>2, <2>1, FS_Interval
<1>7. Cardinality(Spots) = N /\ Cardinality(Spots) = M
  BY <1>4, <1>5, <1>6, FS_Bijection DEF ExistsBijection
<1> QED
  BY <1>3, <1>7 DEF N

\* What ResultsReproducible and OneConfiguration say of a document.
Reproducible(doc) ==
  /\ Len(doc.samples) = Len(Specifications)
  /\ {s.spec : s \in Range(doc.samples)} = Range(Specifications)
  /\ \A n \in 2 .. Len(doc.samples) : Before(doc.samples[n - 1], doc.samples[n])
  /\ \A cell \in 0 .. Cells - 1, k \in 1 .. KSamples :
       /\ doc.metrics[cell].accuracy[k] = Cardinality(SolvedAt(doc, cell, k))
       /\ doc.metrics[cell].pass[k] = Cardinality(PassedAll(doc, cell, k))

OfOneRun(doc) == \A s \in Range(doc.samples) : s.config = doc.config

LEMMA DocumentIsGood ==
  ASSUME NEW C, NEW samples \in Seq(Samples(C)), Whole(samples),
         NEW c, \A i \in DOMAIN samples : samples[i].config = c
  PROVE  Reproducible(Document(samples, c)) /\ OfOneRun(Document(samples, c))
<1> DEFINE doc == Document(samples, c)
           D == DOMAIN samples
           q == Sorted(samples, D)
           N == Len(samples)
<1>1. /\ doc.samples = q /\ doc.config = c
      /\ \A cell \in 0 .. Cells - 1 :
           doc.metrics[cell] = MetricSet(samples, OfCell(samples, cell))
  BY Zenon DEF Document
<1>2. N \in Nat /\ D = 1 .. N /\ D \in SUBSET DOMAIN samples /\ OneOfEach(samples)
  BY DEF Whole
<1>3. Cardinality(D) = N
  <2> HIDE DEF D, N
  <2>1. 1 \in Int /\ N \in Int
    BY <1>2
  <2> QED
    BY <1>2, <2>1, FS_Interval
<1>4. /\ DOMAIN q = 1 .. N
      /\ q \in Seq(Samples(C))
      /\ Range(q) = {samples[i] : i \in D}
      /\ \A m, n \in 1 .. N : m < n => Before(q[m], q[n])
  <2> HIDE DEF D, N
  <2>1. /\ DOMAIN Sorted(samples, D) = 1 .. Cardinality(D)
        /\ Sorted(samples, D) \in Seq(Samples(C))
        /\ Range(Sorted(samples, D)) = {samples[i] : i \in D}
        /\ \A m, n \in 1 .. Cardinality(D) :
             m < n => Before(Sorted(samples, D)[m], Sorted(samples, D)[n])
    BY <1>2, SortedSamples
  <2> QED
    BY <1>3, <2>1
<1> HIDE DEF doc, q
<1>5. Range(doc.samples) = Range(samples)
  BY <1>1, <1>4 DEF Range
<1>6. Len(doc.samples) = N
  BY <1>1, <1>2, <1>4
<1>7. Len(doc.samples) = Len(Specifications)
  BY <1>6, AsManySamples
<1>8. {s.spec : s \in Range(doc.samples)} = Range(Specifications)
  <2>1. \A x : x \in {s.spec : s \in Range(samples)} <=> \E i \in D : x = samples[i].spec
    BY DEF Range
  <2>2. \A x : x \in Spots <=> \E i \in D : x = samples[i].spec
    BY DEF Whole
  <2>3. Range(Specifications) = Spots
    BY ListOfSamples
  <2>4. {s.spec : s \in Range(samples)} = Spots
    BY <2>1, <2>2
  <2> QED
    BY <1>5, <2>3, <2>4
<1>9. \A n \in 2 .. Len(doc.samples) : Before(doc.samples[n - 1], doc.samples[n])
  <2> TAKE n \in 2 .. Len(doc.samples)
  <2>1. n - 1 \in 1 .. N /\ n \in 1 .. N /\ n - 1 < n
    BY <1>2, <1>6
  <2> QED
    BY <1>1, <1>4, <2>1
<1>10. ASSUME NEW cell \in 0 .. Cells - 1, NEW k \in 1 .. KSamples
       PROVE  /\ doc.metrics[cell].accuracy[k] = Cardinality(SolvedAt(doc, cell, k))
              /\ doc.metrics[cell].pass[k] = Cardinality(PassedAll(doc, cell, k))
  <2>1. /\ MetricSet(samples, OfCell(samples, cell)).accuracy[k]
             = AccuracyAt(samples, OfCell(samples, cell), k)
        /\ MetricSet(samples, OfCell(samples, cell)).pass[k]
             = PassPower(samples, OfCell(samples, cell), k)
    BY Zenon DEF MetricSet
  <2>2. /\ AccuracyAt(samples, OfCell(samples, cell), k) = Cardinality(SolvedAt(doc, cell, k))
        /\ PassPower(samples, OfCell(samples, cell), k) = Cardinality(PassedAll(doc, cell, k))
    BY <1>5, MetricsCount
  <2>3. doc.metrics[cell] = MetricSet(samples, OfCell(samples, cell))
    BY <1>1
  <2> QED
    BY <2>1, <2>2, <2>3, Zenon
<1>11. OfOneRun(doc)
  BY <1>1, <1>5 DEF OfOneRun, Range
<1>12. Reproducible(doc)
  BY <1>7, <1>8, <1>9, <1>10, Zenon DEF Reproducible
<1> QED
  BY <1>11, <1>12 DEF doc

-----------------------------------------------------------------------------
(* The invariant.                                                          *)

Futures == [spec : Spots, answer : Answers]

BenchTypeOK ==
  /\ todo \in SUBSET Places /\ executing \in SUBSET Spots /\ ready \in SUBSET Futures
  /\ completed \in Seq(Samples(Configs))
  /\ journal \in Seq(Lines)

\* Nothing of a process is left once it is gone.
Gone ==
  pc \notin Up =>
    /\ todo = {} /\ executing = {} /\ ready = {}
    /\ completed = <<>> /\ ordered = <<>>

\* A sample is in one place of the pool.
Apart ==
  pc = "running" =>
    /\ \A n \in todo : Specifications[n] \notin executing
    /\ \A n \in todo : \A f \in ready : f.spec # Specifications[n]
    /\ \A f \in ready : f.spec \notin executing
    /\ \A f, g \in ready : f.spec = g.spec => f = g

Asked == {Specifications[n] : n \in todo} \cup executing \cup {f.spec : f \in ready}

\* run_benchmark has what the journal has, of its own configuration, and asks
\* for what it does not have.
Resuming ==
  mode = "benchmark" /\ pc \in {"running", "writing", "clearing"} =>
    /\ OneOfEach(completed)
    /\ config \in Configs
    /\ \A i \in DOMAIN completed : completed[i].config = config
    /\ pc = "running" => Recorded(journal) \subseteq Range(completed)
    /\ pc = "running" => \A i \in DOMAIN completed : completed[i].spec \notin Asked

Completed ==
  pc = "writing" => mode = "benchmark" /\ Whole(completed)

\* Every place of run_harness's list is filled in or asked for.
Filling ==
  mode = "harness" /\ pc = "running" =>
    /\ \A n \in Places : n \in DOMAIN ordered \/ Specifications[n] \in Asked
    /\ \A n \in DOMAIN ordered : n \in Places /\ ordered[n].spec = Specifications[n]

Outputs == ResultsReproducible /\ OneConfiguration /\ ArtifactInOrder

BenchInv ==
  BenchTypeOK /\ Gone /\ Apart /\ Resuming /\ Completed /\ Filling /\ Outputs

\* What a write leaves to be read back.
LEMMA WrittenLines ==
  ASSUME NEW lines \in Seq(Lines), NEW record \in Entries, NEW newline \in BOOLEAN
  PROVE  /\ Written(lines, record, newline) \in Seq(Lines)
         /\ Recorded(Written(lines, record, newline)) \subseteq Recorded(lines) \cup {record.sample}
<1> DEFINE w == Written(lines, record, newline)
           N == Len(lines)
<1>1. N \in Nat /\ DOMAIN lines = 1 .. N /\ \A n \in 1 .. N : lines[n] \in Lines
  OBVIOUS
<1>2. CASE lines # <<>> /\ ~Last(lines).ended
  <2> DEFINE old == lines[N]
             new == [records |-> Append(old.records, record), ended |-> newline]
  <2>1. N \in 1 .. N /\ old \in Lines
    BY <1>1, <1>2
  <2>2. w = Append(SubSeq(lines, 1, N - 1), new)
    BY <1>2, Zenon DEF Written, Front, Last
  <2>3. old.records \in Seq(Entries)
    BY <2>1 DEF Lines
  <2>4. new \in Lines
    BY <2>3 DEF Lines
  <2>5. /\ SubSeq(lines, 1, N - 1) \in Seq(Lines) /\ Len(SubSeq(lines, 1, N - 1)) = N - 1
        /\ \A n \in 1 .. N - 1 : SubSeq(lines, 1, N - 1)[n] = lines[n]
    BY <1>1, <2>1
  <2> HIDE DEF new
  <2>6. /\ w \in Seq(Lines) /\ DOMAIN w = 1 .. N /\ w[N] = new
        /\ \A n \in 1 .. N - 1 : w[n] = lines[n]
    <3> DEFINE front == SubSeq(lines, 1, N - 1)
    <3>1. w = Append(front, new) /\ N \in 1 .. N /\ N \in Nat
      BY <1>1, <2>1, <2>2
    <3>2. /\ front \in Seq(Lines) /\ Len(front) = N - 1
          /\ \A n \in 1 .. N - 1 : front[n] = lines[n]
      BY <2>5
    <3> HIDE DEF front, w, N
    <3>3. /\ Append(front, new) \in Seq(Lines) /\ Len(Append(front, new)) = N
          /\ Append(front, new)[N] = new
          /\ \A n \in 1 .. N - 1 : Append(front, new)[n] = front[n]
      BY <2>4, <3>1, <3>2
    <3> QED
      BY <3>1, <3>2, <3>3
  <2>7. Parses(new) => new.records[1].sample = record.sample
    <3> SUFFICES ASSUME Parses(new) PROVE new.records[1] = record
      OBVIOUS
    <3>1. new.records = Append(old.records, record) /\ Len(new.records) = 1
      BY DEF Parses, new
    <3> HIDE DEF old
    <3>2. Len(old.records) = 0
      BY <2>3, <3>1
    <3> QED
      BY <2>3, <3>1, <3>2
  <2> HIDE DEF w, N, old
  <2>8. \A n \in 1 .. N : n \in 1 .. N - 1 \/ n = N
    BY <1>1
  <2>9. \A n \in 1 .. N - 1 : n \in DOMAIN lines
    BY <1>1
  <2>10. ASSUME NEW s \in Recorded(w) PROVE s \in Recorded(lines) \cup {record.sample}
    <3>1. PICK n \in DOMAIN w : Parses(w[n]) /\ s = w[n].records[1].sample
      BY <2>6, RecordedLines
    <3>2. CASE n = N
      BY <2>6, <2>7, <3>1, <3>2
    <3>3. CASE n \in 1 .. N - 1
      <4>1. Parses(lines[n]) /\ s = lines[n].records[1].sample /\ n \in DOMAIN lines
        BY <2>6, <2>9, <3>1, <3>3
      <4> QED
        BY <4>1, RecordedLines
    <3> QED
      BY <2>6, <2>8, <3>1, <3>2, <3>3
  <2> QED
    BY <2>6, <2>10 DEF w
<1>3. CASE ~(lines # <<>> /\ ~Last(lines).ended)
  <2> DEFINE new == [records |-> <<record>>, ended |-> newline]
  <2>1. w = Append(lines, new)
    BY <1>3, Zenon DEF Written
  <2>2. new \in Lines /\ new.records[1].sample = record.sample
    BY DEF Lines
  <2> HIDE DEF new
  <2>3. /\ w \in Seq(Lines) /\ DOMAIN w = 1 .. N + 1 /\ w[N + 1] = new
        /\ \A n \in 1 .. N : w[n] = lines[n]
    BY <1>1, <2>1, <2>2
  <2> HIDE DEF w, N
  <2>4. \A n \in 1 .. N + 1 : n \in 1 .. N \/ n = N + 1
    BY <1>1
  <2>5. ASSUME NEW s \in Recorded(w) PROVE s \in Recorded(lines) \cup {record.sample}
    <3>1. PICK n \in DOMAIN w : Parses(w[n]) /\ s = w[n].records[1].sample
      BY <2>3, RecordedLines
    <3>2. CASE n = N + 1
      BY <2>2, <2>3, <3>1, <3>2
    <3>3. CASE n \in 1 .. N
      <4>1. Parses(lines[n]) /\ s = lines[n].records[1].sample /\ n \in DOMAIN lines
        BY <1>1, <2>3, <3>1, <3>3
      <4> QED
        BY <4>1, RecordedLines
    <3> QED
      BY <2>3, <2>4, <3>1, <3>2, <3>3
  <2> QED
    BY <2>3, <2>5 DEF w
<1> QED
  BY <1>2, <1>3

-----------------------------------------------------------------------------
(* Every step keeps the invariant.                                         *)

LEMMA BenchStart == Init => BenchInv
<1> SUFFICES ASSUME Init PROVE BenchInv
  OBVIOUS
<1>1. pc = "never ran" /\ mode = "none"
  BY DEF Init
<1>2. /\ todo = {} /\ executing = {} /\ ready = {} /\ completed = <<>> /\ ordered = <<>>
      /\ journal = <<>>
  BY DEF Init
<1>0. BenchTypeOK /\ Gone
  BY <1>2 DEF BenchTypeOK, Gone
<1>3. Apart /\ Resuming /\ Completed /\ Filling
  BY <1>1 DEF Apart, Resuming, Completed, Filling
<1>4. results = {} /\ artifact = <<>>
  BY DEF Init
<1>5. Outputs
  BY <1>4 DEF Outputs, ResultsReproducible, OneConfiguration, ArtifactInOrder
<1> QED
  BY <1>0, <1>3, <1>5 DEF BenchInv

\* What is on disk of the last process stays.
LEMMA OutputsStay ==
  ASSUME Outputs, UNCHANGED <<results, artifact>>
  PROVE  Outputs'
BY DEF Outputs, ResultsReproducible, OneConfiguration, ArtifactInOrder, Passed, SolvedAt,
       PassedAll

\* A process that is gone, or that does not run any more, has nothing to keep.
LEMMA EndKeeps ==
  ASSUME BenchInv, NEW how, how \notin Up, ProcessEnds(how), journal' \in Seq(Lines),
         Outputs'
  PROVE  BenchInv'
<1>1. /\ pc' = how /\ mode' = "none" /\ todo' = {} /\ executing' = {} /\ ready' = {}
      /\ completed' = <<>> /\ ordered' = <<>>
  BY DEF ProcessEnds
<1>2. BenchTypeOK'
  BY <1>1 DEF BenchTypeOK
<1>3. Gone'
  BY <1>1 DEF Gone
<1>4. how \notin {"running", "raising", "writing", "clearing"}
  BY DEF Up
<1>5. Apart' /\ Resuming' /\ Completed' /\ Filling'
  BY <1>1, <1>4 DEF Apart, Resuming, Completed, Filling
<1> QED
  BY <1>2, <1>3, <1>5 DEF BenchInv

LEMMA FreshOutputs ==
  ASSUME StartProcess
  PROVE  Outputs' /\ journal' = journal /\ pc \notin Up
<1>1. results' = {} /\ artifact' = <<>> /\ journal' = journal /\ pc \notin Up
  BY DEF StartProcess
<1> QED
  BY <1>1 DEF Outputs, ResultsReproducible, OneConfiguration, ArtifactInOrder

\* What PartialStore.load accepts has one sample of each key.
LEMMA LoadedSamples ==
  ASSUME NEW lines \in Seq(Lines), NEW c, Loaded(lines, c).ok
  PROVE  /\ Loaded(lines, c).samples \in Seq(Samples(Configs))
         /\ OneOfEach(Loaded(lines, c).samples)
         /\ Range(Loaded(lines, c).samples) = Recorded(lines)
         /\ \A i \in DOMAIN Loaded(lines, c).samples : Loaded(lines, c).samples[i].config = c
<1> DEFINE q == Loaded(lines, c).samples
<1>1. q = Resumed(lines)
  BY DEF Loaded
<1>2. Consistent(lines) /\ \A s \in Recorded(lines) : s.config = c
  BY DEF Loaded
<1> HIDE DEF q
<1>3. /\ q \in Seq(Samples(Configs)) /\ Range(q) = Recorded(lines)
      /\ \A i, j \in DOMAIN q : q[i] = q[j] => i = j
  BY <1>1, ReadBack
<1>4. \A i \in DOMAIN q : q[i] \in Recorded(lines)
  BY <1>3 DEF Range
<1>5. OneOfEach(q)
  BY <1>2, <1>3, <1>4 DEF OneOfEach, Consistent, SampleKey
<1>6. \A i \in DOMAIN q : q[i].config = c
  BY <1>2, <1>4
<1> QED
  BY <1>3, <1>5, <1>6 DEF q

LEMMA StartBenchmarkKeeps ==
  ASSUME BenchInv, NEW c \in Configs, StartBenchmark(c)
  PROVE  BenchInv'
<1> USE DEF BenchInv
<1>1. Outputs' /\ journal' = journal /\ pc \notin Up
  BY FreshOutputs DEF StartBenchmark
<1>2. /\ todo = {} /\ executing' = {} /\ ready' = {} /\ completed = <<>> /\ ordered' = <<>>
      /\ journal \in Seq(Lines)
  BY <1>1 DEF Gone, StartBenchmark, BenchTypeOK
<1> DEFINE loaded == Loaded(journal, c)
<1>3. CASE ~loaded.ok
  <2>1. /\ pc' = "refused" /\ mode' = mode /\ completed' = <<>> /\ todo' = {}
    BY <1>2, <1>3 DEF StartBenchmark
  <2>2. BenchTypeOK'
    BY <1>1, <1>2, <2>1 DEF BenchTypeOK
  <2>3. Gone' /\ Apart' /\ Resuming' /\ Completed' /\ Filling'
    BY <1>2, <2>1 DEF Gone, Apart, Resuming, Completed, Filling
  <2> QED
    BY <1>1, <2>2, <2>3
<1>4. CASE loaded.ok
  <2> DEFINE q == loaded.samples
  <2>1. /\ pc' = "running" /\ config' = c /\ mode' = "benchmark"
        /\ completed' = q /\ todo' = Missing(q)
    BY <1>4 DEF StartBenchmark
  <2>2. /\ q \in Seq(Samples(Configs)) /\ OneOfEach(q) /\ Range(q) = Recorded(journal)
        /\ \A i \in DOMAIN q : q[i].config = c
    BY <1>2, <1>4, LoadedSamples
  <2> HIDE DEF q
  <2>3. Missing(q) \in SUBSET Places
    BY DEF Missing, Places
  <2>4. BenchTypeOK'
    BY <1>1, <1>2, <2>1, <2>2, <2>3 DEF BenchTypeOK
  <2>5. Gone' /\ Apart' /\ Completed' /\ Filling'
    BY <1>2, <2>1 DEF Gone, Apart, Completed, Filling, Up
  <2>6. \A i \in DOMAIN q : \A n \in Missing(q) : Specifications[n] # q[i].spec
    BY DEF Missing, Keys, SampleKey
  <2>7. Asked' = {Specifications[n] : n \in Missing(q)}
    BY <1>2, <2>1 DEF Asked
  <2>8. Resuming'
    <3>1. Recorded(journal)' \subseteq Range(completed)'
      BY <1>1, <2>1, <2>2
    <3>2. \A i \in DOMAIN completed' : completed'[i].spec \notin Asked'
      BY <2>1, <2>6, <2>7
    <3>3. OneOfEach(completed)'
      BY <2>1, <2>2
    <3> QED
      BY <2>1, <2>2, <3>1, <3>2, <3>3 DEF Resuming
  <2> QED
    BY <1>1, <2>4, <2>5, <2>8
<1> QED
  BY <1>3, <1>4

LEMMA StartHarnessKeeps ==
  ASSUME BenchInv, NEW c \in Configs, StartHarness(c)
  PROVE  BenchInv'
<1> USE DEF BenchInv
<1>1. Outputs' /\ journal' = journal /\ pc \notin Up
  BY FreshOutputs DEF StartHarness
<1>2. /\ executing' = {} /\ ready' = {} /\ completed' = <<>> /\ ordered' = <<>>
      /\ journal \in Seq(Lines) /\ pc' = "running" /\ mode' = "harness" /\ todo' = Places
  BY <1>1 DEF Gone, StartHarness, BenchTypeOK, memory, Places
<1>3. BenchTypeOK'
  BY <1>1, <1>2 DEF BenchTypeOK
<1>4. Gone' /\ Apart' /\ Resuming' /\ Completed'
  BY <1>2 DEF Gone, Apart, Resuming, Completed, Up
<1>5. Filling'
  <2>1. \A n \in Places : Specifications[n] \in Asked'
    BY <1>2 DEF Asked
  <2> QED
    BY <1>2, <2>1 DEF Filling
<1> QED
  BY <1>1, <1>3, <1>4, <1>5

LEMMA BeginKeeps ==
  ASSUME BenchInv, Begin
  PROVE  BenchInv'
<1> USE DEF BenchInv
<1> DEFINE n == Min(todo)
           spec == Specifications[n]
<1>1. /\ executing' = executing \cup {spec} /\ todo' = todo \ {n}
      /\ UNCHANGED <<pc, config, mode, ready, completed, ordered, journal>>
      /\ UNCHANGED <<results, artifact>> /\ todo # {} /\ PoolRuns
  BY DEF Begin, process, memory, disk
<1>2. n \in todo /\ n \in Places /\ spec \in Spots
  <2>1. todo \in SUBSET Places /\ todo \in SUBSET Nat
    BY Sizes DEF BenchTypeOK
  <2>2. \E x \in todo : \A y \in todo : x <= y
    BY <1>1, <2>1, MinExists
  <2>3. n \in todo
    BY <2>2, Zenon DEF Min
  <2> HIDE DEF n
  <2> QED
    BY <2>1, <2>3, ListOfSamples
<1> HIDE DEF n
<1>3. \A m \in todo : m \in Places /\ (Specifications[m] = spec => m = n)
  BY <1>2, ListOfSamples DEF BenchTypeOK
<1>4. Asked' = Asked
  <2>1. {Specifications[m] : m \in todo} = {Specifications[m] : m \in todo'} \cup {spec}
    BY <1>1, <1>2
  <2> HIDE DEF spec
  <2> QED
    BY <1>1, <2>1 DEF Asked
<1>5. Apart'
  <2> SUFFICES ASSUME pc = "running" PROVE Apart'
    BY <1>1 DEF Apart
  <2>1. /\ \A m \in todo : Specifications[m] \notin executing
        /\ \A m \in todo : \A f \in ready : f.spec # Specifications[m]
        /\ \A f \in ready : f.spec \notin executing
        /\ \A f, g \in ready : f.spec = g.spec => f = g
    BY DEF Apart
  <2>2. \A f \in ready : f.spec # spec
    BY <1>2, <2>1
  <2> HIDE DEF spec
  <2>3. \A m \in todo' : Specifications[m] \notin executing'
    BY <1>1, <1>3, <2>1
  <2>4. \A f \in ready : f.spec \notin executing'
    BY <1>1, <2>1, <2>2
  <2> QED
    BY <1>1, <2>1, <2>3, <2>4 DEF Apart
<1> HIDE DEF spec
<1>6. BenchTypeOK'
  BY <1>1, <1>2 DEF BenchTypeOK
<1>7. Gone'
  BY <1>1 DEF Gone, PoolRuns, Up
<1>8. Resuming' /\ Completed' /\ Filling'
  BY <1>1, <1>4 DEF Resuming, Completed, Filling, Whole, OneOfEach
<1>9. Outputs'
  BY <1>1, OutputsStay
<1> QED
  BY <1>5, <1>6, <1>7, <1>8, <1>9

LEMMA ExecuteKeeps ==
  ASSUME BenchInv, NEW spec \in executing, Execute(spec)
  PROVE  BenchInv'
<1> USE DEF BenchInv
<1>1. /\ executing' = executing \ {spec} /\ PoolRuns
      /\ UNCHANGED <<pc, config, mode, todo, completed, ordered, journal>>
      /\ UNCHANGED <<results, artifact>>
  BY DEF Execute, process, memory, disk
<1>2. Outputs'
  BY <1>1, OutputsStay
<1>3. Gone'
  BY <1>1 DEF Gone, PoolRuns, Up
<1>4. CASE pc = "raising"
  <2>1. ready' = ready
    BY <1>4 DEF Execute
  <2>2. BenchTypeOK'
    BY <1>1, <2>1 DEF BenchTypeOK
  <2>3. Apart' /\ Resuming' /\ Completed' /\ Filling'
    BY <1>1, <1>4 DEF Apart, Resuming, Completed, Filling
  <2> QED
    BY <1>2, <1>3, <2>2, <2>3
<1>5. CASE pc # "raising"
  <2>1. pc = "running"
    BY <1>1, <1>5 DEF PoolRuns
  <2>2. PICK answer \in PossibleAnswers :
           ready' = ready \cup {[spec |-> spec, answer |-> answer]}
    BY <1>5 DEF Execute
  <2> DEFINE g == [spec |-> spec, answer |-> answer]
  <2>3. g \in Futures /\ g.spec = spec
    BY DEF PossibleAnswers, BenchTypeOK, Futures
  <2>4. ready' = ready \cup {g}
    BY <2>2
  <2> HIDE DEF g
  <2>5. Asked' = Asked
    <3>1. {f.spec : f \in ready'} = {f.spec : f \in ready} \cup {spec}
      BY <2>3, <2>4
    <3> QED
      BY <1>1, <3>1 DEF Asked
  <2>6. Apart'
    <3>1. /\ \A m \in todo : Specifications[m] \notin executing
          /\ \A m \in todo : \A f \in ready : f.spec # Specifications[m]
          /\ \A f \in ready : f.spec \notin executing
          /\ \A f, h \in ready : f.spec = h.spec => f = h
      BY <2>1 DEF Apart
    <3>2. \A f \in ready : f.spec # spec
      BY <3>1
    <3>3. /\ \A m \in todo' : Specifications[m] \notin executing'
          /\ \A m \in todo' : \A f \in ready' : f.spec # Specifications[m]
      BY <1>1, <2>3, <2>4, <3>1
    <3>4. \A f \in ready' : f.spec \notin executing'
      BY <1>1, <2>3, <2>4, <3>1
    <3>5. \A f, h \in ready' : f.spec = h.spec => f = h
      BY <2>3, <2>4, <3>1, <3>2
    <3> QED
      BY <3>3, <3>4, <3>5 DEF Apart
  <2>7. BenchTypeOK'
    BY <1>1, <2>3, <2>4 DEF BenchTypeOK
  <2>8. Resuming' /\ Completed' /\ Filling'
    BY <1>1, <2>5 DEF Resuming, Completed, Filling, Whole, OneOfEach
  <2> QED
    BY <1>2, <1>3, <2>6, <2>7, <2>8
<1> QED
  BY <1>4, <1>5

\* A future that is taken is asked for no more.
LEMMA TakenIsNotAsked ==
  ASSUME BenchInv, pc = "running", NEW f \in ready, ready' = ready \ {f},
         UNCHANGED <<todo, executing>>
  PROVE  /\ Asked = Asked' \cup {f.spec}
         /\ f.spec \notin Asked'
         /\ pc' = "running" => Apart'
<1> USE DEF BenchInv
<1>1. /\ \A m \in todo : Specifications[m] \notin executing
      /\ \A m \in todo : \A g \in ready : g.spec # Specifications[m]
      /\ \A g \in ready : g.spec \notin executing
      /\ \A g, h \in ready : g.spec = h.spec => g = h
  BY DEF Apart
<1>2. {g.spec : g \in ready} = {g.spec : g \in ready'} \cup {f.spec}
  OBVIOUS
<1>3. f.spec \notin {g.spec : g \in ready'}
  BY <1>1
<1>4. f.spec \notin executing /\ f.spec \notin {Specifications[m] : m \in todo}
  BY <1>1
<1>5. Asked = Asked' \cup {f.spec} /\ f.spec \notin Asked'
  BY <1>2, <1>3, <1>4 DEF Asked
<1>6. Apart'
  BY <1>1 DEF Apart
<1> QED
  BY <1>5, <1>6

LEMMA TakeSampleKeeps ==
  ASSUME BenchInv, NEW f \in ready, TakeSample(f)
  PROVE  BenchInv'
<1> USE DEF BenchInv
<1> DEFINE sample == Sample(f.spec, config, f.answer = "correct")
<1>1. /\ pc = "running" /\ mode = "benchmark"
      /\ journal' = Written(journal, Record(sample), TRUE)
      /\ completed' = Append(completed, sample)
      /\ ready' = ready \ {f}
      /\ UNCHANGED <<pc, config, mode, todo, executing, ordered>>
      /\ UNCHANGED <<results, artifact>>
  BY DEF TakeSample, process
<1>2. /\ config \in Configs /\ OneOfEach(completed)
      /\ \A i \in DOMAIN completed : completed[i].config = config
      /\ Recorded(journal) \subseteq Range(completed)
      /\ \A i \in DOMAIN completed : completed[i].spec \notin Asked
  BY <1>1 DEF Resuming
<1>3. /\ sample \in Samples(Configs) /\ sample.spec = f.spec /\ sample.config = config
  <2>1. f.spec \in Spots
    BY DEF BenchTypeOK, Futures
  <2>2. (f.answer = "correct") \in BOOLEAN
    OBVIOUS
  <2> QED
    BY <1>2, <2>1, <2>2, Zenon DEF Sample, Samples
<1> HIDE DEF sample
<1>4. Record(sample) \in Entries /\ Record(sample).sample = sample
  BY <1>3 DEF Record, Entries
<1>5. journal' \in Seq(Lines) /\ Recorded(journal') \subseteq Recorded(journal) \cup {sample}
  <2>1. journal \in Seq(Lines) /\ TRUE \in BOOLEAN
    BY DEF BenchTypeOK
  <2> QED
    BY <1>1, <1>4, <2>1, WrittenLines
<1>6. /\ Asked = Asked' \cup {f.spec} /\ f.spec \notin Asked' /\ Apart'
  BY <1>1, TakenIsNotAsked
<1> DEFINE N == Len(completed)
<1>7. /\ completed' \in Seq(Samples(Configs)) /\ N \in Nat
      /\ DOMAIN completed = 1 .. N /\ DOMAIN completed' = 1 .. N + 1
      /\ completed'[N + 1] = sample
      /\ \A i \in 1 .. N : completed'[i] = completed[i]
  BY <1>1, <1>3 DEF BenchTypeOK
<1> HIDE DEF N
<1>8. \A i : i \in 1 .. N + 1 <=> i \in 1 .. N \/ i = N + 1
  BY <1>7
<1>9. Range(completed') = Range(completed) \cup {sample}
  BY <1>7, <1>8 DEF Range
<1>10. \A i \in 1 .. N : completed[i].spec # f.spec
  BY <1>2, <1>6, <1>7
<1>11. OneOfEach(completed')
  BY <1>2, <1>3, <1>7, <1>8, <1>10 DEF OneOfEach
<1>12. \A i \in DOMAIN completed' :
         completed'[i].config = config /\ completed'[i].spec \notin Asked'
  BY <1>2, <1>3, <1>6, <1>7, <1>8
<1>13. Recorded(journal') \subseteq Range(completed')
  BY <1>2, <1>5, <1>9
<1>14. Resuming'
  BY <1>1, <1>2, <1>11, <1>12, <1>13 DEF Resuming
<1>15. BenchTypeOK'
  BY <1>1, <1>5, <1>7 DEF BenchTypeOK
<1>16. Gone' /\ Completed' /\ Filling'
  BY <1>1 DEF Gone, Completed, Filling, Up
<1>17. Outputs'
  BY <1>1, OutputsStay
<1> QED
  BY <1>6, <1>14, <1>15, <1>16, <1>17

LEMMA TakeResultKeeps ==
  ASSUME BenchInv, NEW f \in ready, TakeResult(f)
  PROVE  BenchInv'
<1> USE DEF BenchInv
<1> DEFINE p == Placed(f)
<1>1. /\ pc = "running" /\ mode = "harness" /\ ready' = ready \ {f}
      /\ ordered' = [n \in DOMAIN ordered \cup {p} |-> IF n = p THEN f ELSE ordered[n]]
      /\ UNCHANGED <<pc, config, mode, todo, executing, completed, journal>>
      /\ UNCHANGED <<results, artifact>>
  BY DEF TakeResult, process, disk
<1>2. p \in Places /\ Specifications[p] = f.spec
  <2>1. f.spec \in Spots
    BY DEF BenchTypeOK, Futures
  <2>2. \E n \in Places : Specifications[n] = f.spec
    BY <2>1, ListOfSamples
  <2> QED
    BY <2>2, Zenon DEF Placed, Places
<1> HIDE DEF p
<1>3. /\ Asked = Asked' \cup {f.spec} /\ f.spec \notin Asked' /\ Apart'
  BY <1>1, TakenIsNotAsked
<1>4. BenchTypeOK'
  BY <1>1 DEF BenchTypeOK
<1>5. Gone' /\ Resuming' /\ Completed'
  BY <1>1 DEF Gone, Resuming, Completed, Up
<1>6. Filling'
  <2>1. /\ \A n \in Places : n \in DOMAIN ordered \/ Specifications[n] \in Asked
        /\ \A n \in DOMAIN ordered : n \in Places /\ ordered[n].spec = Specifications[n]
    BY <1>1 DEF Filling
  <2>2. /\ DOMAIN ordered' = DOMAIN ordered \cup {p} /\ ordered'[p] = f
        /\ \A n \in DOMAIN ordered \ {p} : ordered'[n] = ordered[n]
    BY <1>1
  <2>3. \A n \in Places : n \in DOMAIN ordered' \/ Specifications[n] \in Asked'
    <3> TAKE n \in Places
    <3>1. CASE n = p
      BY <2>2, <3>1
    <3>2. CASE n # p
      <4>1. Specifications[n] # f.spec
        BY <1>2, <3>2, ListOfSamples
      <4> QED
        BY <1>3, <2>1, <2>2, <4>1
    <3> QED
      BY <3>1, <3>2
  <2>4. \A n \in DOMAIN ordered' : n \in Places /\ ordered'[n].spec = Specifications[n]
    BY <1>2, <2>1, <2>2
  <2> QED
    BY <2>3, <2>4 DEF Filling
<1>7. Outputs'
  BY <1>1, OutputsStay
<1> QED
  BY <1>3, <1>4, <1>5, <1>6, <1>7

LEMMA TakeErrorKeeps ==
  ASSUME BenchInv, NEW f \in ready, TakeError(f)
  PROVE  BenchInv'
<1> USE DEF BenchInv
<1>1. /\ pc' = "raising" /\ ready' = {}
      /\ UNCHANGED <<todo, executing, completed, journal>>
      /\ UNCHANGED <<results, artifact>>
  BY DEF TakeError, memory, disk
<1>2. BenchTypeOK'
  BY <1>1 DEF BenchTypeOK
<1>3. Gone' /\ Apart' /\ Resuming' /\ Completed' /\ Filling'
  BY <1>1 DEF Gone, Apart, Resuming, Completed, Filling, Up
<1>4. Outputs'
  BY <1>1, OutputsStay
<1> QED
  BY <1>2, <1>3, <1>4

\* The process ends and leaves what it has written.
LEMMA LeaveKeeps ==
  ASSUME BenchInv, NEW how, how \notin Up, ProcessEnds(how),
         journal' \in Seq(Lines), UNCHANGED <<results, artifact>>
  PROVE  BenchInv'
<1>1. Outputs'
  BY OutputsStay DEF BenchInv
<1> QED
  BY <1>1, EndKeeps

LEMMA CheckCompleteKeeps ==
  ASSUME BenchInv, CheckComplete
  PROVE  BenchInv'
<1>1. /\ UNCHANGED <<results, artifact, journal>> /\ mode = "benchmark" /\ pc = "running"
  BY DEF CheckComplete, AllTaken, disk
<1>2. journal' \in Seq(Lines)
  BY <1>1 DEF BenchInv, BenchTypeOK
<1>3. CASE ProcessEnds("mismatch")
  <2>1. "mismatch" \notin Up
    BY DEF Up
  <2> QED
    BY <1>1, <1>2, <1>3, <2>1, LeaveKeeps
<1>4. CASE /\ Keys(completed) = {SampleKey(spec) : spec \in Range(Specifications)}
           /\ pc' = "writing"
           /\ UNCHANGED <<config, mode, pool, memory, starts>>
  <2> USE DEF BenchInv
  <2>1. /\ pc' = "writing"
        /\ UNCHANGED <<config, mode, todo, executing, ready, completed, ordered>>
    BY <1>4 DEF pool, memory
  <2>2. {completed[i].spec : i \in DOMAIN completed} = Spots
    <3>1. Keys(completed) = Range(Specifications)
      BY <1>4 DEF SampleKey
    <3> QED
      BY <3>1, ListOfSamples DEF Keys, SampleKey
  <2>3. Whole(completed)
    <3>1. OneOfEach(completed)
      BY <1>1 DEF Resuming
    <3>2. \A i \in DOMAIN completed : completed[i].spec \in Spots
      BY <2>2
    <3>3. \A s \in Spots : \E i \in DOMAIN completed : completed[i].spec = s
      BY <2>2
    <3> QED
      BY <3>1, <3>2, <3>3 DEF Whole
  <2>4. BenchTypeOK'
    BY <1>1, <2>1 DEF BenchTypeOK
  <2>5. Gone' /\ Apart' /\ Filling'
    BY <2>1 DEF Gone, Apart, Filling, Up
  <2>6. Completed' /\ Resuming'
    BY <1>1, <2>1, <2>3 DEF Completed, Resuming, Whole, OneOfEach
  <2>7. Outputs'
    BY <1>1, OutputsStay
  <2> QED
    BY <2>4, <2>5, <2>6, <2>7
<1> QED
  BY <1>3, <1>4 DEF CheckComplete

LEMMA WriteResultsKeeps ==
  ASSUME BenchInv, WriteResults
  PROVE  BenchInv'
<1> USE DEF BenchInv
<1>1. /\ pc = "writing" /\ pc' = "clearing" /\ results' = {Document(completed, config)}
      /\ UNCHANGED <<config, mode, todo, executing, ready, completed, ordered, journal>>
      /\ UNCHANGED artifact
  BY DEF WriteResults, pool, memory
<1>2. mode = "benchmark" /\ Whole(completed)
  BY <1>1 DEF Completed
<1>3. \A i \in DOMAIN completed : completed[i].config = config
  BY <1>1, <1>2 DEF Resuming
<1> DEFINE doc == Document(completed, config)
<1>4. Reproducible(doc) /\ OfOneRun(doc)
  <2>1. completed \in Seq(Samples(Configs))
    BY DEF BenchTypeOK
  <2> QED
    BY <1>2, <1>3, <2>1, DocumentIsGood
<1> HIDE DEF doc
<1>5. results' = {doc}
  BY <1>1 DEF doc
<1>6. ResultsReproducible'
  <2>1. \A d \in results' : Reproducible(d)
    BY <1>4, <1>5
  <2> QED
    BY <2>1 DEF ResultsReproducible, Reproducible, Passed, SolvedAt, PassedAll
<1>7. OneConfiguration'
  BY <1>4, <1>5 DEF OneConfiguration, OfOneRun
<1>8. ArtifactInOrder'
  BY <1>1 DEF Outputs, ArtifactInOrder
<1>9. BenchTypeOK'
  BY <1>1 DEF BenchTypeOK
<1>10. Gone' /\ Apart' /\ Completed' /\ Filling'
  BY <1>1 DEF Gone, Apart, Completed, Filling, Up
<1>11. Resuming'
  BY <1>1, <1>2 DEF Resuming, OneOfEach
<1> QED
  BY <1>6, <1>7, <1>8, <1>9, <1>10, <1>11 DEF Outputs

LEMMA WriteArtifactKeeps ==
  ASSUME BenchInv, WriteArtifact
  PROVE  BenchInv'
<1>1. AllTaken /\ mode = "harness"
  BY DEF WriteArtifact
<1>2. Asked = {}
  BY <1>1 DEF Asked, AllTaken, PoolEmpty
<1>3. /\ DOMAIN ordered = Places
      /\ \A n \in Places : ordered[n].spec = Specifications[n]
      /\ artifact' = ordered /\ ProcessEnds("done") /\ UNCHANGED <<journal, results>>
  <2>1. /\ DOMAIN ordered = Places
        /\ \A n \in Places : ordered[n].spec = Specifications[n]
    BY <1>1, <1>2 DEF BenchInv, Filling, AllTaken
  <2>2. DOMAIN Specifications = Places
    BY DEF Specifications, Places
  <2> QED
    BY <2>1, <2>2 DEF WriteArtifact
<1>4. [n \in DOMAIN ordered |-> ordered[n].spec] = Specifications
  <2>1. Specifications = [n \in Places |-> Specifications[n]]
    BY DEF Specifications, Places
  <2>2. [n \in DOMAIN ordered |-> ordered[n].spec] = [n \in Places |-> Specifications[n]]
    BY <1>3, Zenon
  <2> QED
    BY <2>1, <2>2
<1>5. ArtifactInOrder'
  BY <1>3, <1>4 DEF ArtifactInOrder
<1>6. ResultsReproducible' /\ OneConfiguration'
  BY <1>3 DEF BenchInv, Outputs, ResultsReproducible, OneConfiguration, Passed, SolvedAt,
              PassedAll
<1>7. "done" \notin Up /\ journal' \in Seq(Lines)
  BY <1>3 DEF Up, BenchInv, BenchTypeOK
<1>8. Outputs'
  BY <1>5, <1>6 DEF Outputs
<1> QED
  BY <1>1, <1>3, <1>7, <1>8, EndKeeps

LEMMA EndsKeep ==
  ASSUME BenchInv, Raise \/ ClearJournal \/ Crash
  PROVE  BenchInv'
<1>1. /\ "raised" \notin Up /\ "done" \notin Up /\ "killed" \notin Up
      /\ journal \in Seq(Lines) /\ <<>> \in Seq(Lines)
  BY DEF Up, BenchInv, BenchTypeOK
<1>2. CASE Raise
  <2>1. ProcessEnds("raised") /\ UNCHANGED <<journal, results, artifact>>
    BY <1>2 DEF Raise, disk
  <2> QED
    BY <1>1, <2>1, LeaveKeeps
<1>3. CASE ClearJournal
  <2>1. ProcessEnds("done") /\ journal' = <<>> /\ UNCHANGED <<results, artifact>>
    BY <1>3 DEF ClearJournal
  <2> QED
    BY <1>1, <2>1, LeaveKeeps
<1>4. CASE Crash
  <2>1. ProcessEnds("killed") /\ UNCHANGED <<journal, results, artifact>>
    BY <1>4 DEF Crash, disk
  <2> QED
    BY <1>1, <2>1, LeaveKeeps
<1> QED
  BY <1>2, <1>3, <1>4

LEMMA CrashInAppendKeeps ==
  ASSUME BenchInv, NEW f \in ready, CrashInAppend(f)
  PROVE  BenchInv'
<1> DEFINE sample == Sample(f.spec, config, f.answer = "correct")
<1>1. /\ pc = "running" /\ mode = "benchmark" /\ ProcessEnds("killed")
      /\ UNCHANGED <<results, artifact>>
      /\ \E record \in {Record(sample), Torn(sample)} : journal' = Written(journal, record, FALSE)
  BY DEF CrashInAppend
<1>2. sample \in Samples(Configs)
  <2>1. f.spec \in Spots
    BY DEF BenchInv, BenchTypeOK, Futures
  <2>2. (f.answer = "correct") \in BOOLEAN
    OBVIOUS
  <2>3. config \in Configs
    BY <1>1 DEF BenchInv, Resuming
  <2> QED
    BY <2>1, <2>2, <2>3, Zenon DEF Sample, Samples
<1> HIDE DEF sample
<1>3. Record(sample) \in Entries /\ Torn(sample) \in Entries
  BY <1>2 DEF Record, Torn, Entries
<1>4. journal' \in Seq(Lines)
  <2>1. journal \in Seq(Lines) /\ FALSE \in BOOLEAN
    BY DEF BenchInv, BenchTypeOK
  <2>2. PICK record \in {Record(sample), Torn(sample)} : journal' = Written(journal, record, FALSE)
    BY <1>1
  <2>3. record \in Entries
    BY <1>3
  <2> QED
    BY <2>1, <2>2, <2>3, WrittenLines
<1>5. "killed" \notin Up
  BY DEF Up
<1> QED
  BY <1>1, <1>4, <1>5, LeaveKeeps

LEMMA BenchStep == BenchInv /\ [Next]_vars => BenchInv'
<1> SUFFICES ASSUME BenchInv, [Next]_vars PROVE BenchInv'
  OBVIOUS
<1>1. ASSUME NEW c \in Configs, StartBenchmark(c) PROVE BenchInv'
  BY <1>1, StartBenchmarkKeeps
<1>2. ASSUME NEW c \in Configs, StartHarness(c) PROVE BenchInv'
  BY <1>2, StartHarnessKeeps
<1>3. CASE Begin
  BY <1>3, BeginKeeps
<1>4. ASSUME NEW spec \in executing, Execute(spec) PROVE BenchInv'
  BY <1>4, ExecuteKeeps
<1>5. ASSUME NEW f \in ready, TakeSample(f) PROVE BenchInv'
  BY <1>5, TakeSampleKeeps
<1>6. ASSUME NEW f \in ready, TakeResult(f) PROVE BenchInv'
  BY <1>6, TakeResultKeeps
<1>7. ASSUME NEW f \in ready, TakeError(f) PROVE BenchInv'
  BY <1>7, TakeErrorKeeps
<1>8. CASE Raise \/ ClearJournal \/ Crash
  BY <1>8, EndsKeep
<1>9. CASE CheckComplete
  BY <1>9, CheckCompleteKeeps
<1>10. CASE WriteResults
  BY <1>10, WriteResultsKeeps
<1>11. CASE WriteArtifact
  BY <1>11, WriteArtifactKeeps
<1>12. ASSUME NEW f \in ready, CrashInAppend(f) PROVE BenchInv'
  BY <1>12, CrashInAppendKeeps
<1>13. CASE UNCHANGED vars
  <2>1. UNCHANGED <<pc, config, mode, todo, executing, ready, completed, ordered, journal,
                    results, artifact>>
    BY <1>13 DEF vars, process, pool, memory, disk
  <2>2. Outputs'
    BY <2>1, OutputsStay DEF BenchInv
  <2> QED
    BY <2>1, <2>2 DEF BenchInv, BenchTypeOK, Gone, Apart, Resuming, Asked, Completed, Filling,
                      Whole, OneOfEach
<1> QED
  BY <1>1, <1>2, <1>3, <1>4, <1>5, <1>6, <1>7, <1>8, <1>9, <1>10, <1>11, <1>12, <1>13
     DEF Next, Step

\* However the samples come in and wherever the process is killed, the invariant
\* holds.
LEMMA BenchSafe == Spec => []BenchInv
BY BenchStart, BenchStep, PTL DEF Spec

-----------------------------------------------------------------------------
(* The theorems.                                                           *)

\* A results file holds every sample once, sorted, and its metrics are those of
\* its samples, whatever the order in which they came in and however often the
\* run was killed and resumed (run_benchmark, compute_metric_set).
THEOREM ResultsAreReproducible == Spec => []ResultsReproducible
<1>1. BenchInv => ResultsReproducible
  BY DEF BenchInv, Outputs
<1> QED
  BY <1>1, BenchSafe, PTL

\* No results file mixes the samples of two configurations (PartialStore.load).
THEOREM ResultsOfOneConfiguration == Spec => []OneConfiguration
<1>1. BenchInv => OneConfiguration
  BY DEF BenchInv, Outputs
<1> QED
  BY <1>1, BenchSafe, PTL

\* A sample that the journal can give back is not asked of the endpoint again.
THEOREM JournalledNeverRunAgain == Spec => []NeverRunAgain
<1>1. BenchInv => NeverRunAgain
  <2> SUFFICES ASSUME BenchInv, pc = "running", mode = "benchmark" PROVE NeverRunAgain
    BY DEF NeverRunAgain
  <2>1. /\ Recorded(journal) \subseteq Range(completed)
        /\ \A i \in DOMAIN completed : completed[i].spec \notin Asked
    BY DEF BenchInv, Resuming
  <2>2. \A s \in Recorded(journal) : s.spec \notin Asked
    BY <2>1 DEF Range
  <2> QED
    BY <2>2 DEF NeverRunAgain, Asked, SampleKey
<1> QED
  BY <1>1, BenchSafe, PTL

\* The artifact of run_harness has the result of every request, at its place.
THEOREM ArtifactAlwaysInOrder == Spec => []ArtifactInOrder
<1>1. BenchInv => ArtifactInOrder
  BY DEF BenchInv, Outputs
<1> QED
  BY <1>1, BenchSafe, PTL
=============================================================================
