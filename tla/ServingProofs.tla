--------------------------- MODULE ServingProofs ----------------------------
(***************************************************************************)
(* Proofs about Serving, for any number of requests and slots: the slots   *)
(* of EngineRunner are conserved, the gauge of branches is exact, shutdown *)
(* outlasts every thread but those of requests that were cut off, an       *)
(* answer that says it is complete is, and a tenant's window is charged    *)
(* what its requests asked for or got.                                     *)
(***************************************************************************)
EXTENDS Serving, SharedLemmas

SlotStates == [value : Nat, waiters : Seq(Requests), granted : SUBSET Requests]

\* The waiters of a semaphore are the requests W, each once.
Queues(s, W) ==
  /\ s \in SlotStates
  /\ {s.waiters[i] : i \in DOMAIN s.waiters} = W
  /\ \A i, j \in DOMAIN s.waiters : s.waiters[i] = s.waiters[j] => i = j
  /\ s.granted \subseteq W

Total(s) == s.value + Cardinality(s.granted)

\* How a semaphore looks when r has left its list.
LeftBy(r, s, t) == t.value = s.value /\ t.granted = s.granted \ {r}

SlotInv ==
  /\ stage \in [Requests -> Stages]
  /\ abandoned \subseteq {r \in Requests : stage[r] \in {"last", "ended"}}
  /\ Queues(slots, Waiting)
  /\ SlotsConserved

-----------------------------------------------------------------------------
(* The semaphore.                                                          *)

\* A subset of the requests is finite, and grows and shrinks by one.
LEMMA Counting ==
  ASSUME NEW S \in SUBSET Requests, NEW r
  PROVE  /\ IsFiniteSet(S) /\ Cardinality(S) \in Nat
         /\ r \in S => Cardinality(S \ {r}) = Cardinality(S) - 1
         /\ r \notin S => Cardinality(S \cup {r}) = Cardinality(S) + 1
<1>1. IsFiniteSet(S)
  BY ServingAssumption, FS_Subset DEF ServingAssumption
<1> QED
  BY <1>1, FS_CardinalityType, FS_RemoveElement, FS_AddElement

\* Waking a waiter takes the slot it promises.
LEMMA WakeKeeps ==
  ASSUME NEW W \in SUBSET Requests, NEW s, Queues(s, W), s.value > 0, NEW t \in Wake(s)
  PROVE  Queues(t, W) /\ Total(t) = Total(s)
<1> DEFINE asleep == {i \in DOMAIN s.waiters : s.waiters[i] \notin s.granted}
<1>1. CASE asleep = {}
  BY <1>1 DEF Wake
<1>2. CASE asleep # {}
  <2>1. PICK i \in asleep :
          t = [s EXCEPT !.value = @ - 1, !.granted = @ \cup {s.waiters[i]}]
    BY <1>2 DEF Wake
  <2>2. s.waiters[i] \in W /\ s.waiters[i] \notin s.granted
    BY DEF Queues
  <2>3. t.value = s.value - 1 /\ t.waiters = s.waiters
        /\ t.granted = s.granted \cup {s.waiters[i]} /\ t \in SlotStates
    <3>1. s \in SlotStates
      BY DEF Queues
    <3> DEFINE w == s.waiters[i]
    <3>2. w \in Requests
      BY <2>2
    <3>3. t = [s EXCEPT !.value = s.value - 1, !.granted = s.granted \cup {w}]
      BY <2>1
    <3> HIDE DEF w
    <3>4. t.value = s.value - 1 /\ t.waiters = s.waiters /\ t.granted = s.granted \cup {w}
          /\ t \in SlotStates
      <4>1. s.value \in Nat /\ s.granted \in SUBSET Requests
        BY <3>1 DEF SlotStates
      <4>2. s.value - 1 \in Nat /\ s.granted \cup {w} \in SUBSET Requests
        BY <3>2, <4>1
      <4> QED
        BY <3>1, <3>3, <4>2 DEF SlotStates
    <3> QED
      BY <3>4 DEF w
  <2>4. Cardinality(t.granted) = Cardinality(s.granted) + 1 /\ Cardinality(s.granted) \in Nat
    BY <2>2, <2>3, Counting DEF Queues, SlotStates
  <2>5. s.value \in Nat
    BY DEF Queues, SlotStates
  <2> QED
    BY <2>2, <2>3, <2>4, <2>5 DEF Queues, Total
<1> QED
  BY <1>1, <1>2

\* Releasing a slot frees or promises it.
LEMMA ReleaseKeeps ==
  ASSUME NEW W \in SUBSET Requests, NEW s, Queues(s, W), NEW t \in Release(s)
  PROVE  Queues(t, W) /\ Total(t) = Total(s) + 1
<1> DEFINE u == [s EXCEPT !.value = @ + 1]
<1>1. u.value = s.value + 1 /\ u.waiters = s.waiters /\ u.granted = s.granted
      /\ u \in SlotStates /\ s.value \in Nat
  BY DEF Queues, SlotStates
<1>2. Queues(u, W) /\ u.value > 0
  BY <1>1 DEF Queues
<1>3. Total(u) = Total(s) + 1
  <2>1. Cardinality(s.granted) \in Nat
    BY Counting DEF Queues, SlotStates
  <2> QED
    BY <1>1, <2>1 DEF Total
<1>4. t \in Wake(u)
  BY DEF Release
<1> HIDE DEF u
<1> QED
  BY <1>2, <1>3, <1>4, WakeKeeps

\* A waiter that leaves the list leaves the others where they are.
LEMMA WithoutKeeps ==
  ASSUME NEW W \in SUBSET Requests, NEW s, Queues(s, W), NEW r \in W, NEW t \in Without(r, s)
  PROVE  Queues(t, W \ {r}) /\ LeftBy(r, s, t)
<1>1. PICK n \in DOMAIN s.waiters :
        /\ s.waiters[n] = r
        /\ t = [s EXCEPT !.waiters = SubSeq(@, 1, n - 1) \o SubSeq(@, n + 1, Len(@)),
                         !.granted = @ \ {r}]
  BY DEF Without
<1> DEFINE q == s.waiters
           a == SubSeq(q, 1, n - 1)
           b == SubSeq(q, n + 1, Len(q))
           p == a \o b
<1>2. q \in Seq(Requests) /\ n \in 1 .. Len(q) /\ s.granted \in SUBSET Requests
  BY DEF Queues, SlotStates
<1> HIDE DEF q
<1>3. a \in Seq(Requests) /\ Len(a) = n - 1 /\ \A i \in 1 .. n - 1 : a[i] = q[i]
  BY <1>2
<1>4. b \in Seq(Requests) /\ Len(b) = Len(q) - n
       /\ \A i \in 1 .. Len(q) - n : b[i] = q[n + i]
  BY <1>2
<1> HIDE DEF a, b
<1>5. p \in Seq(Requests) /\ Len(p) = Len(q) - 1
  BY <1>2, <1>3, <1>4
<1>6. \A i \in 1 .. Len(p) : p[i] = IF i <= Len(a) THEN a[i] ELSE b[i - Len(a)]
  BY <1>3, <1>4
<1> HIDE DEF p
<1>7. \A i \in 1 .. Len(p) : p[i] = IF i < n THEN q[i] ELSE q[i + 1]
  <2> SUFFICES ASSUME NEW i \in 1 .. Len(p)
               PROVE  p[i] = IF i < n THEN q[i] ELSE q[i + 1]
    OBVIOUS
  <2>1. CASE i < n
    BY <1>2, <1>5, <1>3, <1>6, <2>1
  <2>2. CASE ~(i < n)
    <3>1. i - (n - 1) \in 1 .. Len(q) - n /\ n + (i - (n - 1)) = i + 1
      BY <1>2, <1>5, <2>2
    <3>2. p[i] = b[i - (n - 1)]
      BY <1>2, <1>3, <1>6, <2>2
    <3>3. p[i] = q[n + (i - (n - 1))]
      BY <1>4, <3>1, <3>2
    <3> QED
      BY <2>2, <3>1, <3>3
  <2> QED
    BY <2>1, <2>2
<1> USE DEF p, a, b, q
<1>8. t.waiters = p /\ t.value = s.value /\ t.granted = s.granted \ {r} /\ t \in SlotStates
  BY <1>1, <1>5 DEF Queues, SlotStates
<1>9. {q[i] : i \in 1 .. Len(q)} = W /\ \A i, j \in 1 .. Len(q) : q[i] = q[j] => i = j
  BY <1>2 DEF Queues
<1> HIDE DEF p, a, b, q
<1>10. \A i \in 1 .. Len(p) : p[i] \in W /\ p[i] # r
  <2>1. q[n] = r
    BY <1>1 DEF q
  <2> SUFFICES ASSUME NEW i \in 1 .. Len(p) PROVE p[i] \in W /\ p[i] # r
    OBVIOUS
  <2>2. \E j \in 1 .. Len(q) : j # n /\ p[i] = q[j]
    BY <1>2, <1>5, <1>7, SMTT(30)
  <2> QED
    BY <1>2, <1>9, <2>1, <2>2
<1>11. \A w \in W \ {r} : \E i \in 1 .. Len(p) : p[i] = w
  <2> SUFFICES ASSUME NEW w \in W \ {r} PROVE \E i \in 1 .. Len(p) : p[i] = w
    OBVIOUS
  <2>1. PICK j \in 1 .. Len(q) : q[j] = w
    BY <1>9
  <2>2. j # n
    BY <1>1, <2>1 DEF q
  <2>3. CASE j < n
    BY <1>2, <1>5, <1>7, <2>1, <2>3
  <2>4. CASE j > n
    <3>1. j - 1 \in 1 .. Len(p) /\ ~(j - 1 < n) /\ (j - 1) + 1 = j
      BY <1>2, <1>5, <2>4
    <3> QED
      BY <1>7, <2>1, <3>1
  <2> QED
    BY <1>2, <2>2, <2>3, <2>4
<1>12. \A i, j \in 1 .. Len(p) : p[i] = p[j] => i = j
  BY <1>2, <1>5, <1>7, <1>9
<1>13. DOMAIN t.waiters = 1 .. Len(p)
  BY <1>5, <1>8
<1>14. {t.waiters[i] : i \in DOMAIN t.waiters} = W \ {r}
  BY <1>8, <1>10, <1>11, <1>13
<1>15. t.granted \subseteq W \ {r}
  BY <1>8 DEF Queues
<1> QED
  BY <1>8, <1>12, <1>13, <1>14, <1>15 DEF Queues, LeftBy

-----------------------------------------------------------------------------
(* The slots of EngineRunner.                                              *)

\* A request that leaves gives its slot to the next or back.
LEMMA LeaveKeeps ==
  ASSUME SlotInv, NEW r \in Holders, Leave, Holders' = Holders \ {r}, Waiting' = Waiting
  PROVE  Queues(slots, Waiting)' /\ SlotsConserved'
<1>1. Holders \in SUBSET Requests /\ Waiting \in SUBSET Requests
  BY DEF SlotInv, Holders, Waiting
<1>2. Queues(slots', Waiting) /\ Total(slots') = Total(slots) + 1
  BY <1>1, ReleaseKeeps DEF SlotInv, Leave
<1>3. Cardinality(Holders') = Cardinality(Holders) - 1
      /\ Cardinality(Holders) \in Nat /\ Cardinality(Waiting) \in Nat
  BY <1>1, Counting
<1>4. Total(slots) + Cardinality(Holders) = Slots
      /\ inFlight = Cardinality(Holders) /\ active = Cardinality(Holders) + Cardinality(Waiting)
  BY DEF SlotInv, SlotsConserved, Total
<1>5. Total(slots) \in Nat
  <2>1. slots.value \in Nat /\ slots.granted \in SUBSET Requests
    BY DEF SlotInv, Queues, SlotStates
  <2>2. Cardinality(slots.granted) \in Nat
    BY <2>1, Counting
  <2> QED
    BY <2>1, <2>2 DEF Total
<1>6. Total(slots') + Cardinality(Holders') = Slots
  BY <1>2, <1>3, <1>4, <1>5
<1>7. inFlight' = Cardinality(Holders') /\ active' = Cardinality(Holders') + Cardinality(Waiting)
  BY <1>3, <1>4 DEF Leave
<1> QED
  BY <1>2, <1>6, <1>7 DEF Queues, SlotsConserved, Total

\* A step that changes neither who holds nor who waits.
LEMMA QuietKeeps ==
  ASSUME SlotInv, UNCHANGED <<slots, active, inFlight>>, Holders' = Holders, Waiting' = Waiting
  PROVE  Queues(slots, Waiting)' /\ SlotsConserved'
  BY DEF SlotInv, Queues, SlotsConserved

THEOREM SlotsInit == Init => SlotInv
<1> SUFFICES ASSUME Init PROVE SlotInv
  OBVIOUS
<1>1. stage \in [Requests -> Stages] /\ Holders = {} /\ Waiting = {} /\ abandoned = {}
  BY DEF Init, Stages, Holders, Waiting
<1>2. slots = [value |-> Slots, waiters |-> <<>>, granted |-> {}] /\ active = 0 /\ inFlight = 0
  BY DEF Init
<1>3. Queues(slots, Waiting)
  BY <1>1, <1>2, ServingAssumption DEF Queues, SlotStates, ServingAssumption
<1>4. SlotsConserved
  BY <1>1, <1>2, FS_EmptySet, ServingAssumption DEF SlotsConserved, ServingAssumption
<1> QED
  BY <1>1, <1>3, <1>4 DEF SlotInv

\* Where a request holds a slot by its stage.
Holding == {"event", "sending", "joining"}

\* A request moves on without taking, giving or awaiting a slot.
LEMMA MoveQuiet ==
  ASSUME SlotInv, NEW r \in Requests, NEW s \in Stages, Becomes(r, s),
         UNCHANGED <<slots, active, inFlight, abandoned>>,
         stage[r] \in Holding <=> s \in Holding, stage[r] = "waiting" <=> s = "waiting",
         stage[r] = "last" => s \in {"last", "ended"}, stage[r] # "ended"
  PROVE  SlotInv'
<1>1. stage \in [Requests -> Stages] /\ stage' = [stage EXCEPT ![r] = s]
      /\ abandoned \subseteq {q \in Requests : stage[q] \in {"last", "ended"}}
  BY DEF SlotInv, Becomes
<1>2. stage' \in [Requests -> Stages]
      /\ abandoned' \subseteq {q \in Requests : stage'[q] \in {"last", "ended"}}
  BY <1>1
<1>3. Holders' = Holders /\ Waiting' = Waiting
  BY <1>1 DEF Holders, Waiting, Holding
<1> QED
  BY <1>2, <1>3, QuietKeeps DEF SlotInv

\* A request that holds a slot leaves the runner.
LEMMA MoveLeave ==
  ASSUME SlotInv, NEW r \in Requests, stage[r] \in Holding, Becomes(r, "last"), Leave,
         UNCHANGED abandoned
  PROVE  SlotInv'
<1>1. stage \in [Requests -> Stages] /\ stage' = [stage EXCEPT ![r] = "last"]
      /\ abandoned \subseteq {q \in Requests : stage[q] \in {"last", "ended"}}
  BY DEF SlotInv, Becomes
<1>2. stage' \in [Requests -> Stages]
      /\ abandoned' \subseteq {q \in Requests : stage'[q] \in {"last", "ended"}}
  BY <1>1 DEF Stages
<1>3. r \in Holders /\ Holders' = Holders \ {r} /\ Waiting' = Waiting
  BY <1>1 DEF Holders, Waiting, Holding
<1> QED
  BY <1>2, <1>3, LeaveKeeps DEF SlotInv

\* A generator that is dropped at its yield keeps its slot for the time being.
LEMMA MoveAbandon ==
  ASSUME SlotInv, NEW r \in Requests, stage[r] \in Holding, Becomes(r, "last"),
         abandoned' = abandoned \cup {r}, UNCHANGED <<slots, active, inFlight>>
  PROVE  SlotInv'
<1>1. stage \in [Requests -> Stages] /\ stage' = [stage EXCEPT ![r] = "last"]
      /\ abandoned \subseteq {q \in Requests : stage[q] \in {"last", "ended"}}
  BY DEF SlotInv, Becomes
<1>2. stage' \in [Requests -> Stages]
      /\ abandoned' \subseteq {q \in Requests : stage'[q] \in {"last", "ended"}}
  BY <1>1 DEF Stages
<1>3. Holders' = Holders /\ Waiting' = Waiting
  BY <1>1 DEF Holders, Waiting, Holding
<1> QED
  BY <1>2, <1>3, QuietKeeps DEF SlotInv

\* generate() takes a free slot, waits for one, or is refused.
LEMMA GenerateKeeps ==
  ASSUME SlotInv, NEW r \in Requests, Generate(r)
  PROVE  SlotInv'
<1>1. stage \in [Requests -> Stages] /\ stage[r] = "admitted" /\ abandoned' = abandoned
      /\ abandoned \subseteq {q \in Requests : stage[q] \in {"last", "ended"}}
  BY DEF SlotInv, Generate
<1>2. CASE ~accepting
  BY <1>1, <1>2, MoveQuiet DEF Generate, Stages, Holding
<1>3. CASE accepting /\ Locked
  <2>1. stage' = [stage EXCEPT ![r] = "waiting"] /\ active' = active + 1
        /\ inFlight' = inFlight /\ slots' = [slots EXCEPT !.waiters = Append(slots.waiters, r)]
    BY <1>3 DEF Generate, Becomes
  <2>2. stage' \in [Requests -> Stages]
        /\ abandoned' \subseteq {q \in Requests : stage'[q] \in {"last", "ended"}}
    BY <1>1, <2>1 DEF Stages
  <2>3. Holders' = Holders /\ Waiting' = Waiting \cup {r} /\ r \notin Waiting
    BY <1>1, <2>1 DEF Holders, Waiting
  <2>4. slots.waiters \in Seq(Requests) /\ slots \in SlotStates /\ slots.granted \subseteq Waiting
        /\ {slots.waiters[i] : i \in DOMAIN slots.waiters} = Waiting
        /\ \A i, j \in DOMAIN slots.waiters : slots.waiters[i] = slots.waiters[j] => i = j
    BY DEF SlotInv, Queues, SlotStates
  <2> DEFINE q == slots.waiters
             p == Append(q, r)
  <2>5. p \in Seq(Requests) /\ DOMAIN p = 1 .. Len(q) + 1 /\ DOMAIN q = 1 .. Len(q)
        /\ Len(q) \in Nat /\ p[Len(q) + 1] = r /\ \A i \in 1 .. Len(q) : p[i] = q[i]
    BY <2>4
  <2>6. slots' \in SlotStates /\ slots'.waiters = p /\ slots'.granted = slots.granted
        /\ slots'.value = slots.value
    BY <2>1, <2>4, <2>5 DEF SlotStates
  <2>7. {q[i] : i \in 1 .. Len(q)} = Waiting
        /\ \A i, j \in 1 .. Len(q) : q[i] = q[j] => i = j
    BY <2>4, <2>5
  <2> HIDE DEF p, q
  <2>8. {p[i] : i \in DOMAIN p} = Waiting \cup {r}
    BY <2>5, <2>7
  <2>9. \A i, j \in DOMAIN p : p[i] = p[j] => i = j
    BY <2>3, <2>5, <2>7
  <2>10. Queues(slots, Waiting)'
    BY <2>3, <2>4, <2>6, <2>8, <2>9 DEF Queues
  <2>11. Cardinality(Waiting') = Cardinality(Waiting) + 1 /\ Cardinality(Waiting) \in Nat
         /\ Cardinality(Holders) \in Nat
    BY <2>3, Counting, <1>1 DEF Waiting, Holders
  <2>12. SlotsConserved'
    BY <2>1, <2>3, <2>6, <2>11 DEF SlotInv, SlotsConserved
  <2> QED
    BY <2>2, <2>10, <2>12 DEF SlotInv
<1>4. CASE accepting /\ ~Locked
  <2>1. stage' = [stage EXCEPT ![r] = "event"] /\ active' = active + 1
        /\ inFlight' = inFlight + 1 /\ slots' = [slots EXCEPT !.value = slots.value - 1]
    BY <1>4 DEF Generate, Becomes, Begin
  <2>2. stage' \in [Requests -> Stages]
        /\ abandoned' \subseteq {q \in Requests : stage'[q] \in {"last", "ended"}}
    BY <1>1, <2>1 DEF Stages
  <2>3. Holders' = Holders \cup {r} /\ r \notin Holders /\ Waiting' = Waiting
    BY <1>1, <2>1 DEF Holders, Waiting
  <2>4. slots \in SlotStates /\ slots.value \in Nat /\ slots.value # 0
    BY <1>4 DEF SlotInv, Queues, SlotStates, Locked
  <2>5. slots' \in SlotStates /\ slots'.waiters = slots.waiters
        /\ slots'.granted = slots.granted /\ slots'.value = slots.value - 1
    BY <2>1, <2>4 DEF SlotStates
  <2>6. Queues(slots, Waiting)'
    BY <2>3, <2>5 DEF SlotInv, Queues
  <2>7. Cardinality(Holders') = Cardinality(Holders) + 1 /\ Cardinality(Waiting) \in Nat
        /\ Cardinality(Holders) \in Nat
    BY <2>3, Counting, <1>1 DEF Waiting, Holders
  <2>8. Cardinality(slots.granted) \in Nat
    BY Counting, <2>4 DEF SlotStates
  <2>9. SlotsConserved'
    BY <2>1, <2>3, <2>4, <2>5, <2>7, <2>8 DEF SlotInv, SlotsConserved
  <2> QED
    BY <2>2, <2>6, <2>9 DEF SlotInv
<1> QED
  BY <1>2, <1>3, <1>4

\* A woken waiter takes the slot it was promised.
LEMMA ResumeKeeps ==
  ASSUME SlotInv, NEW r \in Requests, Resume(r)
  PROVE  SlotInv'
<1>1. stage \in [Requests -> Stages] /\ stage[r] = "waiting" /\ r \in slots.granted
      /\ stage' = [stage EXCEPT ![r] = "event"] /\ abandoned' = abandoned
      /\ abandoned \subseteq {q \in Requests : stage[q] \in {"last", "ended"}}
      /\ inFlight' = inFlight + 1 /\ active' = active
  BY DEF SlotInv, Resume, Begin, Becomes
<1>2. stage' \in [Requests -> Stages]
      /\ abandoned' \subseteq {q \in Requests : stage'[q] \in {"last", "ended"}}
  BY <1>1 DEF Stages
<1>3. Holders' = Holders \cup {r} /\ r \notin Holders
      /\ Waiting' = Waiting \ {r} /\ r \in Waiting
      /\ Holders \in SUBSET Requests /\ Waiting \in SUBSET Requests
  BY <1>1 DEF Holders, Waiting
<1>4. Queues(slots, Waiting)
  BY DEF SlotInv
<1>5. PICK s \in Without(r, slots) : slots' \in IF s.value > 0 THEN Wake(s) ELSE {s}
  BY DEF Resume, Acquired
<1>6. Queues(s, Waiting') /\ s.value = slots.value /\ s.granted = slots.granted \ {r}
  <2>1. s \in Without(r, slots)
    BY <1>5
  <2>2. Waiting \in SUBSET Requests /\ r \in Waiting
    BY <1>3
  <2>3. Queues(s, Waiting \ {r}) /\ LeftBy(r, slots, s)
    BY <1>4, <2>1, <2>2, WithoutKeeps
  <2> QED
    BY <1>3, <2>3 DEF LeftBy
<1>7. slots.value \in Nat /\ slots.granted \in SUBSET Requests
  BY <1>4 DEF Queues, SlotStates
<1>8. Cardinality(s.granted) = Cardinality(slots.granted) - 1
      /\ Cardinality(slots.granted) \in Nat
  BY <1>1, <1>6, <1>7, Counting
<1>9. Queues(slots', Waiting') /\ Total(slots') = Total(s)
  <2>1. CASE s.value > 0
    <3>1. Waiting' \in SUBSET Requests
      BY <1>3
    <3> QED
      BY <1>5, <1>6, <2>1, <3>1, WakeKeeps
  <2>2. CASE ~(s.value > 0)
    BY <1>5, <1>6, <2>2
  <2> QED
    BY <2>1, <2>2
<1>10. slots'.value + Cardinality(slots'.granted)
         = slots.value + Cardinality(slots.granted) - 1
  BY <1>6, <1>7, <1>8, <1>9 DEF Total
<1>11. Cardinality(Holders') = Cardinality(Holders) + 1
       /\ Cardinality(Waiting') = Cardinality(Waiting) - 1
       /\ Cardinality(Holders) \in Nat /\ Cardinality(Waiting) \in Nat
  BY <1>3, Counting
<1>12. SlotsConserved'
  <2>1. slots'.value + Cardinality(slots'.granted) + Cardinality(Holders') = Slots
    BY <1>7, <1>8, <1>10, <1>11 DEF SlotInv, SlotsConserved
  <2>2. inFlight' = Cardinality(Holders')
        /\ active' = Cardinality(Holders') + Cardinality(Waiting')
    BY <1>1, <1>11 DEF SlotInv, SlotsConserved
  <2> QED
    BY <2>1, <2>2 DEF SlotsConserved
<1>13. Queues(slots, Waiting)'
  BY <1>9
<1> QED
  BY <1>2, <1>12, <1>13 DEF SlotInv

\* A waiter that is cancelled passes on a slot it was promised.
LEMMA CancelledWaiterKeeps ==
  ASSUME SlotInv, NEW r \in Requests, stage[r] = "waiting", slots' \in Unacquired(r),
         active' = active - 1, Becomes(r, "last"), UNCHANGED <<inFlight, abandoned>>
  PROVE  SlotInv'
<1>1. stage \in [Requests -> Stages] /\ stage' = [stage EXCEPT ![r] = "last"]
      /\ abandoned \subseteq {q \in Requests : stage[q] \in {"last", "ended"}}
  BY DEF SlotInv, Becomes
<1>2. stage' \in [Requests -> Stages]
      /\ abandoned' \subseteq {q \in Requests : stage'[q] \in {"last", "ended"}}
  BY <1>1 DEF Stages
<1>3. Holders' = Holders /\ Waiting' = Waiting \ {r} /\ r \in Waiting
      /\ Holders \in SUBSET Requests /\ Waiting \in SUBSET Requests
  BY <1>1 DEF Holders, Waiting
<1>4. Queues(slots, Waiting)
  BY DEF SlotInv
<1>5. PICK s \in Without(r, slots) : slots' \in IF r \in slots.granted THEN Release(s) ELSE {s}
  BY DEF Unacquired
<1>6. Queues(s, Waiting') /\ s.value = slots.value /\ s.granted = slots.granted \ {r}
  <2>1. s \in Without(r, slots)
    BY <1>5
  <2>2. Waiting \in SUBSET Requests /\ r \in Waiting
    BY <1>3
  <2>3. Queues(s, Waiting \ {r}) /\ LeftBy(r, slots, s)
    BY <1>4, <2>1, <2>2, WithoutKeeps
  <2> QED
    BY <1>3, <2>3 DEF LeftBy
<1>7. slots.value \in Nat /\ slots.granted \in SUBSET Requests
      /\ Cardinality(slots.granted) \in Nat
  <2>1. slots.value \in Nat /\ slots.granted \in SUBSET Requests
    BY <1>4 DEF Queues, SlotStates
  <2> QED
    BY <2>1, Counting
<1>8. Queues(slots', Waiting')
      /\ slots'.value + Cardinality(slots'.granted) = slots.value + Cardinality(slots.granted)
  <2>1. CASE r \in slots.granted
    <3>1. Cardinality(s.granted) = Cardinality(slots.granted) - 1
      BY <1>6, <1>7, <2>1, Counting
    <3>2. Waiting' \in SUBSET Requests
      BY <1>3
    <3>3. Queues(slots', Waiting') /\ Total(slots') = Total(s) + 1
      BY <1>5, <1>6, <2>1, <3>2, ReleaseKeeps
    <3> QED
      BY <1>6, <1>7, <3>1, <3>3 DEF Total
  <2>2. CASE r \notin slots.granted
    <3>1. slots' = s /\ s.granted = slots.granted
      BY <1>5, <1>6, <2>2
    <3> QED
      BY <1>6, <3>1
  <2> QED
    BY <2>1, <2>2
<1>9. Cardinality(Waiting') = Cardinality(Waiting) - 1
      /\ Cardinality(Holders) \in Nat /\ Cardinality(Waiting) \in Nat
  BY <1>3, Counting
<1>10. SlotsConserved'
  BY <1>3, <1>8, <1>9 DEF SlotInv, SlotsConserved
<1>11. Queues(slots, Waiting)'
  BY <1>8
<1> QED
  BY <1>2, <1>10, <1>11 DEF SlotInv

LEMMA CloseKeeps ==
  ASSUME SlotInv, NEW r \in Requests, CloseGenerator(r)
  PROVE  SlotInv'
<1>1. stage \in [Requests -> Stages] /\ stage' = stage /\ abandoned' = abandoned \ {r}
      /\ r \in abandoned /\ Leave
      /\ abandoned \subseteq {q \in Requests : stage[q] \in {"last", "ended"}}
  BY DEF SlotInv, CloseGenerator, requestVars
<1>2. stage' \in [Requests -> Stages]
      /\ abandoned' \subseteq {q \in Requests : stage'[q] \in {"last", "ended"}}
  BY <1>1
<1>3. r \in Holders /\ Holders' = Holders \ {r} /\ Waiting' = Waiting
  BY <1>1 DEF Holders, Waiting
<1> QED
  BY <1>1, <1>2, <1>3, LeaveKeeps DEF SlotInv

LEMMA TakeItemKeeps ==
  ASSUME SlotInv, NEW r \in Requests, TakeItem(r)
  PROVE  SlotInv'
<1> DEFINE item == Head(mailbox[r])
<1>1. stage[r] = "event" /\ stage[r] \in Holding
  BY DEF TakeItem, Holding
<1>2. CASE item \in {"end", "capacity", "failure"}
  <2>1. LoopOver(r, item) /\ abandoned' = abandoned
    BY <1>2 DEF TakeItem
  <2>2. CASE worker[r] = "dead"
    BY <1>1, <2>1, <2>2, MoveLeave DEF LoopOver, LastFrames
  <2>3. CASE worker[r] # "dead"
    BY <1>1, <2>1, <2>3, MoveQuiet DEF LoopOver, Holding, Stages
  <2> QED
    BY <2>2, <2>3
<1>3. CASE item \notin {"end", "capacity", "failure"} /\ Acceptable(r, item)
  <2>1. PICK s \in {"sending", "event"} : Becomes(r, s)
    BY <1>3 DEF TakeItem
  <2>2. UNCHANGED <<slots, active, inFlight, abandoned>>
    BY <1>3 DEF TakeItem
  <2> QED
    BY <1>1, <2>1, <2>2, MoveQuiet DEF Holding, Stages
<1>4. CASE item \notin {"end", "capacity", "failure"} /\ ~Acceptable(r, item)
  BY <1>1, <1>4, MoveAbandon DEF TakeItem
<1> QED
  BY <1>2, <1>3, <1>4

LEMMA CancelKeeps ==
  ASSUME SlotInv, NEW r \in Requests, Cancel(r)
  PROVE  SlotInv'
<1>1. CASE stage[r] \in {"admitted", "last"}
  BY <1>1, MoveQuiet DEF Cancel, Holding, Stages
<1>2. CASE stage[r] = "waiting"
  BY <1>2, CancelledWaiterKeeps DEF Cancel
<1>3. CASE stage[r] = "event" /\ worker[r] # "dead"
  BY <1>3, MoveQuiet DEF Cancel, Holding, Stages
<1>4. CASE stage[r] = "sending"
  BY <1>4, MoveAbandon DEF Cancel, Holding
<1>5. CASE stage[r] = "joining" \/ (stage[r] = "event" /\ worker[r] = "dead")
  <2>1. Becomes(r, "last") /\ Leave /\ abandoned' = abandoned
    BY <1>5 DEF Cancel
  <2> QED
    BY <1>5, <2>1, MoveLeave DEF Holding
<1> QED
  BY <1>1, <1>2, <1>3, <1>4, <1>5 DEF Cancel

\* What leaves the coroutines alone leaves the slots alone.
LEMMA ElsewhereKeeps ==
  ASSUME SlotInv, UNCHANGED <<stage, slots, active, inFlight, abandoned>>
  PROVE  SlotInv'
<1>1. Holders' = Holders /\ Waiting' = Waiting
  BY DEF Holders, Waiting
<1> QED
  BY <1>1, QuietKeeps DEF SlotInv

LEMMA SlotsStep == SlotInv /\ [Next]_vars => SlotInv'
<1> SUFFICES ASSUME SlotInv, [Next]_vars PROVE SlotInv'
  OBVIOUS
<1> USE DEF requestVars, runnerVars
<1>1. ASSUME NEW r \in Requests, Unauthenticated(r) PROVE SlotInv'
  BY <1>1, MoveQuiet DEF Unauthenticated, Holding, Stages
<1>2. ASSUME NEW r \in Requests, Reserve(r) PROVE SlotInv'
  <2>1. PICK s \in {"ended", "admitted"} : Becomes(r, s)
    BY <1>2 DEF Reserve
  <2> QED
    BY <1>2, <2>1, MoveQuiet DEF Reserve, Holding, Stages
<1>3. ASSUME NEW r \in Requests, Handle(r) PROVE SlotInv'
  <2>1. CASE Settle(r)
    BY <2>1, MoveQuiet DEF Settle, Holding, Stages
  <2>2. CASE Invalid(r)
    BY <2>2, MoveQuiet DEF Invalid, Holding, Stages
  <2>3. CASE Generate(r)
    BY <2>3, GenerateKeeps
  <2>4. CASE Resume(r)
    BY <2>4, ResumeKeeps
  <2>5. CASE TakeItem(r)
    BY <2>5, TakeItemKeeps
  <2>6. CASE Send(r)
    BY <2>6, MoveQuiet DEF Send, Holding, Stages
  <2>7. CASE Join(r)
    BY <2>7, MoveLeave DEF Join, LastFrames, Holding
  <2> QED
    BY <1>3, <2>1, <2>2, <2>3, <2>4, <2>5, <2>6, <2>7 DEF Handle
<1>4. ASSUME NEW r \in Requests, Work(r) PROVE SlotInv'
  BY <1>4, ElsewhereKeeps DEF Work, StartBranch, MakeToken, WorkerEnds, ThreadExits, ThreadStep
<1>5. CASE WindowPasses \/ Shutdown \/ ShutdownReturns
  BY <1>5, ElsewhereKeeps DEF WindowPasses, Shutdown, ShutdownReturns
<1>6. CASE UNCHANGED vars
  BY <1>6, ElsewhereKeeps DEF vars
<1> QED
  BY <1>1, <1>2, <1>3, <1>4, <1>5, <1>6, CancelKeeps, CloseKeeps DEF Next

\* However many requests come, and whatever is cancelled when, no slot of the
\* runner is lost and none is given twice (EngineRunner.generate).
THEOREM SlotsConservedAlways == Spec => []SlotsConserved
<1>1. SlotInv => SlotsConserved
  BY DEF SlotInv
<1> QED
  BY <1>1, SlotsInit, SlotsStep, PTL DEF Spec

-----------------------------------------------------------------------------
(* The gauge.                                                              *)

Accounts == [started : BOOLEAN, tokens : Nat, done : BOOLEAN]

Open == {r \in Requests : heard[r].started /\ ~heard[r].done}

GaugeInv == heard \in [Requests -> Accounts] /\ gauge = Cardinality(Open)

LEMMA GaugeInit == Init => GaugeInv
<1> SUFFICES ASSUME Init PROVE GaugeInv
  OBVIOUS
<1>1. heard \in [Requests -> Accounts] /\ Open = {} /\ gauge = 0
  BY DEF Init, Accounts, Open
<1> QED
  BY <1>1, FS_EmptySet DEF GaugeInv

\* An event that is accepted opens the branch, leaves it, or ends it.
LEMMA GaugeItem ==
  ASSUME GaugeInv, NEW r \in Requests, NEW item, Acceptable(r, item), Accepted(r, item),
         Observed(item)
  PROVE  GaugeInv'
<1>1. heard \in [Requests -> Accounts] /\ gauge = Cardinality(Open)
      /\ Open \in SUBSET Requests /\ heard[r] \in Accounts /\ ~heard[r].done
  BY DEF GaugeInv, Open, Acceptable
<1> DEFINE next == [started |-> TRUE, done |-> item = "done",
                   tokens |-> IF item = "token" THEN heard[r].tokens + 1 ELSE heard[r].tokens]
<1>2. heard' = [heard EXCEPT ![r] = next]
  BY DEF Accepted
<1>3. next \in Accounts /\ next.started /\ (next.done <=> item = "done")
  <2>1. (IF item = "token" THEN heard[r].tokens + 1 ELSE heard[r].tokens) \in Nat
    BY <1>1 DEF Accounts
  <2>2. (item = "done") \in BOOLEAN
    OBVIOUS
  <2> QED
    BY <2>1, <2>2, Zenon DEF Accounts
<1> HIDE DEF next
<1>4. heard' \in [Requests -> Accounts] /\ heard'[r] = next
      /\ \A q \in Requests \ {r} : heard'[q] = heard[q]
  BY <1>1, <1>2, <1>3
<1>5. CASE item = "started"
  <2>1. ~heard[r].started /\ gauge' = gauge + 1
    BY <1>5 DEF Acceptable, Observed
  <2>2. Open' = Open \cup {r} /\ r \notin Open
    BY <1>3, <1>4, <1>5, <2>1 DEF Open
  <2> QED
    BY <1>1, <1>4, <2>1, <2>2, Counting DEF GaugeInv
<1>6. CASE item = "token"
  <2>1. heard[r].started /\ gauge' = gauge
    BY <1>6 DEF Acceptable, Observed
  <2>2. Open' = Open
    BY <1>1, <1>3, <1>4, <1>6, <2>1 DEF Open
  <2> QED
    BY <1>1, <1>4, <2>1, <2>2 DEF GaugeInv
<1>7. CASE item = "done"
  <2>1. heard[r].started /\ gauge' = gauge - 1
    BY <1>7 DEF Acceptable, Observed
  <2>2. Open' = Open \ {r} /\ r \in Open
    BY <1>1, <1>3, <1>4, <1>7, <2>1 DEF Open
  <2> QED
    BY <1>1, <1>4, <2>1, <2>2, Counting DEF GaugeInv
<1> QED
  BY <1>5, <1>6, <1>7 DEF Acceptable

LEMMA GaugeStep == GaugeInv /\ [Next]_vars => GaugeInv'
<1> SUFFICES ASSUME GaugeInv, [Next]_vars PROVE GaugeInv'
  OBVIOUS
<1>1. ASSUME UNCHANGED <<heard, gauge>> PROVE GaugeInv'
  BY <1>1 DEF GaugeInv, Open
<1>2. ASSUME NEW r \in Requests, TakeItem(r) PROVE GaugeInv'
  <2> DEFINE item == Head(mailbox[r])
  <2>1. CASE item \in {"end", "capacity", "failure"} \/ ~Acceptable(r, item)
    BY <1>1, <1>2, <2>1 DEF TakeItem
  <2>2. CASE item \notin {"end", "capacity", "failure"} /\ Acceptable(r, item)
    <3>1. Accepted(r, item) /\ Observed(item)
      BY <1>2, <2>2 DEF TakeItem
    <3> QED
      BY <2>2, <3>1, GaugeItem
  <2> QED
    BY <2>1, <2>2
<1>3. CASE \E r \in Requests : \/ Unauthenticated(r) \/ Reserve(r) \/ Cancel(r)
                               \/ CloseGenerator(r) \/ Work(r) \/ Settle(r) \/ Invalid(r)
                               \/ Generate(r) \/ Resume(r) \/ Send(r) \/ Join(r)
  BY <1>1, <1>3 DEF Unauthenticated, Reserve, Cancel, CloseGenerator, Work, StartBranch, MakeToken,
     WorkerEnds, ThreadExits, ThreadStep, Settle, Invalid, Generate, Resume, Send, Join, requestVars
<1>4. CASE WindowPasses \/ Shutdown \/ ShutdownReturns \/ UNCHANGED vars
  BY <1>1, <1>4 DEF WindowPasses, Shutdown, ShutdownReturns, vars, requestVars
<1> QED
  BY <1>2, <1>3, <1>4 DEF Next, Handle

\* The gauge of active branches is the number of branches whose end has not
\* been heard of, for good where a generation was cut (ServeMetrics.observe_event).
THEOREM GaugeExactAlways == Spec => []GaugeExact
<1>1. GaugeInv => GaugeExact
  BY DEF GaugeInv, GaugeExact, Open
<1> QED
  BY <1>1, GaugeInit, GaugeStep, PTL DEF Spec

-----------------------------------------------------------------------------
(* Shutdown.                                                               *)

DrainInv == closed => ~accepting /\ Holders \cup Waiting = {}

Shrinks == (Holders \cup Waiting)' \subseteq Holders \cup Waiting

\* Where nobody is admitted nobody starts to hold or await a slot.
LEMMA NobodyComes ==
  ASSUME SlotInv, [Next]_vars, ~accepting
  PROVE  ~accepting' /\ Shrinks
<1>1. stage \in [Requests -> Stages]
  BY DEF SlotInv
<1>2. ASSUME UNCHANGED <<stage, abandoned>> PROVE Shrinks
  BY <1>2 DEF Shrinks, Holders, Waiting
<1>3. ASSUME NEW r \in Requests, NEW s, Becomes(r, s), UNCHANGED abandoned,
             stage[r] \in Holding \/ s \notin Holding, s # "waiting"
      PROVE  Shrinks
  BY <1>1, <1>3 DEF Becomes, Holding, Shrinks, Holders, Waiting
<1>4. ASSUME NEW r \in Requests, Becomes(r, "last"), abandoned' = abandoned \cup {r},
             stage[r] \in Holding
      PROVE  Shrinks
  BY <1>1, <1>4 DEF Becomes, Holding, Shrinks, Holders, Waiting
<1> USE DEF requestVars, runnerVars
<1>5. ASSUME NEW r \in Requests, Unauthenticated(r) \/ Settle(r) \/ Invalid(r)
      PROVE  ~accepting' /\ Shrinks
  BY <1>3, <1>5 DEF Unauthenticated, Settle, Invalid, Holding
<1>6. ASSUME NEW r \in Requests, Reserve(r) PROVE ~accepting' /\ Shrinks
  <2>1. PICK s \in {"ended", "admitted"} : Becomes(r, s)
    BY <1>6 DEF Reserve
  <2> QED
    BY <1>3, <1>6, <2>1 DEF Reserve, Holding
<1>7. ASSUME NEW r \in Requests, Generate(r) PROVE ~accepting' /\ Shrinks
  BY <1>3, <1>7 DEF Generate, Holding
<1>8. ASSUME NEW r \in Requests, Resume(r) PROVE ~accepting' /\ Shrinks
  <2>1. stage[r] = "waiting" /\ stage' = [stage EXCEPT ![r] = "event"] /\ abandoned' = abandoned
    BY <1>8 DEF Resume, Begin, Becomes
  <2> QED
    BY <1>1, <1>8, <2>1 DEF Resume, Shrinks, Holders, Waiting
<1>9. ASSUME NEW r \in Requests, TakeItem(r) PROVE ~accepting' /\ Shrinks
  <2> DEFINE item == Head(mailbox[r])
  <2>1. stage[r] \in Holding /\ ~accepting'
    BY <1>9 DEF TakeItem, Holding
  <2>2. CASE item \in {"end", "capacity", "failure"}
    <3>1. LoopOver(r, item) /\ abandoned' = abandoned
      BY <1>9, <2>2 DEF TakeItem
    <3>2. PICK s \in {"last", "joining"} : Becomes(r, s)
      BY <3>1 DEF LoopOver, LastFrames
    <3> QED
      BY <1>3, <2>1, <3>1, <3>2
  <2>3. CASE item \notin {"end", "capacity", "failure"} /\ Acceptable(r, item)
    <3>1. PICK s \in {"sending", "event"} : Becomes(r, s)
      BY <1>9, <2>3 DEF TakeItem
    <3>2. UNCHANGED abandoned
      BY <1>9, <2>3 DEF TakeItem
    <3> QED
      BY <1>3, <2>1, <3>1, <3>2
  <2>4. CASE item \notin {"end", "capacity", "failure"} /\ ~Acceptable(r, item)
    BY <1>4, <1>9, <2>1, <2>4 DEF TakeItem
  <2> QED
    BY <2>2, <2>3, <2>4
<1>10. ASSUME NEW r \in Requests, Send(r) \/ Join(r) PROVE ~accepting' /\ Shrinks
  <2>1. PICK s \in {"last", "event"} : Becomes(r, s)
    BY <1>10 DEF Send, Join, LastFrames
  <2> QED
    BY <1>3, <1>10, <2>1 DEF Send, Join, Holding
<1>11. ASSUME NEW r \in Requests, Cancel(r) PROVE ~accepting' /\ Shrinks
  <2>1. ~accepting'
    BY <1>11 DEF Cancel
  <2>2. CASE stage[r] = "sending"
    BY <1>4, <1>11, <2>1, <2>2 DEF Cancel, Holding
  <2>3. CASE stage[r] = "event" /\ worker[r] # "dead"
    BY <1>3, <1>11, <2>1, <2>3 DEF Cancel, Holding
  <2>4. CASE stage[r] # "sending" /\ ~(stage[r] = "event" /\ worker[r] # "dead")
    <3>1. Becomes(r, "last") /\ UNCHANGED abandoned
      BY <1>11, <2>4 DEF Cancel
    <3> QED
      BY <1>3, <2>1, <3>1 DEF Holding
  <2> QED
    BY <2>2, <2>3, <2>4
<1>12. ASSUME NEW r \in Requests, CloseGenerator(r) PROVE ~accepting' /\ Shrinks
  BY <1>12 DEF CloseGenerator, Shrinks, Holders, Waiting
<1>13. ASSUME NEW r \in Requests, Work(r) PROVE ~accepting' /\ Shrinks
  BY <1>2, <1>13 DEF Work, StartBranch, MakeToken, WorkerEnds, ThreadExits, ThreadStep
<1>14. CASE WindowPasses \/ Shutdown \/ ShutdownReturns \/ UNCHANGED vars
  BY <1>2, <1>14 DEF WindowPasses, Shutdown, ShutdownReturns, vars
<1> QED
  BY <1>5, <1>6, <1>7, <1>8, <1>9, <1>10, <1>11, <1>12, <1>13, <1>14 DEF Next, Handle

LEMMA DrainInit == Init => DrainInv
  BY DEF Init, DrainInv

LEMMA DrainStep == DrainInv /\ SlotInv /\ [Next]_vars => DrainInv'
<1> SUFFICES ASSUME DrainInv, SlotInv, [Next]_vars PROVE DrainInv'
  OBVIOUS
<1>1. CASE closed
  BY <1>1, NobodyComes DEF DrainInv, Shrinks
<1>2. CASE ~closed /\ ShutdownReturns
  <2>1. ~accepting /\ active = 0 /\ UNCHANGED <<accepting, stage, abandoned>>
    BY <1>2 DEF ShutdownReturns, Drained, requestVars
  <2>2. Holders \in SUBSET Requests /\ Waiting \in SUBSET Requests
    BY DEF SlotInv, Holders, Waiting
  <2>3. IsFiniteSet(Holders) /\ Cardinality(Holders) \in Nat
        /\ IsFiniteSet(Waiting) /\ Cardinality(Waiting) \in Nat
    BY <2>2, Counting
  <2>4. Cardinality(Holders) = 0 /\ Cardinality(Waiting) = 0
    BY <2>1, <2>3 DEF SlotInv, SlotsConserved
  <2>5. Holders = {} /\ Waiting = {}
    BY <2>3, <2>4, FS_EmptySet
  <2> QED
    BY <2>1, <2>5 DEF DrainInv, Holders, Waiting
<1>3. CASE ~closed /\ ~ShutdownReturns
  <2>1. closed' = closed
    <3>1. ASSUME NEW r \in Requests,
             Unauthenticated(r) \/ Reserve(r) \/ CloseGenerator(r) \/ Cancel(r)
          PROVE  closed' = closed
      BY <3>1 DEF Unauthenticated, Reserve, CloseGenerator, Cancel, runnerVars
    <3>2. ASSUME NEW r \in Requests, Handle(r) PROVE closed' = closed
      BY <3>2 DEF Handle, Settle, Invalid, Generate, Resume, TakeItem, Send, Join, runnerVars
    <3>3. ASSUME NEW r \in Requests, Work(r) PROVE closed' = closed
      BY <3>3 DEF Work, StartBranch, MakeToken, WorkerEnds, ThreadExits, ThreadStep, runnerVars
    <3>4. CASE WindowPasses \/ Shutdown \/ UNCHANGED vars
      BY <3>4 DEF WindowPasses, Shutdown, vars, runnerVars
    <3> QED
      BY <1>3, <3>1, <3>2, <3>3, <3>4 DEF Next
  <2> QED
    BY <1>3, <2>1 DEF DrainInv
<1> QED
  BY <1>1, <1>2, <1>3

-----------------------------------------------------------------------------
(* Answers.                                                                *)

LastItems == {"end", "capacity", "failure"}
Items == LastItems \cup {"started", "token", "done", "bad"}
WorkerStates == {"none", "running", "started", "ending", "dead"}

\* The tokens of q are its items after the first a, up to the z-th.
TokenRun(q, a, z) ==
  /\ a \in 0 .. z /\ z \in 0 .. Len(q)
  /\ \A i \in 1 .. Len(q) : q[i] = "token" <=> a < i /\ i <= z

\* A request that heard h tokens, whose thread is at w and has made n, has the
\* others in its mailbox q, which ends with the thread.
Mail(q, h, n, w) ==
  /\ q \in Seq(Items) /\ w # "none" /\ h \in Nat
  /\ \E a, z : TokenRun(q, a, z) /\ n = h + (z - a)
               /\ (w \in {"running", "started"} => z = Len(q))
  /\ w = "running" => q = <<>>
  /\ \A i \in 1 .. Len(q) :
       q[i] = "end" => i = Len(q) /\ w \notin {"running", "started"}

LEMMA MailBegins == Mail(<<>>, 0, 0, "running")
<1>1. TokenRun(<<>>, 0, 0) /\ Len(<<>>) = 0 /\ 0 = 0 + (0 - 0) /\ <<>> \in Seq(Items)
  BY DEF TokenRun
<1> QED
  BY <1>1 DEF Mail

\* What a mailbox looks like with more behind it.
LEMMA Longer ==
  ASSUME NEW q \in Seq(Items), NEW p \in Seq(Items)
  PROVE  /\ q \o p \in Seq(Items) /\ Len(q \o p) = Len(q) + Len(p)
         /\ \A i \in 1 .. Len(q) : (q \o p)[i] = q[i]
         /\ \A i \in 1 .. Len(p) : (q \o p)[Len(q) + i] = p[i]
         /\ \A i \in 1 .. Len(q) + Len(p) : i \in 1 .. Len(q) \/
              \E j \in 1 .. Len(p) : i = Len(q) + j
<1>1. \A i \in 1 .. Len(q) + Len(p) : i \in 1 .. Len(q) \/ \E j \in 1 .. Len(p) : i = Len(q) + j
  <2> SUFFICES ASSUME NEW i \in 1 .. Len(q) + Len(p), i \notin 1 .. Len(q)
               PROVE  \E j \in 1 .. Len(p) : i = Len(q) + j
    OBVIOUS
  <2>1. i - Len(q) \in 1 .. Len(p) /\ i = Len(q) + (i - Len(q))
    OBVIOUS
  <2> QED
    BY <2>1
<1> QED
  BY <1>1

\* The thread yields its branch.
LEMMA MailStarted ==
  ASSUME NEW q, NEW h, NEW n, Mail(q, h, n, "running")
  PROVE  Mail(q \o <<"started">>, h, n, "started")
<1> DEFINE p == <<"started">>
<1>1. q = <<>> /\ h \in Nat
  BY DEF Mail
<1>2. PICK a, z : TokenRun(q, a, z) /\ n = h + (z - a)
  BY DEF Mail
<1>3. a = 0 /\ z = 0 /\ n = h
  BY <1>1, <1>2 DEF TokenRun
<1>4. q \o p = p /\ p \in Seq(Items) /\ Len(p) = 1 /\ p[1] = "started"
  BY <1>1 DEF Items
<1> HIDE DEF p
<1>5. TokenRun(p, 1, 1) /\ n = h + (1 - 1)
  BY <1>1, <1>3, <1>4 DEF TokenRun
<1>6. \A i \in 1 .. Len(p) : p[i] # "end"
  BY <1>4
<1> QED
  BY <1>1, <1>4, <1>5, <1>6 DEF Mail, p

\* It yields a token.
LEMMA MailToken ==
  ASSUME NEW q, NEW h, NEW n, Mail(q, h, n, "started")
  PROVE  Mail(q \o <<"token">>, h, n + 1, "started")
<1> DEFINE p == <<"token">>
           r == q \o p
<1>1. q \in Seq(Items) /\ h \in Nat /\ \A i \in 1 .. Len(q) : q[i] # "end"
  BY DEF Mail
<1>2. PICK a, z : TokenRun(q, a, z) /\ n = h + (z - a) /\ z = Len(q)
  BY DEF Mail
<1>3. p \in Seq(Items) /\ Len(p) = 1 /\ p[1] = "token"
  BY DEF Items
<1> HIDE DEF p
<1>4. /\ r \in Seq(Items) /\ Len(r) = Len(q) + 1
      /\ \A i \in 1 .. Len(q) : r[i] = q[i]
      /\ r[Len(q) + 1] = "token"
      /\ \A i \in 1 .. Len(q) + 1 : i \in 1 .. Len(q) \/ i = Len(q) + 1
  <2>1. /\ r \in Seq(Items) /\ Len(r) = Len(q) + Len(p)
        /\ \A i \in 1 .. Len(q) : r[i] = q[i]
        /\ \A i \in 1 .. Len(p) : r[Len(q) + i] = p[i]
    BY <1>1, <1>3, Longer
  <2>2. Len(q) \in Nat
    BY <1>1
  <2> HIDE DEF r
  <2> QED
    BY <1>3, <2>1, <2>2
<1> HIDE DEF r
<1>5. TokenRun(r, a, z + 1) /\ n + 1 = h + ((z + 1) - a) /\ z + 1 = Len(r)
  BY <1>1, <1>2, <1>4 DEF TokenRun
<1>6. \A i \in 1 .. Len(r) : r[i] # "end"
  BY <1>1, <1>4
<1>7. Mail(r, h, n + 1, "started")
  BY <1>1, <1>4, <1>5, <1>6 DEF Mail
<1> QED
  BY <1>7 DEF r, p

\* It ends.
LEMMA MailEnding ==
  ASSUME NEW q, NEW h, NEW n, NEW w \in {"running", "started"}, Mail(q, h, n, w),
         NEW last \in {<<>>, <<"done">>, <<"capacity">>, <<"failure">>, <<"bad">>}
  PROVE  Mail(q \o Append(last, "end"), h, n, "ending")
<1> DEFINE p == Append(last, "end")
           r == q \o p
<1>1. q \in Seq(Items) /\ h \in Nat /\ \A i \in 1 .. Len(q) : q[i] # "end"
  BY DEF Mail
<1>2. PICK a, z : TokenRun(q, a, z) /\ n = h + (z - a) /\ z = Len(q)
  BY DEF Mail
<1>3. /\ p \in Seq(Items) /\ Len(p) \in Nat
      /\ \A i \in 1 .. Len(p) : p[i] # "token" /\ (p[i] = "end" => i = Len(p))
  <2>1. CASE last = <<>>
    BY <2>1 DEF Items, LastItems
  <2>2. ASSUME NEW x \in {"done", "capacity", "failure", "bad"}, last = <<x>>
        PROVE  /\ p \in Seq(Items) /\ Len(p) \in Nat
               /\ \A i \in 1 .. Len(p) : p[i] # "token" /\ (p[i] = "end" => i = Len(p))
    <3>1. x \in Items /\ "end" \in Items /\ x # "end" /\ x # "token"
      BY DEF Items, LastItems
    <3>2. p \in Seq(Items) /\ Len(p) = 2 /\ p[1] = x /\ p[2] = "end"
      BY <2>2, <3>1
    <3> HIDE DEF p
    <3> QED
      BY <3>1, <3>2
  <2> QED
    BY <2>1, <2>2
<1> HIDE DEF p
<1>4. /\ r \in Seq(Items) /\ Len(r) = Len(q) + Len(p)
      /\ \A i \in 1 .. Len(q) : r[i] = q[i]
      /\ \A i \in 1 .. Len(p) : r[Len(q) + i] = p[i]
      /\ \A i \in 1 .. Len(q) + Len(p) : i \in 1 .. Len(q) \/
           \E j \in 1 .. Len(p) : i = Len(q) + j
  BY <1>1, <1>3, Longer
<1> HIDE DEF r
<1>5. TokenRun(r, a, z)
  <2>1. a \in 0 .. z /\ z \in 0 .. Len(r)
    BY <1>1, <1>2, <1>3, <1>4 DEF TokenRun
  <2>2. ASSUME NEW i \in 1 .. Len(r) PROVE r[i] = "token" <=> a < i /\ i <= z
    <3>1. CASE i \in 1 .. Len(q)
      BY <1>2, <1>4, <3>1 DEF TokenRun
    <3>2. CASE i \notin 1 .. Len(q)
      <4>1. PICK j \in 1 .. Len(p) : i = Len(q) + j
        BY <1>4, <3>2
      <4>2. r[i] # "token" /\ i > z
        BY <1>1, <1>2, <1>3, <1>4, <4>1
      <4> QED
        BY <1>1, <1>2, <4>1, <4>2
    <3> QED
      BY <3>1, <3>2
  <2> QED
    BY <2>1, <2>2 DEF TokenRun
<1>6. \A i \in 1 .. Len(r) : r[i] = "end" => i = Len(r)
  <2> SUFFICES ASSUME NEW i \in 1 .. Len(r), r[i] = "end" PROVE i = Len(r)
    OBVIOUS
  <2>1. i \notin 1 .. Len(q)
    BY <1>1, <1>4
  <2>2. PICK j \in 1 .. Len(p) : i = Len(q) + j
    BY <1>4, <2>1
  <2>3. p[j] = "end"
    BY <1>4, <2>2
  <2> QED
    BY <1>3, <1>4, <2>2, <2>3
<1>7. Mail(r, h, n, "ending")
  BY <1>1, <1>2, <1>4, <1>5, <1>6 DEF Mail
<1> QED
  BY <1>7 DEF r, p

LEMMA MailDead ==
  ASSUME NEW q, NEW h, NEW n, Mail(q, h, n, "ending")
  PROVE  Mail(q, h, n, "dead")
BY DEF Mail

\* An item is taken.
LEMMA MailTaken ==
  ASSUME NEW q, NEW h, NEW n, NEW w, Mail(q, h, n, w), q # <<>>
  PROVE  /\ Head(q) \in Items
         /\ Head(q) = "end" => h = n
         /\ Mail(Tail(q), IF Head(q) = "token" THEN h + 1 ELSE h, n, w)
<1> DEFINE p == Tail(q)
           g == IF Head(q) = "token" THEN h + 1 ELSE h
<1>1. /\ q \in Seq(Items) /\ h \in Nat /\ w # "none" /\ w # "running"
      /\ \A i \in 1 .. Len(q) : q[i] = "end" => i = Len(q) /\ w \notin {"running", "started"}
  BY DEF Mail
<1>2. PICK a, z : TokenRun(q, a, z) /\ n = h + (z - a) /\ (w = "started" => z = Len(q))
  BY DEF Mail
<1>3. /\ Head(q) = q[1] /\ Head(q) \in Items /\ 1 \in 1 .. Len(q) /\ Len(q) \in Nat
      /\ p \in Seq(Items) /\ Len(p) = Len(q) - 1
      /\ \A i \in 1 .. Len(p) : p[i] = q[i + 1] /\ i + 1 \in 1 .. Len(q)
  BY <1>1
<1> HIDE DEF p
<1>4. /\ a \in 0 .. z /\ z \in 0 .. Len(q)
      /\ \A i \in 1 .. Len(q) : q[i] = "token" <=> a < i /\ i <= z
  BY <1>2 DEF TokenRun
<1>5. a \in Nat /\ z \in Nat /\ a <= z /\ z <= Len(q)
  BY <1>3, <1>4
<1>6. Head(q) = "end" => h = n
  <2> SUFFICES ASSUME q[1] = "end" PROVE a = z
    BY <1>1, <1>2, <1>3, <1>5
  <2>1. Len(q) = 1 /\ ~(a < 1 /\ 1 <= z)
    BY <1>1, <1>3, <1>4
  <2> QED
    BY <1>5, <2>1
<1>7. \A i \in 1 .. Len(p) : p[i] = "end" => i = Len(p) /\ w \notin {"running", "started"}
  BY <1>1, <1>3
<1>8. \E b, y : TokenRun(p, b, y) /\ n = g + (y - b) /\ (w = "started" => y = Len(p))
  <2>1. CASE a > 0
    <3>1. g = h
      BY <1>3, <1>4, <1>5, <2>1
    <3>2. TokenRun(p, a - 1, z - 1)
      BY <1>3, <1>4, <1>5, <2>1 DEF TokenRun
    <3>3. n = g + ((z - 1) - (a - 1)) /\ (w = "started" => z - 1 = Len(p))
      BY <1>1, <1>2, <1>3, <1>5, <3>1
    <3> QED
      BY <3>2, <3>3
  <2>2. CASE a = 0 /\ z > 0
    <3>1. g = h + 1
      BY <1>3, <1>4, <1>5, <2>2
    <3>2. TokenRun(p, 0, z - 1)
      BY <1>3, <1>4, <1>5, <2>2 DEF TokenRun
    <3>3. n = g + ((z - 1) - 0) /\ (w = "started" => z - 1 = Len(p))
      BY <1>1, <1>2, <1>3, <1>5, <2>2, <3>1
    <3> QED
      BY <3>2, <3>3
  <2>3. CASE a = 0 /\ z = 0
    <3>1. g = h /\ w # "started"
      BY <1>1, <1>2, <1>3, <1>4, <2>3
    <3>2. TokenRun(p, 0, 0)
      BY <1>3, <1>4, <1>5, <2>3 DEF TokenRun
    <3>3. n = g + (0 - 0)
      BY <1>1, <1>2, <2>3, <3>1
    <3> QED
      BY <3>1, <3>2, <3>3
  <2> QED
    BY <1>5, <2>1, <2>2, <2>3
<1>9. g \in Nat
  BY <1>1
<1> HIDE DEF g
<1>10. Mail(p, g, n, w)
  BY <1>1, <1>3, <1>7, <1>8, <1>9 DEF Mail
<1> QED
  BY <1>3, <1>6, <1>10 DEF p, g

LEMMA MailBound ==
  ASSUME NEW q, NEW h, NEW n \in Nat, NEW w, Mail(q, h, n, w)
  PROVE  h <= n
<1>1. PICK a, z : TokenRun(q, a, z) /\ n = h + (z - a)
  BY DEF Mail
<1>2. h \in Nat /\ q \in Seq(Items)
  BY DEF Mail
<1>3. a \in 0 .. z /\ z \in 0 .. Len(q) /\ Len(q) \in Nat
  BY <1>1, <1>2 DEF TokenRun
<1> QED
  BY <1>1, <1>2, <1>3

Fates == {"none", "refused", "closing", "cut", "end", "capacity", "failure", "contract", "done"}

\* A request at s whose engine ended as f says, that asked for c tokens and
\* heard what h says; its thread is at w, made n tokens and left q to read.
AnswerOf(s, f, h, w, n, q, c) ==
  /\ s \in Stages /\ f \in Fates /\ h \in Accounts /\ w \in WorkerStates /\ n \in Nat
  /\ h.tokens <= c /\ n <= c
  /\ s \in {"idle", "admitted", "waiting"} => w = "none" /\ n = 0 /\ h.tokens = 0
  /\ s \in {"event", "sending"} => Mail(q, h.tokens, n, w)
  /\ s \notin {"event", "sending"} => q = <<>>
  /\ s = "joining" /\ f = "end" => h.tokens = n
  /\ f = "done" => s = "last" /\ h.done /\ h.tokens = n

Answer(r) ==
  AnswerOf(stage[r], fate[r], heard[r], worker[r], produced[r], mailbox[r], Asked[r])

\* v is a function of the requests.
PerRequest(v) == v = [r \in Requests |-> v[r]]

\* Inductive: every request's answer is in step with its thread and its mailbox.
AnswerInv ==
  /\ PerRequest(stage) /\ PerRequest(fate) /\ PerRequest(heard)
  /\ PerRequest(worker) /\ PerRequest(produced) /\ PerRequest(mailbox)
  /\ \A r \in Requests : Answer(r)

LEMMA InitAnswer == Init => AnswerInv
<1> SUFFICES ASSUME Init PROVE AnswerInv
  OBVIOUS
<1>1. /\ PerRequest(stage) /\ PerRequest(fate) /\ PerRequest(heard)
      /\ PerRequest(worker) /\ PerRequest(produced) /\ PerRequest(mailbox)
  BY DEF Init, PerRequest
<1>2. ASSUME NEW r \in Requests PROVE Answer(r)
  <2>1. /\ stage[r] = "idle" /\ fate[r] = "none" /\ worker[r] = "none" /\ produced[r] = 0
        /\ mailbox[r] = <<>> /\ heard[r] = [started |-> FALSE, tokens |-> 0, done |-> FALSE]
    BY DEF Init
  <2>2. heard[r] \in Accounts /\ heard[r].tokens = 0
    BY <2>1 DEF Accounts
  <2>3. Asked[r] \in Nat
    BY ServingAssumption DEF ServingAssumption
  <2> QED
    BY <2>1, <2>2, <2>3 DEF Answer, AnswerOf, Stages, Fates, WorkerStates
<1> QED
  BY <1>1, <1>2 DEF AnswerInv

\* u is v, but x for p.
At(u, v, p, x) == u = [r \in Requests |-> IF r = p THEN x ELSE v[r]]

LEMMA Still ==
  ASSUME NEW v, PerRequest(v), NEW p
  PROVE  At(v, v, p, v[p])
BY DEF PerRequest, At

LEMMA Now ==
  ASSUME NEW v, PerRequest(v), NEW p \in Requests, NEW x, NEW u, u = [v EXCEPT ![p] = x]
  PROVE  At(u, v, p, x)
BY DEF PerRequest, At

\* A step that concerns the request p alone.
Turns(p, s, f, h, w, n, q) ==
  /\ At(stage', stage, p, s) /\ At(fate', fate, p, f) /\ At(heard', heard, p, h)
  /\ At(worker', worker, p, w) /\ At(produced', produced, p, n) /\ At(mailbox', mailbox, p, q)

LEMMA TurnKeeps ==
  ASSUME AnswerInv, NEW p \in Requests, NEW s, NEW f, NEW h, NEW w, NEW n, NEW q,
         Turns(p, s, f, h, w, n, q), AnswerOf(s, f, h, w, n, q, Asked[p])
  PROVE  AnswerInv'
<1>1. /\ PerRequest(stage)' /\ PerRequest(fate)' /\ PerRequest(heard)'
      /\ PerRequest(worker)' /\ PerRequest(produced)' /\ PerRequest(mailbox)'
  BY DEF Turns, At, PerRequest
<1>2. Answer(p)'
  <2>1. /\ stage'[p] = s /\ fate'[p] = f /\ heard'[p] = h
        /\ worker'[p] = w /\ produced'[p] = n /\ mailbox'[p] = q
    BY DEF Turns, At
  <2> QED
    BY <2>1 DEF Answer
<1>3. ASSUME NEW r \in Requests \ {p} PROVE Answer(r)'
  <2>1. /\ stage'[r] = stage[r] /\ fate'[r] = fate[r] /\ heard'[r] = heard[r]
        /\ worker'[r] = worker[r] /\ produced'[r] = produced[r] /\ mailbox'[r] = mailbox[r]
    BY DEF Turns, At
  <2>2. Answer(r)
    BY DEF AnswerInv
  <2> QED
    BY <2>1, <2>2 DEF Answer
<1> QED
  BY <1>1, <1>2, <1>3 DEF AnswerInv

\* What a request and its thread have to do with its answer.
LEMMA AnswerFacts ==
  ASSUME AnswerInv, NEW p \in Requests
  PROVE  /\ AnswerOf(stage[p], fate[p], heard[p], worker[p], produced[p], mailbox[p], Asked[p])
         /\ Asked[p] \in Nat
         /\ PerRequest(stage) /\ PerRequest(fate) /\ PerRequest(heard)
         /\ PerRequest(worker) /\ PerRequest(produced) /\ PerRequest(mailbox)
BY ServingAssumption DEF AnswerInv, Answer, ServingAssumption

\* A step that moves p to another stage outside the engine's events.
LEMMA StageKeeps ==
  ASSUME AnswerInv, NEW p \in Requests, NEW s \in Stages, NEW f \in Fates \ {"done"},
         s \notin {"idle", "event", "sending"},
         s \in {"admitted", "waiting"} => stage[p] \in {"idle", "admitted"},
         s = "joining" => f # "end",
         At(stage', stage, p, s), At(fate', fate, p, f), At(mailbox', mailbox, p, <<>>),
         UNCHANGED <<heard, worker, produced>>
  PROVE  AnswerInv'
<1>1. /\ AnswerOf(stage[p], fate[p], heard[p], worker[p], produced[p], mailbox[p], Asked[p])
      /\ PerRequest(heard) /\ PerRequest(worker) /\ PerRequest(produced)
  BY AnswerFacts
<1>2. Turns(p, s, f, heard[p], worker[p], produced[p], <<>>)
  BY <1>1, Still DEF Turns
<1>3. AnswerOf(s, f, heard[p], worker[p], produced[p], <<>>, Asked[p])
  BY <1>1 DEF AnswerOf
<1> QED
  BY <1>2, <1>3, TurnKeeps

\* Becoming and ending, as functions of the requests.
LEMMA Entries ==
  ASSUME AnswerInv, NEW p \in Requests
  PROVE  /\ \A s : Becomes(p, s) => At(stage', stage, p, s)
         /\ \A f : Ends(p, f) => At(fate', fate, p, f)
         /\ Forget(p) => At(mailbox', mailbox, p, <<>>)
         /\ UNCHANGED fate => At(fate', fate, p, fate[p])
         /\ UNCHANGED mailbox /\ ~Listened(p) => At(mailbox', mailbox, p, <<>>)
<1>1. PerRequest(stage) /\ PerRequest(fate) /\ PerRequest(mailbox)
      /\ (~Listened(p) => mailbox[p] = <<>>)
  BY AnswerFacts DEF AnswerOf, Listened
<1>2. ASSUME NEW s, Becomes(p, s) PROVE At(stage', stage, p, s)
  BY <1>1, <1>2, Now DEF Becomes
<1>3. ASSUME NEW f, Ends(p, f) PROVE At(fate', fate, p, f)
  BY <1>1, <1>3, Now DEF Ends
<1>4. Forget(p) => At(mailbox', mailbox, p, <<>>)
  BY <1>1, Now DEF Forget
<1>5. UNCHANGED fate => At(fate', fate, p, fate[p])
  BY <1>1, Still
<1>6. UNCHANGED mailbox /\ ~Listened(p) => At(mailbox', mailbox, p, <<>>)
  <2>1. At(mailbox, mailbox, p, mailbox[p])
    BY <1>1, Still
  <2> QED
    BY <1>1, <2>1
<1> QED
  BY <1>2, <1>3, <1>4, <1>5, <1>6

\* The middleware, and a request the runner does not take.
LEMMA OutsideAnswers ==
  ASSUME AnswerInv, NEW p \in Requests,
         \/ Unauthenticated(p) \/ Reserve(p) \/ Invalid(p)
         \/ stage[p] = "admitted" /\ Becomes(p, "last") /\ Ends(p, "closing")
            /\ UNCHANGED <<heard, worker, produced, mailbox>>
  PROVE  AnswerInv'
<1>1. stage[p] \in {"idle", "admitted"} /\ ~Listened(p)
  BY DEF Unauthenticated, Reserve, Invalid, Listened
<1>2. UNCHANGED <<heard, worker, produced, mailbox>>
  BY DEF Unauthenticated, Reserve, Invalid, workerVars
<1>3. fate[p] \in Fates \ {"done"}
  BY <1>1, AnswerFacts DEF AnswerOf
<1>4. \E s \in {"ended", "last", "admitted"}, f \in Fates \ {"done"} :
        /\ At(stage', stage, p, s) /\ At(fate', fate, p, f)
        /\ s = "admitted" => stage[p] = "idle"
  <2>1. CASE Unauthenticated(p)
    BY <2>1, Entries DEF Unauthenticated, Fates
  <2>2. CASE Reserve(p)
    <3>1. \/ Becomes(p, "ended") /\ Ends(p, "refused")
          \/ Becomes(p, "admitted") /\ UNCHANGED fate /\ stage[p] = "idle"
      BY <2>2 DEF Reserve
    <3> QED
      BY <1>3, <3>1, Entries DEF Fates
  <2>3. CASE Invalid(p)
    BY <2>3, Entries DEF Invalid, Fates
  <2>4. CASE Becomes(p, "last") /\ Ends(p, "closing")
    BY <2>4, Entries DEF Fates
  <2> QED
    BY <2>1, <2>2, <2>3, <2>4
<1>5. At(mailbox', mailbox, p, <<>>)
  BY <1>1, <1>2, Entries
<1>6. PICK s \in {"ended", "last", "admitted"}, f \in Fates \ {"done"} :
        /\ At(stage', stage, p, s) /\ At(fate', fate, p, f)
        /\ s = "admitted" => stage[p] = "idle"
  BY <1>4
<1>7. s \in Stages /\ s \notin {"idle", "event", "sending", "joining", "waiting"}
  BY DEF Stages
<1> QED
  BY <1>2, <1>5, <1>6, <1>7, StageKeeps

\* The generation begins, with an empty mailbox.
LEMMA BeginKeeps ==
  ASSUME AnswerInv, NEW p \in Requests, stage[p] \in {"admitted", "waiting"}, Begin(p),
         UNCHANGED <<fate, heard, produced, mailbox>>
  PROVE  AnswerInv'
<1>1. /\ AnswerOf(stage[p], fate[p], heard[p], worker[p], produced[p], mailbox[p], Asked[p])
      /\ PerRequest(heard) /\ PerRequest(worker) /\ PerRequest(produced)
  BY AnswerFacts
<1>2. Becomes(p, "event") /\ worker' = [worker EXCEPT ![p] = "running"]
  BY DEF Begin
<1>3. ~Listened(p)
  BY DEF Listened
<1>4. Turns(p, "event", fate[p], heard[p], "running", produced[p], <<>>)
  BY <1>1, <1>2, <1>3, Entries, Still, Now DEF Turns
<1>5. AnswerOf("event", fate[p], heard[p], "running", produced[p], <<>>, Asked[p])
  BY <1>1, MailBegins DEF AnswerOf, Stages, WorkerStates
<1> QED
  BY <1>4, <1>5, TurnKeeps

LEMMA GenerateAnswers ==
  ASSUME AnswerInv, NEW p \in Requests, Generate(p)
  PROVE  AnswerInv'
<1>1. stage[p] = "admitted" /\ UNCHANGED <<heard, produced, mailbox>>
  BY DEF Generate
<1>2. CASE ~accepting
  BY <1>1, <1>2, OutsideAnswers DEF Generate
<1>3. CASE accepting /\ Locked
  <2>1. Becomes(p, "waiting") /\ UNCHANGED <<fate, worker>>
    BY <1>3 DEF Generate
  <2>2. fate[p] \in Fates \ {"done"} /\ ~Listened(p)
    BY <1>1, AnswerFacts DEF AnswerOf, Listened
  <2>3. /\ At(stage', stage, p, "waiting") /\ At(fate', fate, p, fate[p])
        /\ At(mailbox', mailbox, p, <<>>)
    BY <1>1, <2>1, <2>2, Entries
  <2>4. "waiting" \in Stages
    BY DEF Stages
  <2> QED
    BY <1>1, <2>1, <2>2, <2>3, <2>4, StageKeeps
<1>4. CASE accepting /\ ~Locked
  <2>1. Begin(p) /\ UNCHANGED fate
    BY <1>4 DEF Generate
  <2> QED
    BY <1>1, <2>1, BeginKeeps
<1> QED
  BY <1>2, <1>3, <1>4

\* What is left of an answer is sent.
LEMMA LastKeeps ==
  ASSUME AnswerInv, NEW p \in Requests, NEW how \in Fates \ {"done"}, LastFrames(p, how),
         how = "end" => heard[p].tokens = produced[p],
         At(mailbox', mailbox, p, <<>>), UNCHANGED <<heard, worker, produced>>
  PROVE  AnswerInv'
<1> DEFINE f == IF how = "end" THEN IF heard[p].done THEN "done" ELSE "contract" ELSE how
<1>1. /\ AnswerOf(stage[p], fate[p], heard[p], worker[p], produced[p], mailbox[p], Asked[p])
      /\ PerRequest(heard) /\ PerRequest(worker) /\ PerRequest(produced)
  BY AnswerFacts
<1>2. Becomes(p, "last") /\ Ends(p, f)
  BY DEF LastFrames
<1>3. f \in Fates /\ (f = "done" => heard[p].done /\ heard[p].tokens = produced[p])
  BY DEF Fates
<1> HIDE DEF f
<1>4. Turns(p, "last", f, heard[p], worker[p], produced[p], <<>>)
  BY <1>1, <1>2, Entries, Still DEF Turns
<1>5. AnswerOf("last", f, heard[p], worker[p], produced[p], <<>>, Asked[p])
  BY <1>1, <1>3 DEF AnswerOf, Stages
<1> QED
  BY <1>4, <1>5, TurnKeeps

LEMMA JoinAnswers ==
  ASSUME AnswerInv, NEW p \in Requests, Join(p)
  PROVE  AnswerInv'
<1>1. /\ stage[p] = "joining" /\ LastFrames(p, fate[p])
      /\ UNCHANGED <<heard, worker, produced, mailbox>>
  BY DEF Join, workerVars
<1>2. /\ fate[p] \in Fates \ {"done"} /\ ~Listened(p)
      /\ fate[p] = "end" => heard[p].tokens = produced[p]
  BY <1>1, AnswerFacts DEF AnswerOf, Listened
<1>3. At(mailbox', mailbox, p, <<>>)
  BY <1>1, <1>2, Entries
<1> QED
  BY <1>1, <1>2, <1>3, LastKeeps

LEMMA SettleAnswers ==
  ASSUME AnswerInv, NEW p \in Requests, Settle(p)
  PROVE  AnswerInv'
<1> DEFINE f == IF p \in CutOff THEN fate[p] ELSE "none"
<1>1. /\ stage[p] = "last" /\ Becomes(p, "ended") /\ Ends(p, f)
      /\ produced' = [produced EXCEPT ![p] = 0] /\ UNCHANGED <<heard, worker, mailbox>>
  BY DEF Settle
<1>2. /\ AnswerOf(stage[p], fate[p], heard[p], worker[p], produced[p], mailbox[p], Asked[p])
      /\ Asked[p] \in Nat /\ PerRequest(heard) /\ PerRequest(worker) /\ PerRequest(produced)
  BY AnswerFacts
<1>3. ~Listened(p) /\ f \in Fates \ {"done"}
  BY <1>1 DEF Listened, CutOff, Fates
<1> HIDE DEF f
<1>4. Turns(p, "ended", f, heard[p], worker[p], 0, <<>>)
  BY <1>1, <1>2, <1>3, Entries, Still, Now DEF Turns
<1>5. AnswerOf("ended", f, heard[p], worker[p], 0, <<>>, Asked[p])
  BY <1>2, <1>3 DEF AnswerOf, Stages
<1> QED
  BY <1>4, <1>5, TurnKeeps

LEMMA SendAnswers ==
  ASSUME AnswerInv, NEW p \in Requests, Send(p)
  PROVE  AnswerInv'
<1>1. stage[p] = "sending" /\ Becomes(p, "event")
      /\ UNCHANGED <<fate, heard, worker, produced, mailbox>>
  BY DEF Send, workerVars
<1>2. /\ AnswerOf(stage[p], fate[p], heard[p], worker[p], produced[p], mailbox[p], Asked[p])
      /\ PerRequest(fate) /\ PerRequest(heard) /\ PerRequest(worker)
      /\ PerRequest(produced) /\ PerRequest(mailbox)
  BY AnswerFacts
<1>3. Turns(p, "event", fate[p], heard[p], worker[p], produced[p], mailbox[p])
  BY <1>1, <1>2, Entries, Still DEF Turns
<1>4. AnswerOf("event", fate[p], heard[p], worker[p], produced[p], mailbox[p], Asked[p])
  BY <1>1, <1>2 DEF AnswerOf, Stages
<1> QED
  BY <1>3, <1>4, TurnKeeps

\* Whatever is cancelled, its answer does not say that it is complete.
LEMMA CancelAnswers ==
  ASSUME AnswerInv, NEW p \in Requests, Cancel(p)
  PROVE  AnswerInv'
<1>1. Forget(p) /\ UNCHANGED <<heard, worker, produced>>
  BY DEF Cancel
<1>2. \E s \in {"last", "joining"} : Becomes(p, s) /\ Ends(p, "cut")
  BY DEF Cancel
<1>3. PICK s \in {"last", "joining"} : Becomes(p, s) /\ Ends(p, "cut")
  BY <1>2
<1>4. /\ At(stage', stage, p, s) /\ At(fate', fate, p, "cut") /\ At(mailbox', mailbox, p, <<>>)
  BY <1>1, <1>3, Entries
<1>5. s \in Stages /\ s \notin {"idle", "admitted", "waiting", "event", "sending"}
      /\ "cut" \in Fates \ {"done"}
  BY DEF Stages, Fates
<1> QED
  BY <1>1, <1>4, <1>5, StageKeeps

\* An item that ends the loop.
LEMMA LastItemAnswers ==
  ASSUME AnswerInv, NEW p \in Requests, TakeItem(p), Head(mailbox[p]) \in LastItems
  PROVE  AnswerInv'
<1> DEFINE item == Head(mailbox[p])
<1>1. /\ stage[p] = "event" /\ mailbox[p] # <<>> /\ LoopOver(p, item) /\ Forget(p)
      /\ UNCHANGED <<heard, worker, produced>>
  BY DEF TakeItem, LastItems
<1>2. Mail(mailbox[p], heard[p].tokens, produced[p], worker[p])
  BY <1>1, AnswerFacts DEF AnswerOf
<1>3. item = "end" => heard[p].tokens = produced[p]
  BY <1>1, <1>2, MailTaken
<1>4. item \in Fates \ {"done"} /\ item \in LastItems
  BY DEF LastItems, Fates
<1>5. At(mailbox', mailbox, p, <<>>)
  BY <1>1, Entries
<1> HIDE DEF item
<1>6. CASE worker[p] = "dead"
  <2>1. LastFrames(p, item)
    BY <1>1, <1>6 DEF LoopOver
  <2> QED
    BY <1>1, <1>3, <1>4, <1>5, <2>1, LastKeeps
<1>7. CASE worker[p] # "dead"
  <2>1. At(stage', stage, p, "joining") /\ At(fate', fate, p, item)
    BY <1>1, <1>7, Entries DEF LoopOver
  <2>2. /\ AnswerOf(stage[p], fate[p], heard[p], worker[p], produced[p], mailbox[p], Asked[p])
        /\ PerRequest(heard) /\ PerRequest(worker) /\ PerRequest(produced)
    BY AnswerFacts
  <2>3. Turns(p, "joining", item, heard[p], worker[p], produced[p], <<>>)
    BY <1>1, <1>5, <2>1, <2>2, Still DEF Turns
  <2>4. AnswerOf("joining", item, heard[p], worker[p], produced[p], <<>>, Asked[p])
    BY <1>1, <1>3, <1>4, <2>2 DEF AnswerOf, Stages
  <2> QED
    BY <2>3, <2>4, TurnKeeps
<1> QED
  BY <1>6, <1>7

\* An event that is accepted.
LEMMA EventAnswers ==
  ASSUME AnswerInv, NEW p \in Requests, TakeItem(p), Head(mailbox[p]) \notin LastItems,
         Acceptable(p, Head(mailbox[p]))
  PROVE  AnswerInv'
<1> DEFINE item == Head(mailbox[p])
           rest == Tail(mailbox[p])
           h == [started |-> TRUE, done |-> item = "done",
                 tokens |-> IF item = "token" THEN heard[p].tokens + 1 ELSE heard[p].tokens]
<1>1. /\ stage[p] = "event" /\ mailbox[p] # <<>>
      /\ Accepted(p, item) /\ mailbox' = [mailbox EXCEPT ![p] = rest]
      /\ UNCHANGED <<fate, worker, produced>>
      /\ \E s \in {"sending", "event"} : Becomes(p, s)
  BY DEF TakeItem, LastItems
<1>2. /\ AnswerOf(stage[p], fate[p], heard[p], worker[p], produced[p], mailbox[p], Asked[p])
      /\ PerRequest(heard) /\ PerRequest(worker) /\ PerRequest(produced)
      /\ PerRequest(mailbox) /\ PerRequest(fate) /\ Asked[p] \in Nat
  BY AnswerFacts
<1>3. /\ Mail(mailbox[p], heard[p].tokens, produced[p], worker[p])
      /\ produced[p] \in Nat /\ produced[p] <= Asked[p] /\ fate[p] \in Fates
      /\ fate[p] # "done" /\ heard[p] \in Accounts /\ worker[p] \in WorkerStates
  BY <1>1, <1>2 DEF AnswerOf
<1>4. heard' = [heard EXCEPT ![p] = h]
  BY <1>1 DEF Accepted
<1>5. h.tokens = (IF item = "token" THEN heard[p].tokens + 1 ELSE heard[p].tokens)
      /\ h \in Accounts
  <2>1. (IF item = "token" THEN heard[p].tokens + 1 ELSE heard[p].tokens) \in Nat
    BY <1>3 DEF Accounts
  <2>2. (item = "done") \in BOOLEAN
    OBVIOUS
  <2>3. h \in Accounts
    BY <2>1, <2>2, Zenon DEF Accounts
  <2> QED
    BY <2>3
<1>6. Mail(rest, h.tokens, produced[p], worker[p])
  <2> DEFINE q == mailbox[p]
             t == heard[p].tokens
             n == produced[p]
             w == worker[p]
  <2>1. Mail(q, t, n, w) /\ q # <<>>
    BY <1>1, <1>3
  <2> HIDE DEF q, t, n, w
  <2>2. Mail(Tail(q), IF Head(q) = "token" THEN t + 1 ELSE t, n, w)
    BY <2>1, MailTaken
  <2>3. h.tokens = IF Head(q) = "token" THEN t + 1 ELSE t
    BY <1>5 DEF q, t
  <2> HIDE DEF h
  <2>4. Mail(Tail(q), h.tokens, n, w)
    BY <2>2, <2>3
  <2> QED
    BY <2>4 DEF q, n, w
<1> HIDE DEF h, rest, item
<1>7. h.tokens <= produced[p] /\ h.tokens \in Nat
  BY <1>3, <1>5, <1>6, MailBound DEF Accounts
<1>8. PICK s \in {"sending", "event"} : Becomes(p, s)
  BY <1>1
<1>9. Turns(p, s, fate[p], h, worker[p], produced[p], rest)
  BY <1>1, <1>2, <1>4, <1>8, Entries, Still, Now DEF Turns
<1>10. AnswerOf(s, fate[p], h, worker[p], produced[p], rest, Asked[p])
  <2>1. h.tokens <= Asked[p]
    BY <1>2, <1>3, <1>7
  <2> QED
    BY <1>3, <1>5, <1>6, <1>8, <2>1 DEF AnswerOf, Stages
<1> QED
  BY <1>9, <1>10, TurnKeeps

\* One that is not: the answer is broken off.
LEMMA RefusedItemAnswers ==
  ASSUME AnswerInv, NEW p \in Requests, TakeItem(p), Head(mailbox[p]) \notin LastItems,
         ~Acceptable(p, Head(mailbox[p]))
  PROVE  AnswerInv'
<1>1. /\ Forget(p) /\ Becomes(p, "last") /\ Ends(p, "contract")
      /\ UNCHANGED <<heard, worker, produced>>
  BY DEF TakeItem, LastItems
<1>2. /\ At(stage', stage, p, "last") /\ At(fate', fate, p, "contract")
      /\ At(mailbox', mailbox, p, <<>>)
  BY <1>1, Entries
<1>3. "last" \in Stages /\ "contract" \in Fates \ {"done"}
  BY DEF Stages, Fates
<1> QED
  BY <1>1, <1>2, <1>3, StageKeeps

\* A step of the thread that makes n of its tokens and posts the items.
LEMMA ThreadKeeps ==
  ASSUME AnswerInv, NEW p \in Requests, NEW w, NEW n \in Nat, NEW items,
         At(worker', worker, p, w), At(produced', produced, p, n), Posted(p, items),
         UNCHANGED <<stage, fate, heard>>, worker[p] # "none", w \in WorkerStates \ {"none"},
         n = produced[p] \/ Listened(p), n <= Asked[p],
         \A q, h : Mail(q, h, produced[p], worker[p]) => Mail(q \o items, h, n, w)
  PROVE  AnswerInv'
<1> DEFINE q == IF Listened(p) THEN mailbox[p] \o items ELSE mailbox[p]
<1>1. /\ AnswerOf(stage[p], fate[p], heard[p], worker[p], produced[p], mailbox[p], Asked[p])
      /\ PerRequest(stage) /\ PerRequest(fate) /\ PerRequest(heard) /\ PerRequest(mailbox)
  BY AnswerFacts
<1>2. At(mailbox', mailbox, p, q)
  <2>1. CASE Listened(p)
    BY <1>1, <2>1, Now DEF Posted
  <2>2. CASE ~Listened(p)
    BY <1>1, <2>2, Still DEF Posted
  <2> QED
    BY <2>1, <2>2
<1>3. Turns(p, stage[p], fate[p], heard[p], w, n, q)
  BY <1>1, <1>2, Still DEF Turns
<1>4. Listened(p) => Mail(q, heard[p].tokens, n, w)
  BY <1>1 DEF AnswerOf, Listened
<1>5. ~Listened(p) => n = produced[p] /\ q = mailbox[p]
  OBVIOUS
<1> HIDE DEF q
<1>6. AnswerOf(stage[p], fate[p], heard[p], w, n, q, Asked[p])
  BY <1>1, <1>4, <1>5 DEF AnswerOf, Listened
<1> QED
  BY <1>3, <1>6, TurnKeeps

LEMMA WorkAnswers ==
  ASSUME AnswerInv, NEW p \in Requests, Work(p)
  PROVE  AnswerInv'
<1>1. /\ AnswerOf(stage[p], fate[p], heard[p], worker[p], produced[p], mailbox[p], Asked[p])
      /\ PerRequest(worker) /\ PerRequest(produced) /\ PerRequest(mailbox) /\ Asked[p] \in Nat
  BY AnswerFacts
<1>2. produced[p] \in Nat /\ produced[p] <= Asked[p]
  BY <1>1 DEF AnswerOf
<1>3. UNCHANGED <<stage, fate, heard>>
  BY DEF Work, StartBranch, MakeToken, WorkerEnds, ThreadExits, ThreadStep, requestVars
<1>4. {"running", "started", "ending", "dead"} \subseteq WorkerStates \ {"none"}
  BY DEF WorkerStates
<1>5. CASE StartBranch(p)
  <2> DEFINE items == <<"started">>
             n == produced[p]
             w == "running"
  <2>1. /\ worker[p] = w /\ At(worker', worker, p, "started")
        /\ At(produced', produced, p, n) /\ Posted(p, items)
    BY <1>1, <1>5, Now, Still DEF StartBranch
  <2>2. \A q, h : Mail(q, h, n, w) => Mail(q \o items, h, n, "started")
    <3> HIDE DEF n
    <3> QED
      BY MailStarted
  <2> HIDE DEF items
  <2> QED
    BY <1>2, <1>3, <1>4, <2>1, <2>2, ThreadKeeps
<1>6. CASE MakeToken(p)
  <2> DEFINE items == <<"token">>
             m == produced[p]
             n == m + 1
             w == "started"
  <2>1. /\ worker[p] = w /\ At(worker', worker, p, w) /\ At(produced', produced, p, n)
        /\ Posted(p, items) /\ Listened(p) /\ m < Asked[p]
    BY <1>1, <1>6, Now, Still DEF MakeToken
  <2>2. n \in Nat /\ n <= Asked[p]
    BY <1>1, <1>2, <2>1
  <2>3. \A q, h : Mail(q, h, m, w) => Mail(q \o items, h, n, w)
    <3> HIDE DEF m
    <3> QED
      BY MailToken
  <2> HIDE DEF items, n
  <2> QED
    BY <1>3, <1>4, <2>1, <2>2, <2>3, ThreadKeeps
<1>7. CASE WorkerEnds(p)
  <2>1. PICK last \in {<<>>, <<"done">>, <<"capacity">>, <<"failure">>, <<"bad">>} :
          Posted(p, Append(last, "end"))
    BY <1>7 DEF WorkerEnds
  <2> DEFINE items == Append(last, "end")
             n == produced[p]
             w == worker[p]
  <2>2. /\ w \in {"running", "started"} /\ At(worker', worker, p, "ending")
        /\ At(produced', produced, p, n) /\ Posted(p, items)
    BY <1>1, <1>7, <2>1, Now, Still DEF WorkerEnds
  <2>3. \A q, h : Mail(q, h, n, w) => Mail(q \o items, h, n, "ending")
    <3> HIDE DEF n, w
    <3> QED
      BY <2>2, MailEnding
  <2> HIDE DEF items
  <2> QED
    BY <1>2, <1>3, <1>4, <2>2, <2>3, ThreadKeeps
<1>8. CASE ThreadExits(p)
  <2>1. /\ worker[p] = "ending" /\ At(worker', worker, p, "dead")
        /\ At(produced', produced, p, produced[p]) /\ At(mailbox', mailbox, p, mailbox[p])
        /\ At(stage', stage, p, stage[p]) /\ At(fate', fate, p, fate[p])
        /\ At(heard', heard, p, heard[p])
    BY <1>1, <1>3, <1>8, Now, Still, AnswerFacts DEF ThreadExits
  <2>2. Turns(p, stage[p], fate[p], heard[p], "dead", produced[p], mailbox[p])
    BY <2>1 DEF Turns
  <2>3. AnswerOf(stage[p], fate[p], heard[p], "dead", produced[p], mailbox[p], Asked[p])
    BY <1>1, <1>4, <2>1, MailDead DEF AnswerOf
  <2> QED
    BY <2>2, <2>3, TurnKeeps
<1> QED
  BY <1>5, <1>6, <1>7, <1>8 DEF Work

LEMMA AnswerStep == AnswerInv /\ [Next]_vars => AnswerInv'
<1> SUFFICES ASSUME AnswerInv, [Next]_vars PROVE AnswerInv'
  OBVIOUS
<1>1. ASSUME UNCHANGED <<requestVars, workerVars>> PROVE AnswerInv'
  BY <1>1 DEF AnswerInv, Answer, PerRequest, requestVars, workerVars
<1>2. ASSUME NEW r \in Requests, Handle(r) PROVE AnswerInv'
  <2>1. CASE TakeItem(r)
    BY <2>1, LastItemAnswers, EventAnswers, RefusedItemAnswers
  <2>2. CASE Resume(r)
    <3>1. stage[r] = "waiting" /\ Begin(r) /\ UNCHANGED <<fate, heard, produced, mailbox>>
      BY <2>2 DEF Resume
    <3> QED
      BY <3>1, BeginKeeps
  <2>3. CASE Settle(r) \/ Invalid(r) \/ Generate(r) \/ Send(r) \/ Join(r)
    BY <2>3, SettleAnswers, OutsideAnswers, GenerateAnswers, SendAnswers, JoinAnswers
  <2> QED
    BY <1>2, <2>1, <2>2, <2>3 DEF Handle
<1>3. ASSUME NEW r \in Requests, Unauthenticated(r) \/ Reserve(r) PROVE AnswerInv'
  BY <1>3, OutsideAnswers
<1>4. ASSUME NEW r \in Requests, Cancel(r) \/ Work(r) PROVE AnswerInv'
  BY <1>4, CancelAnswers, WorkAnswers
<1>5. ASSUME NEW r \in Requests, CloseGenerator(r) PROVE AnswerInv'
  BY <1>1, <1>5 DEF CloseGenerator
<1>6. CASE WindowPasses \/ Shutdown \/ ShutdownReturns \/ UNCHANGED vars
  BY <1>1, <1>6 DEF WindowPasses, Shutdown, ShutdownReturns, vars
<1> QED
  BY <1>2, <1>3, <1>4, <1>5, <1>6 DEF Next

\* An answer that says it is complete has every token the engine made, whatever
\* is cancelled and however the thread and the event loop interleave.
THEOREM AnswersCompleteAlways == Spec => []AnswersComplete
<1>1. AnswerInv => AnswersComplete
  BY DEF AnswerInv, Answer, AnswerOf, AnswersComplete
<1> QED
  BY <1>1, InitAnswer, AnswerStep, PTL DEF Spec

-----------------------------------------------------------------------------
(* The threads.                                                            *)

\* A request at stage s with fate f, whose thread is at w: a thread runs as long
\* as its request holds a slot, and longer only if the request was cut off.
ThreadOf(s, f, w) ==
  \/ w \in {"none", "dead"}
  \/ s \in Holding
  \/ s \in {"last", "ended"} /\ f \in {"cut", "contract"}

\* Inductive, with AnswerInv.
ThreadInv == \A r \in Requests : ThreadOf(stage[r], fate[r], worker[r])

\* A step that concerns the request p alone.
LEMMA ThreadTurn ==
  ASSUME AnswerInv, ThreadInv, NEW p \in Requests, NEW s, NEW f, NEW w,
         At(stage', stage, p, s), At(fate', fate, p, f), At(worker', worker, p, w),
         ThreadOf(s, f, w)
  PROVE  ThreadInv'
BY DEF ThreadInv, At

\* One of the coroutine of p, whose thread goes on as it was, if it has one.
LEMMA MovingTurn ==
  ASSUME AnswerInv, ThreadInv, NEW p \in Requests, NEW s, Becomes(p, s),
         UNCHANGED <<fate, worker>>, worker[p] \in {"none", "dead"} \/ s \in Holding
  PROVE  ThreadInv'
<1>1. /\ At(stage', stage, p, s) /\ At(fate', fate, p, fate[p])
      /\ At(worker', worker, p, worker[p])
  BY Entries, Still, AnswerFacts
<1>2. ThreadOf(s, fate[p], worker[p])
  BY DEF ThreadOf
<1> QED
  BY <1>1, <1>2, ThreadTurn

LEMMA EndingTurn ==
  ASSUME AnswerInv, ThreadInv, NEW p \in Requests, NEW s, Becomes(p, s), NEW f, Ends(p, f),
         UNCHANGED worker,
         \/ worker[p] \in {"none", "dead"} \/ s \in Holding
         \/ s \in {"last", "ended"} /\ f \in {"cut", "contract"}
  PROVE  ThreadInv'
<1>1. At(stage', stage, p, s) /\ At(fate', fate, p, f) /\ At(worker', worker, p, worker[p])
  BY Entries, Still, AnswerFacts
<1>2. ThreadOf(s, f, worker[p])
  BY DEF ThreadOf
<1> QED
  BY <1>1, <1>2, ThreadTurn

\* One of the thread of p, which was running.
LEMMA WorkTurn ==
  ASSUME AnswerInv, ThreadInv, NEW p \in Requests, Work(p)
  PROVE  ThreadInv'
<1>1. UNCHANGED <<stage, fate>> /\ worker[p] \notin {"none", "dead"}
  BY DEF Work, StartBranch, MakeToken, WorkerEnds, ThreadExits, ThreadStep, requestVars
<1>2. UNCHANGED worker \/ \E w \in WorkerStates : worker' = [worker EXCEPT ![p] = w]
  BY DEF Work, StartBranch, MakeToken, WorkerEnds, ThreadExits, WorkerStates
<1>3. PICK w : At(worker', worker, p, w)
  BY <1>2, Still, Now, AnswerFacts
<1>4. At(stage', stage, p, stage[p]) /\ At(fate', fate, p, fate[p])
  BY <1>1, Still, AnswerFacts
<1>5. ThreadOf(stage[p], fate[p], w)
  BY <1>1 DEF ThreadInv, ThreadOf
<1> QED
  BY <1>3, <1>4, <1>5, ThreadTurn

\* The coroutine leaves its slot when the thread is over, or was cut off.
LEMMA CoroutineTurn ==
  ASSUME AnswerInv, ThreadInv, NEW p \in Requests,
         Unauthenticated(p) \/ Reserve(p) \/ Handle(p) \/ Cancel(p)
  PROVE  ThreadInv'
<1>1. ThreadOf(stage[p], fate[p], worker[p])
  BY DEF ThreadInv
<1>2. CASE Unauthenticated(p) \/ Reserve(p) \/ Invalid(p)
  <2>1. UNCHANGED worker /\ worker[p] \in {"none", "dead"}
    BY <1>1, <1>2 DEF Unauthenticated, Reserve, Invalid, workerVars, ThreadOf, Holding
  <2>2. \E s : Becomes(p, s)
    BY <1>2 DEF Unauthenticated, Reserve, Invalid
  <2>3. UNCHANGED fate \/ \E f : Ends(p, f)
    BY <1>2 DEF Unauthenticated, Reserve, Invalid
  <2> QED
    BY <2>1, <2>2, <2>3, MovingTurn, EndingTurn
<1>3. ASSUME Begin(p), UNCHANGED fate PROVE ThreadInv'
  <2>1. /\ At(stage', stage, p, "event") /\ At(fate', fate, p, fate[p])
        /\ At(worker', worker, p, "running")
    BY <1>3, Entries, Now, AnswerFacts DEF Begin
  <2> QED
    BY <2>1, ThreadTurn DEF ThreadOf, Holding
<1>4. CASE Generate(p)
  <2>1. CASE accepting /\ ~Locked
    BY <1>3, <1>4, <2>1 DEF Generate
  <2>2. CASE ~(accepting /\ ~Locked)
    <3>1. UNCHANGED worker /\ worker[p] \in {"none", "dead"}
      BY <1>1, <1>4, <2>2 DEF Generate, ThreadOf, Holding
    <3>2. (\E s : Becomes(p, s)) /\ (UNCHANGED fate \/ Ends(p, "closing"))
      BY <1>4, <2>2 DEF Generate
    <3> QED
      BY <3>1, <3>2, MovingTurn, EndingTurn
  <2> QED
    BY <2>1, <2>2
<1>5. CASE Resume(p)
  BY <1>3, <1>5 DEF Resume
<1>6. ASSUME NEW how, LastFrames(p, how), worker[p] = "dead", UNCHANGED worker
      PROVE  ThreadInv'
  <2>1. PICK f : Becomes(p, "last") /\ Ends(p, f)
    BY <1>6 DEF LastFrames
  <2> QED
    BY <1>6, <2>1, EndingTurn
<1>7. CASE TakeItem(p)
  <2> DEFINE item == Head(mailbox[p])
  <2>1. stage[p] = "event" /\ UNCHANGED worker
    BY <1>7 DEF TakeItem
  <2>2. CASE LoopOver(p, item)
    <3>1. CASE worker[p] = "dead"
      BY <1>6, <2>1, <2>2, <3>1 DEF LoopOver
    <3>2. CASE worker[p] # "dead"
      BY <2>1, <2>2, <3>2, EndingTurn DEF LoopOver, Holding
    <3> QED
      BY <3>1, <3>2
  <2>3. CASE Becomes(p, "last") /\ Ends(p, "contract")
    BY <2>1, <2>3, EndingTurn
  <2>4. CASE UNCHANGED fate /\ \E s \in {"sending", "event"} : Becomes(p, s)
    BY <2>1, <2>4, MovingTurn DEF Holding
  <2> QED
    BY <1>7, <2>2, <2>3, <2>4 DEF TakeItem
<1>8. CASE Send(p)
  BY <1>8, MovingTurn DEF Send, workerVars, Holding
<1>9. CASE Join(p)
  BY <1>6, <1>9 DEF Join, workerVars
<1>10. CASE Settle(p)
  <2> DEFINE f == IF p \in CutOff THEN fate[p] ELSE "none"
  <2>1. stage[p] = "last" /\ Becomes(p, "ended") /\ Ends(p, f) /\ UNCHANGED worker
    BY <1>10 DEF Settle
  <2>2. worker[p] \in {"none", "dead"} \/ f \in {"cut", "contract"}
    BY <1>1, <2>1 DEF ThreadOf, CutOff, Holding
  <2> HIDE DEF f
  <2> QED
    BY <2>1, <2>2, EndingTurn
<1>11. CASE Cancel(p)
  <2>1. UNCHANGED worker /\ \E s \in {"last", "joining"} : Becomes(p, s) /\ Ends(p, "cut")
    BY <1>11 DEF Cancel
  <2> QED
    BY <2>1, EndingTurn DEF Holding
<1> QED
  BY <1>2, <1>4, <1>5, <1>7, <1>8, <1>9, <1>10, <1>11 DEF Handle

LEMMA ThreadStart == Init => ThreadInv
BY DEF Init, ThreadInv, ThreadOf

LEMMA ThreadsStep == AnswerInv /\ ThreadInv /\ [Next]_vars => ThreadInv'
<1> SUFFICES ASSUME AnswerInv, ThreadInv, [Next]_vars PROVE ThreadInv'
  OBVIOUS
<1>1. ASSUME UNCHANGED <<stage, fate, worker>> PROVE ThreadInv'
  BY <1>1 DEF ThreadInv
<1>2. ASSUME NEW r \in Requests, CloseGenerator(r) PROVE ThreadInv'
  BY <1>1, <1>2 DEF CloseGenerator, requestVars, workerVars
<1>3. CASE WindowPasses \/ Shutdown \/ ShutdownReturns \/ UNCHANGED vars
  BY <1>1, <1>3 DEF WindowPasses, Shutdown, ShutdownReturns, vars, requestVars, workerVars
<1> QED
  BY <1>2, <1>3, CoroutineTurn, WorkTurn DEF Next

\* Once EngineRunner.shutdown has returned no generation waits to begin, and a
\* thread that still runs is of a request that was cut off: who holds no slot and
\* was not cut off has had its thread joined.
THEOREM ShutdownDrainsAlways == Spec => []ShutdownDrains
<1>1. ThreadInv /\ DrainInv => ShutdownDrains
  <2> SUFFICES ASSUME ThreadInv, DrainInv, closed
               PROVE  Waiting = {} /\ Alive \subseteq CutOff
    BY DEF ShutdownDrains
  <2>1. Holders = {} /\ Waiting = {}
    BY DEF DrainInv
  <2>2. ASSUME NEW r \in Alive PROVE r \in CutOff
    <3>1. r \in Requests /\ worker[r] \notin {"none", "dead"} /\ stage[r] \notin Holding
      BY <2>1 DEF Alive, Holders, Holding
    <3> QED
      BY <3>1 DEF ThreadInv, ThreadOf, CutOff
  <2> QED
    BY <2>1, <2>2
<1> QED
  BY <1>1, SlotsInit, SlotsStep, DrainInit, DrainStep, InitAnswer, AnswerStep, ThreadStart,
     ThreadsStep, PTL DEF Spec

-----------------------------------------------------------------------------
(* The quota.                                                              *)

\* The requests this window was charged for.
Charged == {r \in Requests : window # 0 /\ charged[r] = window}

\* Inductive, with AnswerInv: a request is charged from its admission on, for a
\* window that has begun.
QuotaInv ==
  /\ window \in Nat /\ used \in Nat /\ PerRequest(charged)
  /\ \A r \in Requests :
       /\ charged[r] \in 0 .. window
       /\ stage[r] = "idle" => charged[r] = 0
       /\ stage[r] \notin {"idle", "ended"} => charged[r] # 0
  /\ QuotaExact

LEMMA InitQuota == Init => QuotaInv
<1> SUFFICES ASSUME Init PROVE QuotaInv
  OBVIOUS
<1>1. window = 0 /\ used = 0 /\ PerRequest(charged) /\ Charged = {}
      /\ \A r \in Requests : charged[r] = 0 /\ stage[r] = "idle"
  BY DEF Init, PerRequest, Charged
<1>2. used = SumFunctionOnSet(Owed, Charged)
  BY <1>1, SumOfNone
<1>3. QuotaLimit \in Nat /\ 0 <= QuotaLimit
  BY ServingAssumption DEF ServingAssumption
<1> QED
  BY <1>1, <1>2, <1>3 DEF QuotaInv, QuotaExact, Charged

\* What requests owe is numbers, none of them more than was asked for.
LEMMA Debts ==
  ASSUME AnswerInv
  PROVE  /\ IsFiniteSet(Charged) /\ Charged \subseteq Requests
         /\ \A r \in Requests :
              /\ Owed[r] = IF stage[r] = "ended" THEN heard[r].tokens ELSE Asked[r]
              /\ Owed[r] \in Nat /\ heard[r].tokens \in Nat /\ Asked[r] \in Nat
              /\ heard[r].tokens <= Asked[r]
<1>1. IsFiniteSet(Charged) /\ Charged \subseteq Requests
  BY ServingAssumption, FS_Subset DEF Charged, ServingAssumption
<1>2. ASSUME NEW r \in Requests
      PROVE  heard[r].tokens \in Nat /\ Asked[r] \in Nat /\ heard[r].tokens <= Asked[r]
  BY AnswerFacts DEF AnswerOf, Accounts
<1> QED
  BY <1>1, <1>2 DEF Owed

\* Requests that move between admission and their end owe what they owed.
LEMMA QuotaQuiet ==
  ASSUME AnswerInv, QuotaInv, UNCHANGED <<charged, used, window>>,
         \A r \in Requests :
           \/ stage'[r] = stage[r] /\ heard'[r] = heard[r]
           \/ stage[r] \notin {"idle", "ended"} /\ stage'[r] \notin {"idle", "ended"}
           \/ stage[r] = "idle" /\ stage'[r] = "ended"
  PROVE  QuotaInv'
<1>1. /\ window \in Nat /\ used \in Nat /\ PerRequest(charged)
      /\ \A r \in Requests :
           /\ charged[r] \in 0 .. window
           /\ stage[r] = "idle" => charged[r] = 0
           /\ stage[r] \notin {"idle", "ended"} => charged[r] # 0
      /\ used = SumFunctionOnSet(Owed, Charged) /\ used <= QuotaLimit
  BY DEF QuotaInv, QuotaExact, Charged
<1>2. /\ IsFiniteSet(Charged) /\ Charged \subseteq Requests
      /\ \A r \in Requests : Owed[r] \in Nat
      /\ \A r \in Requests : Owed[r] = IF stage[r] = "ended" THEN heard[r].tokens ELSE Asked[r]
  BY Debts
<1>3. Charged' = Charged
  BY DEF Charged
<1>4. \A r \in Charged : charged[r] # 0 /\ r \in Requests
  BY DEF Charged
<1>5. \A r \in Charged : Owed'[r] = Owed[r]
  <2>1. \A r \in Requests :
          Owed'[r] = IF stage'[r] = "ended" THEN heard'[r].tokens ELSE Asked[r]
    BY DEF Owed
  <2> QED
    BY <1>1, <1>2, <1>4, <2>1
<1>6. SumFunctionOnSet(Owed', Charged) = SumFunctionOnSet(Owed, Charged)
  <2> DEFINE e == Owed'
             f == Owed
  <2>1. \A x \in Charged : f[x] \in Int /\ e[x] = f[x]
    BY <1>2, <1>5
  <2> HIDE DEF e, f
  <2>2. SumFunctionOnSet(e, Charged) = SumFunctionOnSet(f, Charged)
    BY <1>2, <2>1, SumSame
  <2> QED
    BY <2>2 DEF e, f
<1>7. QuotaExact'
  BY <1>1, <1>3, <1>6 DEF QuotaExact, Charged
<1>8. (\A r \in Requests :
         /\ charged[r] \in 0 .. window
         /\ stage[r] = "idle" => charged[r] = 0
         /\ stage[r] \notin {"idle", "ended"} => charged[r] # 0)'
  BY <1>1
<1>9. (window \in Nat /\ used \in Nat /\ PerRequest(charged))'
  BY <1>1 DEF PerRequest
<1> QED
  BY <1>7, <1>8, <1>9 DEF QuotaInv

\* A reservation: what the window is charged besides is what it was charged
\* before, or nothing if it is new.
LEMMA ReserveQuota ==
  ASSUME AnswerInv, QuotaInv, NEW p \in Requests, Reserve(p)
  PROVE  QuotaInv'
<1> DEFINE renewed == window = 0 \/ expired
           R == {r \in Requests : window' # 0 /\ charged[r] = window'}
<1>1. /\ window \in Nat /\ used \in Nat /\ PerRequest(charged)
      /\ \A r \in Requests :
           /\ charged[r] \in 0 .. window
           /\ stage[r] = "idle" => charged[r] = 0
           /\ stage[r] \notin {"idle", "ended"} => charged[r] # 0
      /\ used = SumFunctionOnSet(Owed, Charged) /\ used <= QuotaLimit
  BY DEF QuotaInv, QuotaExact, Charged
<1>2. /\ QuotaLimit \in Nat /\ Asked[p] \in Nat /\ IsFiniteSet(R) /\ R \subseteq Requests
      /\ \A r \in Requests : Owed[r] \in Nat
      /\ \A r \in Requests : Owed[r] = IF stage[r] = "ended" THEN heard[r].tokens ELSE Asked[r]
      /\ \A r \in Requests : heard[r].tokens \in Nat
  BY Debts, ServingAssumption, FS_Subset DEF ServingAssumption
<1>3. /\ stage[p] = "idle" /\ charged[p] = 0 /\ heard' = heard
      /\ window' = IF renewed THEN window + 1 ELSE window
      /\ window' \in Nat \ {0} /\ window <= window'
      /\ UsedNow = IF renewed THEN 0 ELSE used
      /\ UsedNow \in Nat /\ UsedNow <= QuotaLimit
  BY <1>1, <1>2 DEF Reserve, UsedNow
<1>4. p \notin R /\ UsedNow = SumFunctionOnSet(Owed, R)
  <2>1. CASE renewed
    <3>1. R = {}
      BY <1>1, <1>3, <2>1
    <3> QED
      BY <1>3, <2>1, <3>1, SumOfNone
  <2>2. CASE ~renewed
    <3>1. R = Charged
      BY <1>3, <2>2 DEF Charged
    <3> QED
      BY <1>1, <1>3, <2>2, <3>1
  <2> QED
    BY <1>3, <2>1, <2>2
<1> HIDE DEF renewed
<1>5. \E s \in {"ended", "admitted"} : At(stage', stage, p, s)
  BY Entries DEF Reserve
<1>6. \A r \in Requests : r # p => stage'[r] = stage[r]
  BY <1>5 DEF At
<1>7. \A r \in Requests : Owed'[r] = IF stage'[r] = "ended" THEN heard[r].tokens ELSE Asked[r]
  BY <1>3 DEF Owed
<1>8. \A r \in R : Owed'[r] \in Nat /\ Owed'[r] = Owed[r]
  BY <1>2, <1>4, <1>6, <1>7
<1>9. SumFunctionOnSet(Owed', R) = UsedNow
  <2> DEFINE e == Owed'
             f == Owed
  <2>1. \A x \in R : f[x] \in Int /\ e[x] = f[x]
    BY <1>2, <1>8
  <2> HIDE DEF e, f, R
  <2>2. SumFunctionOnSet(e, R) = SumFunctionOnSet(f, R)
    BY <1>2, <2>1, SumSame
  <2> QED
    BY <1>4, <2>2 DEF e, f
<1>10. CASE Asked[p] > QuotaLimit - UsedNow
  <2>1. At(stage', stage, p, "ended") /\ used' = UsedNow /\ charged' = charged
    BY <1>10, Entries DEF Reserve
  <2>2. Charged' = R
    BY <2>1 DEF Charged
  <2>3. QuotaExact'
    BY <1>3, <1>9, <2>1, <2>2 DEF QuotaExact, Charged
  <2>4. ASSUME NEW r \in Requests
        PROVE  /\ charged'[r] \in 0 .. window'
               /\ stage'[r] = "idle" => charged'[r] = 0
               /\ stage'[r] \notin {"idle", "ended"} => charged'[r] # 0
    <3>1. charged'[r] = charged[r] /\ (r = p => stage'[r] = "ended")
      BY <2>1 DEF At
    <3>2. charged[r] \in 0 .. window'
      BY <1>1, <1>3
    <3> QED
      BY <1>1, <1>6, <3>1, <3>2
  <2>5. PerRequest(charged)'
    BY <1>1, <2>1 DEF PerRequest
  <2> QED
    BY <1>3, <2>1, <2>3, <2>4, <2>5 DEF QuotaInv
<1>11. CASE ~(Asked[p] > QuotaLimit - UsedNow)
  <2>1. /\ At(stage', stage, p, "admitted") /\ used' = UsedNow + Asked[p]
        /\ At(charged', charged, p, window')
    BY <1>1, <1>11, Entries, Now DEF Reserve
  <2>2. /\ stage'[p] = "admitted" /\ charged'[p] = window'
        /\ \A r \in Requests : r # p => charged'[r] = charged[r]
    BY <2>1 DEF At
  <2>3. Charged' = R \cup {p}
    BY <1>3, <2>2 DEF Charged
  <2>4. used' = SumFunctionOnSet(Owed', R \cup {p})
    <3> DEFINE e == Owed'
               C == R \cup {p}
    <3>1. e[p] = Asked[p]
      BY <1>7, <2>2
    <3>2. IsFiniteSet(C) /\ p \in C /\ C \ {p} = R
      BY <1>2, <1>4, FS_AddElement
    <3>3. \A x \in C : e[x] \in Int
      BY <1>2, <1>8, <3>1
    <3> HIDE DEF e, C
    <3>4. SumFunctionOnSet(e, C) = e[p] + SumFunctionOnSet(e, C \ {p})
      BY <3>2, <3>3, SumGrows
    <3>5. SumFunctionOnSet(e, C) = Asked[p] + UsedNow
      BY <1>9, <3>1, <3>2, <3>4 DEF e
    <3> QED
      BY <1>2, <1>3, <2>1, <3>5 DEF e, C
  <2>5. used' \in Nat /\ used' <= QuotaLimit
    BY <1>2, <1>3, <1>11, <2>1
  <2>6. QuotaExact'
    BY <2>3, <2>4, <2>5 DEF QuotaExact, Charged
  <2>7. ASSUME NEW r \in Requests
        PROVE  /\ charged'[r] \in 0 .. window'
               /\ stage'[r] = "idle" => charged'[r] = 0
               /\ stage'[r] \notin {"idle", "ended"} => charged'[r] # 0
    <3>1. CASE r = p
      BY <1>3, <2>2, <3>1
    <3>2. CASE r # p
      <4>1. charged[r] \in 0 .. window'
        BY <1>1, <1>3
      <4> QED
        BY <1>1, <1>6, <2>2, <3>2, <4>1
    <3> QED
      BY <3>1, <3>2
  <2>8. PerRequest(charged)'
    BY <2>1 DEF PerRequest, At
  <2> QED
    BY <1>3, <2>5, <2>6, <2>7, <2>8 DEF QuotaInv
<1> QED
  BY <1>10, <1>11

\* The end of a request: its window, if it is still the same, is given back
\* what was asked for and not heard.  The rest of the sum is no less than zero,
\* so the correction of a negative number never happens.
LEMMA SettleQuota ==
  ASSUME AnswerInv, QuotaInv, NEW p \in Requests, Settle(p)
  PROVE  QuotaInv'
<1>1. /\ window \in Nat /\ used \in Nat /\ PerRequest(charged)
      /\ \A r \in Requests :
           /\ charged[r] \in 0 .. window
           /\ stage[r] = "idle" => charged[r] = 0
           /\ stage[r] \notin {"idle", "ended"} => charged[r] # 0
      /\ used = SumFunctionOnSet(Owed, Charged) /\ used <= QuotaLimit
  BY DEF QuotaInv, QuotaExact, Charged
<1>2. /\ IsFiniteSet(Charged) /\ Charged \subseteq Requests /\ QuotaLimit \in Nat
      /\ \A r \in Requests :
           /\ Owed[r] \in Nat
           /\ Owed[r] = IF stage[r] = "ended" THEN heard[r].tokens ELSE Asked[r]
      /\ heard[p].tokens \in Nat /\ Asked[p] \in Nat /\ heard[p].tokens <= Asked[p]
  BY Debts, ServingAssumption DEF ServingAssumption
<1>3. /\ stage[p] = "last" /\ UNCHANGED <<charged, heard, window>>
      /\ At(stage', stage, p, "ended")
  BY Entries DEF Settle
<1>4. stage'[p] = "ended" /\ \A r \in Requests : r # p => stage'[r] = stage[r]
  BY <1>3 DEF At
<1>5. Charged' = Charged
  BY <1>3 DEF Charged
<1>6. \A r \in Requests : Owed'[r] = IF stage'[r] = "ended" THEN heard[r].tokens ELSE Asked[r]
  BY <1>3 DEF Owed
<1> DEFINE R == Charged \ {p}
           e == Owed'
           f == Owed
<1>7. /\ IsFiniteSet(R) /\ \A x \in R : f[x] \in Nat /\ e[x] = f[x]
      /\ \A x \in Requests : f[x] \in Nat /\ e[x] \in Nat
      /\ e[p] = heard[p].tokens /\ f[p] = Asked[p]
  <2>1. IsFiniteSet(R)
    BY <1>2, FS_Subset
  <2>2. \A x \in R : f[x] \in Nat /\ e[x] = f[x]
    BY <1>2, <1>4, <1>6
  <2>3. e[p] = heard[p].tokens /\ f[p] = Asked[p]
    BY <1>2, <1>3, <1>4, <1>6
  <2>4. \A x \in Requests : f[x] \in Nat /\ e[x] \in Nat
    BY <1>2, <1>4, <1>6
  <2> QED
    BY <2>1, <2>2, <2>3, <2>4
<1>8. used' \in Nat /\ used' <= QuotaLimit /\ used' = SumFunctionOnSet(e, Charged)
  <2> HIDE DEF e, f
  <2>1. SumFunctionOnSet(e, R) = SumFunctionOnSet(f, R) /\ SumFunctionOnSet(f, R) \in Nat
    <3> HIDE DEF R
    <3> QED
      BY <1>7, SumSame, SumNat
  <2>2. CASE SameWindow(p)
    <3>1. p \in Charged
      BY <1>1, <1>3, <2>2 DEF SameWindow, Charged
    <3>2. \A x \in Charged : f[x] \in Int /\ e[x] \in Int
      BY <1>2, <1>7
    <3>3. /\ SumFunctionOnSet(f, Charged) = f[p] + SumFunctionOnSet(f, R)
          /\ SumFunctionOnSet(e, Charged) = e[p] + SumFunctionOnSet(e, R)
      BY <1>2, <3>1, <3>2, SumGrows
    <3>4. used = Asked[p] + SumFunctionOnSet(f, R)
      BY <1>1, <1>7, <3>3 DEF f
    <3>5. SumFunctionOnSet(e, Charged) = heard[p].tokens + SumFunctionOnSet(f, R)
      BY <1>7, <2>1, <3>3
    <3>6. used' = LET settled == used - Asked[p] + heard[p].tokens
                  IN IF settled < 0 THEN 0 ELSE settled
      BY <2>2 DEF Settle
    <3> QED
      BY <1>1, <1>2, <2>1, <3>4, <3>5, <3>6
  <2>3. CASE ~SameWindow(p)
    <3>1. used' = used
      BY <2>3 DEF Settle
    <3>2. R = Charged
      BY <2>3 DEF SameWindow, Charged
    <3> QED
      BY <1>1, <2>1, <3>1, <3>2 DEF f
  <2> QED
    BY <2>2, <2>3
<1>9. QuotaExact'
  BY <1>5, <1>8 DEF QuotaExact, Charged
<1>10. ASSUME NEW r \in Requests
       PROVE  /\ charged'[r] \in 0 .. window'
              /\ stage'[r] = "idle" => charged'[r] = 0
              /\ stage'[r] \notin {"idle", "ended"} => charged'[r] # 0
  BY <1>1, <1>3, <1>4
<1>11. (window \in Nat /\ PerRequest(charged))'
  BY <1>1, <1>3 DEF PerRequest
<1> QED
  BY <1>8, <1>9, <1>10, <1>11 DEF QuotaInv

\* The stages between admission and the end.
Served == {"admitted", "waiting", "event", "sending", "joining", "last"}

\* A step that is none of the middleware's.
LEMMA ServedQuota ==
  ASSUME AnswerInv, QuotaInv, UNCHANGED quotaVars, UNCHANGED charged, NEW p \in Requests,
         stage[p] \in Served, NEW s \in Served, Becomes(p, s),
         \A r \in Requests \ {p} : heard'[r] = heard[r]
  PROVE  QuotaInv'
<1>1. At(stage', stage, p, s)
  BY Entries
<1>2. UNCHANGED <<charged, used, window>>
  BY DEF quotaVars
<1> QED
  BY <1>1, <1>2, QuotaQuiet DEF At, Served

\* What a handler and the engine runner do for a request is none of its quota.
LEMMA HandlerQuota ==
  ASSUME AnswerInv, QuotaInv, NEW p \in Requests,
         \/ Invalid(p) \/ Generate(p) \/ Resume(p) \/ TakeItem(p) \/ Send(p) \/ Join(p)
         \/ Cancel(p)
  PROVE  QuotaInv'
<1>1. UNCHANGED quotaVars /\ UNCHANGED charged
  BY DEF Invalid, Generate, Resume, TakeItem, Send, Join, Cancel
<1>2. stage[p] \in Served
  BY DEF Invalid, Generate, Resume, TakeItem, Send, Join, Cancel, Served
<1>3. \E s \in Served : Becomes(p, s)
  BY DEF Invalid, Generate, Resume, TakeItem, Send, Join, Cancel, Served, Begin, LoopOver,
         LastFrames
<1>4. \A r \in Requests \ {p} : heard'[r] = heard[r]
  <2>1. UNCHANGED heard \/ \E e : Accepted(p, e)
    BY DEF Invalid, Generate, Resume, TakeItem, Send, Join, Cancel
  <2> QED
    BY <2>1, AnswerFacts DEF Accepted, PerRequest
<1> QED
  BY <1>1, <1>2, <1>3, <1>4, ServedQuota

LEMMA QuotaStep == AnswerInv /\ QuotaInv /\ [Next]_vars => QuotaInv'
<1> SUFFICES ASSUME AnswerInv, QuotaInv, [Next]_vars PROVE QuotaInv'
  OBVIOUS
<1>1. ASSUME UNCHANGED <<stage, heard, charged, used, window>> PROVE QuotaInv'
  BY <1>1, QuotaQuiet
<1>2. ASSUME NEW r \in Requests, Handle(r) \/ Cancel(r) PROVE QuotaInv'
  BY <1>2, HandlerQuota, SettleQuota DEF Handle
<1>3. ASSUME NEW r \in Requests, Reserve(r) PROVE QuotaInv'
  BY <1>3, ReserveQuota
<1>4. ASSUME NEW r \in Requests, Unauthenticated(r) PROVE QuotaInv'
  <2>1. /\ stage[r] = "idle" /\ At(stage', stage, r, "ended")
        /\ UNCHANGED <<heard, charged, used, window>>
    BY <1>4, Entries DEF Unauthenticated, quotaVars
  <2> QED
    BY <2>1, QuotaQuiet DEF At
<1>5. ASSUME NEW r \in Requests, Work(r) \/ CloseGenerator(r) PROVE QuotaInv'
  BY <1>1, <1>5 DEF Work, StartBranch, MakeToken, WorkerEnds, ThreadExits, ThreadStep,
                    CloseGenerator, requestVars, quotaVars
<1>6. CASE WindowPasses \/ Shutdown \/ ShutdownReturns \/ UNCHANGED vars
  BY <1>1, <1>6 DEF WindowPasses, Shutdown, ShutdownReturns, vars, requestVars, quotaVars
<1> QED
  BY <1>2, <1>3, <1>4, <1>5, <1>6 DEF Next

\* What is used of a window is what its requests reserved or were given, and no
\* more than the limit, whoever is refused, cut or settled while others run and
\* whenever the window is renewed.
THEOREM QuotaExactAlways == Spec => []QuotaExact
<1>1. QuotaInv => QuotaExact
  BY DEF QuotaInv
<1> QED
  BY <1>1, InitAnswer, AnswerStep, InitQuota, QuotaStep, PTL DEF Spec
=============================================================================
