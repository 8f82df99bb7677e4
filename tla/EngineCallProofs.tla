-------------------------- MODULE EngineCallProofs --------------------------
(***************************************************************************)
(* Proofs about EngineCall for every set of tasks and every bound.         *)
(*                                                                         *)
(* The semaphore is treated on its own first: what each of its operations  *)
(* does to the tasks it knows and to the slots it has not given to a       *)
(* running call.  The inductive invariant then only has to relate those    *)
(* two numbers to the program counters.                                    *)
(***************************************************************************)
EXTENDS EngineCall, FiniteSetTheorems, SequenceTheorems, TLAPS

\* A semaphore whose queue holds nobody twice.
SemBase(s) ==
    /\ s \in [value : Nat, waiters : Seq(Tasks), woken : SUBSET Tasks]
    /\ IsInjective(s.waiters)
    /\ s.woken \cap ToSet(s.waiters) = {}

\* ... and in which no wake-up has been lost.
SemOK(s) ==
    /\ SemBase(s)
    /\ s.value > 0 /\ s.waiters # <<>> => s.woken # {}

\* The tasks inside acquire(), and the slots no call holds.
SemTasks(s) == s.woken \cup ToSet(s.waiters)
Slots(s) == s.value + Cardinality(s.woken)

\* Every set of tasks is finite.
LEMMA TaskSetsFinite ==
    ASSUME NEW S \in SUBSET Tasks
    PROVE  IsFiniteSet(S) /\ Cardinality(S) \in Nat
BY TasksAssumption, FS_Subset, FS_CardinalityType

\* Head and tail of a queue without duplicates.
LEMMA QueueTail ==
    ASSUME NEW q \in Seq(Tasks), IsInjective(q), q # <<>>
    PROVE  /\ Tail(q) \in Seq(Tasks) /\ IsInjective(Tail(q))
           /\ Head(q) \in Tasks /\ Head(q) \notin ToSet(Tail(q))
           /\ ToSet(q) = {Head(q)} \cup ToSet(Tail(q))
<1>1. /\ Len(q) \in Nat /\ Len(q) > 0 /\ DOMAIN q = 1 .. Len(q)
      /\ Head(q) = q[1] /\ q[1] \in Tasks
  BY LenProperties, EmptySeq, ElementOfSeq, HeadTailProperties
<1>2. /\ Tail(q) \in Seq(Tasks) /\ Len(Tail(q)) = Len(q) - 1
      /\ DOMAIN Tail(q) = 1 .. Len(q) - 1
      /\ \A i \in 1 .. Len(q) - 1 : Tail(q)[i] = q[i + 1]
  BY <1>1, HeadTailProperties, LenProperties
<1>3. IsInjective(Tail(q))
  BY <1>1, <1>2 DEF IsInjective
<1>4. Head(q) \notin ToSet(Tail(q))
  BY <1>1, <1>2 DEF IsInjective, ToSet
<1>5. ASSUME NEW i \in 1 .. Len(q), i # 1
      PROVE  q[i] \in ToSet(Tail(q))
  <2>1. i - 1 \in 1 .. Len(q) - 1 /\ Tail(q)[i - 1] = q[i]
    BY <1>1, <1>2, <1>5
  <2>. QED  BY <2>1, <1>2 DEF ToSet
<1>6. ToSet(q) = {Head(q)} \cup ToSet(Tail(q))
  BY <1>1, <1>2, <1>5 DEF ToSet
<1>. QED  BY <1>1, <1>2, <1>3, <1>4, <1>6

\* Waking the next waiter moves one slot and one task, and loses neither.
LEMMA WakeNextFacts ==
    ASSUME NEW s, SemBase(s), s.value > 0
    PROVE  /\ SemOK(WakeNext(s))
           /\ SemTasks(WakeNext(s)) = SemTasks(s)
           /\ Slots(WakeNext(s)) = Slots(s)
<1>1. CASE s.waiters = <<>>
  BY <1>1 DEF WakeNext, SemOK, SemBase
<1>2. CASE s.waiters # <<>>
  <2>. DEFINE h == Head(s.waiters)
              r == [value |-> s.value - 1, waiters |-> Tail(s.waiters),
                    woken |-> s.woken \cup {h}]
  <2>1. WakeNext(s) = r
    BY <1>2 DEF WakeNext
  <2>2. /\ Tail(s.waiters) \in Seq(Tasks) /\ IsInjective(Tail(s.waiters))
        /\ h \in Tasks /\ h \notin ToSet(Tail(s.waiters))
        /\ ToSet(s.waiters) = {h} \cup ToSet(Tail(s.waiters))
    BY <1>2, QueueTail DEF SemBase
  <2>3. SemOK(r)
    BY <2>2 DEF SemOK, SemBase
  <2>4. SemTasks(r) = SemTasks(s)
    BY <2>2 DEF SemTasks
  <2>5. IsFiniteSet(s.woken) /\ Cardinality(s.woken) \in Nat /\ h \notin s.woken
    BY <2>2, TaskSetsFinite DEF SemBase
  <2>6. Cardinality(s.woken \cup {h}) = Cardinality(s.woken) + 1
    BY <2>5, FS_AddElement
  <2>7. Slots(r) = Slots(s)
    BY <2>5, <2>6 DEF Slots, SemBase
  <2>. QED  BY <2>1, <2>3, <2>4, <2>7
<1>. QED  BY <1>1, <1>2

\* Releasing a slot: one more slot, the same tasks, no lost wake-up.
LEMMA ReleaseFacts ==
    ASSUME NEW s, SemBase(s)
    PROVE  /\ SemOK(Release(s))
           /\ SemTasks(Release(s)) = SemTasks(s)
           /\ Slots(Release(s)) = Slots(s) + 1
<1>. DEFINE r == [s EXCEPT !.value = @ + 1]
<1>1. /\ r.value = s.value + 1 /\ r.waiters = s.waiters /\ r.woken = s.woken
      /\ SemBase(r) /\ r.value > 0
  BY DEF SemBase
<1>2. SemTasks(r) = SemTasks(s)
  BY <1>1 DEF SemTasks
<1>3. Slots(r) = Slots(s) + 1
  BY <1>1, TaskSetsFinite DEF Slots, SemBase
<1>. HIDE DEF r
<1>4. /\ SemOK(WakeNext(r)) /\ SemTasks(WakeNext(r)) = SemTasks(r)
      /\ Slots(WakeNext(r)) = Slots(r)
  BY <1>1, WakeNextFacts
<1>. QED  BY <1>2, <1>3, <1>4 DEF Release, r

\* A semaphore from which a woken task has been taken.
LEMMA RemoveWoken ==
    ASSUME NEW s, SemBase(s), NEW t \in s.woken, NEW r,
           r = [s EXCEPT !.woken = @ \ {t}]
    PROVE  /\ SemBase(r) /\ r.value = s.value
           /\ SemTasks(r) = SemTasks(s) \ {t}
           /\ Slots(r) = Slots(s) - 1
<1>1. r.value = s.value /\ r.waiters = s.waiters /\ r.woken = s.woken \ {t} /\ SemBase(r)
  BY DEF SemBase
<1>2. t \notin ToSet(s.waiters)
  BY DEF SemBase
<1>3. SemTasks(r) = SemTasks(s) \ {t}
  BY <1>1, <1>2 DEF SemTasks
<1>4. IsFiniteSet(s.woken) /\ Cardinality(s.woken) \in Nat
  BY TaskSetsFinite DEF SemBase
<1>5. Cardinality(r.woken) = Cardinality(s.woken) - 1
  BY <1>1, <1>4, FS_RemoveElement
<1>6. s.value \in Nat
  BY DEF SemBase
<1>7. Slots(r) = Slots(s) - 1
  <2>. HIDE DEF SemBase
  <2>. QED  BY <1>1, <1>4, <1>5, <1>6 DEF Slots
<1>. QED  BY <1>1, <1>3, <1>7

\* A woken task that runs takes one slot with it and passes wake-ups on.
LEMMA ResumeFacts ==
    ASSUME NEW s, SemOK(s), NEW t \in s.woken
    PROVE  /\ SemOK(Resume(s, t))
           /\ SemTasks(Resume(s, t)) = SemTasks(s) \ {t}
           /\ Slots(Resume(s, t)) = Slots(s) - 1
<1>. DEFINE r == [s EXCEPT !.woken = @ \ {t}]
<1>1. /\ SemBase(r) /\ r.value = s.value
      /\ SemTasks(r) = SemTasks(s) \ {t}
      /\ Slots(r) = Slots(s) - 1
  BY RemoveWoken DEF SemOK
<1>2. Resume(s, t) = IF r.value > 0 THEN WakeNext(r) ELSE r
  BY DEF Resume
<1>. HIDE DEF r
<1>3. CASE r.value > 0
  BY <1>1, <1>2, <1>3, WakeNextFacts
<1>4. CASE ~(r.value > 0)
  BY <1>1, <1>2, <1>4 DEF SemOK
<1>. QED  BY <1>3, <1>4

\* Taking a waiter out of the middle of the queue.
LEMMA QueueRemove ==
    ASSUME NEW q \in Seq(Tasks), IsInjective(q), NEW i \in 1 .. Len(q)
    PROVE  /\ RemoveAt(q, i) \in Seq(Tasks)
           /\ IsInjective(RemoveAt(q, i))
           /\ ToSet(RemoveAt(q, i)) = ToSet(q) \ {q[i]}
<1>. DEFINE n == Len(q)
            a == SubSeq(q, 1, i - 1)
            b == SubSeq(q, i + 1, n)
            r == RemoveAt(q, i)
<1>1. n \in Nat /\ DOMAIN q = 1 .. n /\ i \in 1 .. n /\ \A j \in 1 .. n : q[j] \in Tasks
  BY LenProperties, ElementOfSeq
<1>. HIDE DEF n
<1>2. /\ a \in Seq(Tasks) /\ Len(a) = i - 1
      /\ \A j \in 1 .. i - 1 : a[j] = q[j]
  BY <1>1, SubSeqProperties
<1>3. /\ b \in Seq(Tasks) /\ Len(b) = n - i
      /\ \A j \in 1 .. n - i : b[j] = q[j + i]
  <2>1. \A j \in i + 1 .. n : q[j] \in Tasks
    BY <1>1
  <2>2. /\ b \in Seq(Tasks)
        /\ Len(b) = IF i + 1 <= n THEN n - (i + 1) + 1 ELSE 0
        /\ \A j \in 1 .. n - (i + 1) + 1 : b[j] = q[(i + 1) + j - 1]
    BY <2>1, <1>1, SubSeqProperties
  <2>3. n - (i + 1) + 1 = n - i /\ \A j \in 1 .. n - i : (i + 1) + j - 1 = j + i
    BY <1>1
  <2>. HIDE DEF b
  <2>. QED  BY <2>2, <2>3, <1>1
<1>4. /\ r \in Seq(Tasks) /\ Len(r) = n - 1 /\ DOMAIN r = 1 .. n - 1
      /\ \A j \in 1 .. n - 1 : r[j] = IF j < i THEN q[j] ELSE q[j + 1]
  <2>1. r = a \o b
    BY DEF RemoveAt, n
  <2>. HIDE DEF r, a, b
  <2>2. /\ r \in Seq(Tasks) /\ Len(r) = Len(a) + Len(b)
        /\ \A j \in 1 .. Len(a) + Len(b) : r[j] = IF j <= Len(a) THEN a[j] ELSE b[j - Len(a)]
    BY <2>1, <1>2, <1>3, ConcatProperties
  <2>3. Len(r) = n - 1 /\ DOMAIN r = 1 .. n - 1
    BY <2>2, <1>1, <1>2, <1>3, LenProperties
  <2>4. ASSUME NEW j \in 1 .. n - 1
        PROVE  r[j] = IF j < i THEN q[j] ELSE q[j + 1]
    <3>1. CASE j < i
      <4>1. j \in 1 .. i - 1 /\ j <= Len(a) /\ j \in 1 .. Len(a) + Len(b)
        BY <3>1, <1>1, <1>2, <1>3
      <4>. QED  BY <4>1, <3>1, <2>2, <1>2
    <3>2. CASE ~(j < i)
      <4>1. j - Len(a) \in 1 .. n - i /\ (j - Len(a)) + i = j + 1 /\ ~(j <= Len(a))
        BY <3>2, <1>1, <1>2
      <4>. QED  BY <4>1, <3>2, <2>2, <1>1, <1>2, <1>3
    <3>. QED  BY <3>1, <3>2
  <2>. QED  BY <2>2, <2>3, <2>4
<1>. HIDE DEF r, a, b
<1>5. /\ \A j \in 1 .. n - 1 : j < i => r[j] = q[j] /\ j \in 1 .. n /\ j # i
      /\ \A j \in 1 .. n - 1 : ~(j < i) => r[j] = q[j + 1] /\ j + 1 \in 1 .. n /\ j + 1 # i
  BY <1>1, <1>4
<1>12. \A j, k \in 1 .. n : q[j] = q[k] => j = k
  BY <1>1 DEF IsInjective
<1>9. \A j, k \in 1 .. n - 1 : r[j] = r[k] => j = k
  <2>1. SUFFICES ASSUME NEW j \in 1 .. n - 1, NEW k \in 1 .. n - 1, r[j] = r[k]
                 PROVE  j = k
    OBVIOUS
  <2>2. CASE j < i /\ k < i
    BY <2>1, <2>2, <1>5, <1>12
  <2>3. CASE j < i /\ ~(k < i)
    <3>1. j = k + 1
      BY <2>1, <2>3, <1>5, <1>12
    <3>. QED  BY <3>1, <2>3, <1>1
  <2>4. CASE ~(j < i) /\ k < i
    <3>1. j + 1 = k
      BY <2>1, <2>4, <1>5, <1>12
    <3>. QED  BY <3>1, <2>4, <1>1
  <2>5. CASE ~(j < i) /\ ~(k < i)
    <3>1. j + 1 = k + 1
      BY <2>1, <2>5, <1>5, <1>12
    <3>. QED  BY <3>1, <1>1
  <2>. QED  BY <2>2, <2>3, <2>4, <2>5
<1>10. IsInjective(r)
  BY <1>9, <1>4 DEF IsInjective
<1>6. ASSUME NEW k \in 1 .. n, k # i
      PROVE  \E j \in 1 .. n - 1 : r[j] = q[k]
  <2>1. CASE k < i
    <3>1. k \in 1 .. n - 1
      BY <2>1, <1>1
    <3>. QED  BY <3>1, <2>1, <1>4
  <2>2. CASE k > i
    <3>1. k - 1 \in 1 .. n - 1 /\ ~(k - 1 < i) /\ (k - 1) + 1 = k
      BY <2>2, <1>1
    <3>. QED  BY <3>1, <1>4
  <2>. QED  BY <2>1, <2>2, <1>6, <1>1
<1>7. \A j \in 1 .. n - 1 : \E k \in 1 .. n : k # i /\ r[j] = q[k]
  BY <1>5
<1>8. ToSet(r) \subseteq ToSet(q) \ {q[i]}
  <2>1. ASSUME NEW x \in ToSet(r)
        PROVE  x \in ToSet(q) /\ x # q[i]
    <3>1. PICK j \in 1 .. n - 1 : x = r[j]
      BY <1>4 DEF ToSet
    <3>2. PICK k \in 1 .. n : k # i /\ r[j] = q[k]
      BY <1>7
    <3>. QED  BY <3>1, <3>2, <1>1, <1>12 DEF ToSet
  <2>. QED  BY <2>1
<1>11. ToSet(q) \ {q[i]} \subseteq ToSet(r)
  <2>1. ASSUME NEW x \in ToSet(q), x # q[i]
        PROVE  \E j \in 1 .. n - 1 : r[j] = x
    BY <2>1, <1>1, <1>6 DEF ToSet
  <2>. QED  BY <2>1, <1>4 DEF ToSet
<1>. QED  BY <1>4, <1>8, <1>10, <1>11 DEF r

\* Cancelling a queued call: it leaves the semaphore and no slot is lost.
LEMMA AbandonFacts ==
    ASSUME NEW s, SemOK(s), NEW t \in SemTasks(s)
    PROVE  /\ SemOK(Abandon(s, t))
           /\ SemTasks(Abandon(s, t)) = SemTasks(s) \ {t}
           /\ Slots(Abandon(s, t)) = Slots(s)
<1>1. CASE t \in s.woken
  <2>. DEFINE r == [s EXCEPT !.woken = @ \ {t}]
  <2>1. /\ SemBase(r)
        /\ SemTasks(r) = SemTasks(s) \ {t}
        /\ Slots(r) = Slots(s) - 1
    BY <1>1, RemoveWoken DEF SemOK
  <2>2. Abandon(s, t) = Release(r)
    BY <1>1 DEF Abandon
  <2>. HIDE DEF r
  <2>3. /\ SemOK(Release(r)) /\ SemTasks(Release(r)) = SemTasks(r)
        /\ Slots(Release(r)) = Slots(r) + 1
    BY <2>1, ReleaseFacts
  <2>4. Slots(s) \in Int
    BY TaskSetsFinite DEF Slots, SemOK, SemBase
  <2>. QED  BY <2>1, <2>2, <2>3, <2>4
<1>2. CASE t \notin s.woken
  <2>. DEFINE q == s.waiters
              i == CHOOSE j \in DOMAIN q : q[j] = t
              r == [s EXCEPT !.waiters = RemoveAt(q, i)]
  <2>1. q \in Seq(Tasks) /\ IsInjective(q) /\ s.woken \cap ToSet(q) = {}
    BY DEF SemOK, SemBase
  <2>2. \E j \in DOMAIN q : q[j] = t
    BY <1>2 DEF SemTasks, ToSet
  <2>3. i \in DOMAIN q /\ q[i] = t
    BY <2>2
  <2>4. DOMAIN q = 1 .. Len(q)
    BY <2>1, LenProperties
  <2>5. Abandon(s, t) = r
    BY <1>2 DEF Abandon
  <2>. HIDE DEF i
  <2>6. /\ RemoveAt(q, i) \in Seq(Tasks) /\ IsInjective(RemoveAt(q, i))
        /\ ToSet(RemoveAt(q, i)) = ToSet(q) \ {t}
    BY <2>1, <2>3, <2>4, QueueRemove
  <2>7. r.value = s.value /\ r.woken = s.woken /\ r.waiters = RemoveAt(q, i)
    BY DEF SemOK, SemBase
  <2>8. SemBase(r)
    BY <2>1, <2>6, <2>7 DEF SemOK, SemBase
  <2>9. q # <<>>
    BY <2>2
  <2>10. SemOK(r)
    BY <2>7, <2>8, <2>9 DEF SemOK
  <2>11. SemTasks(r) = SemTasks(s) \ {t}
    BY <1>2, <2>6, <2>7 DEF SemTasks
  <2>. HIDE DEF r, q
  <2>. QED  BY <2>5, <2>7, <2>10, <2>11 DEF Slots
<1>. QED  BY <1>1, <1>2

-----------------------------------------------------------------------------
(* The breaker, seen as a value.                                           *)

Coherent(b) ==
    /\ b.state = "closed" <=> b.failures < FailureThreshold
    /\ b.state = "half_open" <=> b.probing

\* Recording the end of a call keeps the breaker's fields in agreement.
LEMMA RecordFacts ==
    ASSUME NEW b \in Breakers, Coherent(b)
    PROVE  /\ RecordFailure(b) \in Breakers /\ Coherent(RecordFailure(b))
           /\ RecordSuccess(b) \in Breakers /\ Coherent(RecordSuccess(b))
<1>. /\ 0 \in FailureCount /\ b.failures \in FailureCount
     /\ b.failures < FailureThreshold => b.failures + 1 \in FailureCount
     /\ 0 < FailureThreshold /\ b.failures \in Nat /\ FailureThreshold \in Nat
  BY ThresholdAssumption DEF Breakers, FailureCount
<1>1. RecordSuccess(b) \in Breakers /\ Coherent(RecordSuccess(b))
  BY DEF RecordSuccess, Breakers, Coherent, BreakerState
<1>2. RecordFailure(b) \in Breakers
  <2>. DEFINE n == IF b.failures < FailureThreshold THEN b.failures + 1 ELSE b.failures
              o == b.state = "half_open" \/ n >= FailureThreshold
              st == IF o THEN "open" ELSE b.state
              el == IF o THEN FALSE ELSE b.elapsed
  <2>1. n \in FailureCount /\ st \in BreakerState /\ el \in BOOLEAN
    BY DEF Breakers, BreakerState
  <2>2. RecordFailure(b) = [state |-> st, failures |-> n, elapsed |-> el, probing |-> FALSE]
    BY DEF RecordFailure
  <2>. HIDE DEF st, el, n, o
  <2>. QED  BY <2>1, <2>2 DEF Breakers
<1>3. Coherent(RecordFailure(b))
  BY DEF RecordFailure, Breakers, Coherent, BreakerState
<1>. QED  BY <1>1, <1>2, <1>3

\* What asking the breaker does: a rejected call leaves it as it was, and an
\* admitted one raises the probe flag exactly when it made it half-open.
LEMMA AskFacts ==
    ASSUME NEW b \in Breakers, Coherent(b), NEW m, m = MaybeHalfOpen(b)
    PROVE  /\ m \in Breakers
           /\ Rejects(m) => m = b
           /\ ~Rejects(m) => /\ Admit(m) \in Breakers
                             /\ Coherent(Admit(m))
           /\ ~Rejects(m) => b.state = "closed" \/ (b.state = "open" /\ b.elapsed)
<1>1. CASE b.state = "open" /\ b.elapsed
  <2>1. m = [b EXCEPT !.state = "half_open"]
    BY <1>1 DEF MaybeHalfOpen
  <2>2. m \in Breakers /\ m.state = "half_open" /\ m.failures = b.failures /\ ~m.probing
    BY <2>1, <1>1 DEF Breakers, Coherent, BreakerState
  <2>3. ~Rejects(m)
    BY <2>2 DEF Rejects
  <2>. QED  BY <1>1, <2>2, <2>3 DEF Admit, Breakers, Coherent, BreakerState
<1>2. CASE ~(b.state = "open" /\ b.elapsed)
  <2>1. m = b
    BY <1>2 DEF MaybeHalfOpen
  <2>2. ~Rejects(m) => b.state = "closed" /\ ~b.probing
    BY <2>1 DEF Rejects, Breakers, Coherent, BreakerState
  <2>. QED  BY <2>1, <2>2 DEF Admit, Breakers, Coherent, BreakerState
<1>. QED  BY <1>1, <1>2

-----------------------------------------------------------------------------
(* The inductive invariant.                                                *)

\* The types without the two upper bounds that follow from the slot count.
Types ==
    /\ pc \in [Tasks -> PC]
    /\ attempt \in [Tasks -> 0 .. Retries]
    /\ \A t \in Tasks : pc[t] = "backoff" => attempt[t] < Retries
    /\ outcome \in [Tasks -> Outcome]
    /\ probe \subseteq Tasks
    /\ up \in BOOLEAN

\* The semaphore knows exactly the queued tasks, and the slots it has not
\* given away are those no call holds.
Queueing ==
    /\ SemOK(sem)
    /\ \A t \in Tasks : pc[t] = "queued" <=> t \in SemTasks(sem)
    /\ inFlight = Cardinality(Holders)
    /\ Slots(sem) + Cardinality(Holders) = MaxConcurrent

BreakerOK == breaker \in Breakers /\ Coherent(breaker)

IndInv == Types /\ Queueing /\ BreakerOK

\* The inductive invariant gives the four invariants the model states.
LEMMA IndInvImplies ==
    IndInv => TypeOK /\ SlotAccounting /\ NoLostWakeup /\ BreakerCoherent
<1>. SUFFICES ASSUME IndInv PROVE TypeOK /\ SlotAccounting /\ NoLostWakeup /\ BreakerCoherent
  OBVIOUS
<1>1. Cardinality(Holders) \in Nat /\ Cardinality(sem.woken) \in Nat /\ sem.value \in Nat
  BY TaskSetsFinite DEF Holders, IndInv, Queueing, SemOK, SemBase
<1>2. sem.value \in 0 .. MaxConcurrent /\ inFlight \in 0 .. MaxConcurrent
  BY <1>1, BoundsAssumption DEF IndInv, Queueing, Slots
<1>3. sem \in [value : 0 .. MaxConcurrent, waiters : Seq(Tasks), woken : SUBSET Tasks]
  BY <1>2 DEF IndInv, Queueing, SemOK, SemBase
<1>4. TypeOK
  BY <1>2, <1>3 DEF TypeOK, IndInv, Types, BreakerOK, Breakers
<1>5. SlotAccounting
  BY DEF SlotAccounting, IndInv, Queueing, Slots
<1>6. NoLostWakeup
  BY DEF NoLostWakeup, IndInv, Queueing, SemOK, SemBase, SemTasks
<1>7. BreakerCoherent
  BY DEF BreakerCoherent, IndInv, BreakerOK, Coherent
<1>. QED  BY <1>4, <1>5, <1>6, <1>7

\* Every initial state satisfies the inductive invariant.
LEMMA InitIndInv == Init => IndInv
<1>. SUFFICES ASSUME Init PROVE IndInv
  OBVIOUS
<1>1. Types
  BY BoundsAssumption DEF Init, Types, PC, Outcome
<1>2. Holders = {} /\ Cardinality(Holders) = 0 /\ Cardinality({}) = 0
  BY FS_EmptySet DEF Init, Holders
<1>3. /\ sem.value = MaxConcurrent /\ sem.waiters = <<>> /\ sem.woken = {}
      /\ sem \in [value : Nat, waiters : Seq(Tasks), woken : SUBSET Tasks]
  BY BoundsAssumption DEF Init
<1>4. IsInjective(sem.waiters) /\ ToSet(sem.waiters) = {}
  BY <1>3 DEF IsInjective, ToSet
<1>5. Queueing
  BY <1>2, <1>3, <1>4, BoundsAssumption
  DEF Init, Queueing, SemOK, SemBase, SemTasks, Slots
<1>6. BreakerOK
  BY ThresholdAssumption DEF Init, NewBreaker, BreakerOK, Breakers, Coherent, BreakerState, FailureCount
<1>. QED  BY <1>1, <1>5, <1>6 DEF IndInv

\* How the set of holders follows the program counter of one task.
LEMMA HoldersMove ==
    ASSUME Types, NEW t \in Tasks, NEW v \in PC, pc' = [pc EXCEPT ![t] = v]
    PROVE  /\ Cardinality(Holders) \in Nat
           /\ v \in {"calling", "backoff"} /\ t \notin Holders
                => Cardinality(Holders') = Cardinality(Holders) + 1
           /\ v \notin {"calling", "backoff"} /\ t \in Holders
                => Cardinality(Holders') = Cardinality(Holders) - 1
           /\ (v \in {"calling", "backoff"} <=> t \in Holders)
                => Cardinality(Holders') = Cardinality(Holders)
<1>1. IsFiniteSet(Holders) /\ Cardinality(Holders) \in Nat
  BY TaskSetsFinite DEF Holders
<1>2. Holders' = IF v \in {"calling", "backoff"} THEN Holders \cup {t} ELSE Holders \ {t}
  BY DEF Holders, Types
<1>3. Cardinality(Holders \cup {t}) = IF t \in Holders THEN Cardinality(Holders)
                                                      ELSE Cardinality(Holders) + 1
  BY <1>1, FS_AddElement
<1>4. Cardinality(Holders \ {t}) = IF t \in Holders THEN Cardinality(Holders) - 1
                                                   ELSE Cardinality(Holders)
  BY <1>1, FS_RemoveElement
<1>. QED  BY <1>1, <1>2, <1>3, <1>4

\* Entering the breaker with a slot in hand keeps the invariant, whether the
\* call is let in or fails fast.
LEMMA EnterInd ==
    ASSUME IndInv, NEW t \in Tasks, t \notin Holders, NEW s, SemOK(s),
           SemTasks(s) = SemTasks(sem) \ {t}, Slots(s) = Slots(sem) - 1,
           Enter(t, s), up' = up
    PROVE  IndInv'
<1>. DEFINE m == MaybeHalfOpen(breaker)
<1>0. /\ m \in Breakers
      /\ Rejects(m) => m = breaker
      /\ ~Rejects(m) => /\ Admit(m) \in Breakers
                        /\ Coherent(Admit(m))
  BY AskFacts DEF IndInv, BreakerOK
<1>. HIDE DEF m
<1>1. Slots(sem) \in Int /\ Slots(s) \in Int
  BY TaskSetsFinite DEF IndInv, Queueing, SemOK, SemBase, Slots
<1>2. CASE Rejects(m)
  <2>1. /\ breaker' = m /\ sem' = Release(s)
        /\ pc' = [pc EXCEPT ![t] = "idle"]
        /\ outcome' = [outcome EXCEPT ![t] = "unavailable"]
        /\ UNCHANGED <<attempt, inFlight, probe>>
    BY <1>2 DEF Enter, m
  <2>2. SemOK(sem') /\ SemTasks(sem') = SemTasks(sem) \ {t} /\ Slots(sem') = Slots(sem)
    BY <2>1, <1>1, ReleaseFacts DEF SemOK
  <2>3. Types'
    BY <2>1 DEF Types, IndInv, PC, Outcome
  <2>4. Cardinality(Holders') = Cardinality(Holders)
    BY <2>1, HoldersMove DEF IndInv, PC
  <2>5. \A u \in Tasks : pc'[u] = "queued" <=> u \in SemTasks(sem')
    BY <2>1, <2>2 DEF IndInv, Types, Queueing
  <2>6. Queueing'
    BY <2>1, <2>2, <2>4, <2>5 DEF IndInv, Queueing, SemOK, SemBase, SemTasks, Slots
  <2>7. BreakerOK'
    BY <2>1, <1>0, <1>2 DEF IndInv, BreakerOK
  <2>. QED  BY <2>3, <2>6, <2>7 DEF IndInv
<1>3. CASE ~Rejects(m)
  <2>1. /\ breaker' = Admit(m)
        /\ probe' = IF m.state = "half_open" THEN probe \cup {t} ELSE probe
        /\ sem' = s
        /\ pc' = [pc EXCEPT ![t] = "calling"]
        /\ attempt' = [attempt EXCEPT ![t] = 1]
        /\ inFlight' = inFlight + 1
        /\ UNCHANGED outcome
    BY <1>3 DEF Enter, m
  <2>3. Types'
    BY <2>1, BoundsAssumption DEF Types, IndInv, PC
  <2>4. Cardinality(Holders') = Cardinality(Holders) + 1 /\ Cardinality(Holders) \in Nat
    BY <2>1, HoldersMove DEF IndInv, PC
  <2>5. \A u \in Tasks : pc'[u] = "queued" <=> u \in SemTasks(sem')
    BY <2>1 DEF IndInv, Types, Queueing
  <2>6. Slots(sem') + Cardinality(Holders') = MaxConcurrent /\ inFlight' = Cardinality(Holders')
    BY <2>1, <2>4, <1>1, BoundsAssumption DEF IndInv, Queueing
  <2>7. Queueing'
    BY <2>1, <2>5, <2>6 DEF Queueing, SemOK, SemBase, SemTasks, Slots
  <2>8. BreakerOK'
    BY <2>1, <1>0, <1>3 DEF BreakerOK
  <2>. QED  BY <2>3, <2>7, <2>8 DEF IndInv
<1>. QED  BY <1>2, <1>3

\* Leaving _post with a coherent breaker keeps the invariant.
LEMMA FinishInd ==
    ASSUME IndInv, NEW t \in Tasks, t \in Holders, NEW b \in Breakers, Coherent(b),
           NEW result \in Outcome, Finish(t, b, result)
    PROVE  IndInv'
<1>1. /\ breaker' = b /\ sem' = Release(sem) /\ inFlight' = inFlight - 1
      /\ pc' = [pc EXCEPT ![t] = "idle"] /\ attempt' = [attempt EXCEPT ![t] = 0]
      /\ outcome' = [outcome EXCEPT ![t] = result] /\ probe' = probe \ {t} /\ up' = up
  BY DEF Finish
<1>2. /\ SemOK(sem') /\ SemTasks(sem') = SemTasks(sem) /\ Slots(sem') = Slots(sem) + 1
  BY <1>1, ReleaseFacts DEF IndInv, Queueing, SemOK
<1>3. Slots(sem) \in Int
  BY TaskSetsFinite DEF IndInv, Queueing, SemOK, SemBase, Slots
<1>4. Types'
  BY <1>1, BoundsAssumption DEF Types, IndInv, PC
<1>5. Cardinality(Holders') = Cardinality(Holders) - 1 /\ Cardinality(Holders) \in Nat
  BY <1>1, HoldersMove DEF IndInv, PC
<1>6. \A u \in Tasks : pc'[u] = "queued" <=> u \in SemTasks(sem')
  BY <1>1, <1>2 DEF IndInv, Types, Queueing, Holders
<1>7. Slots(sem') + Cardinality(Holders') = MaxConcurrent /\ inFlight' = Cardinality(Holders')
  BY <1>1, <1>2, <1>3, <1>5 DEF IndInv, Queueing
<1>8. Queueing'
  BY <1>2, <1>6, <1>7 DEF Queueing, SemOK, SemBase, SemTasks, Slots
<1>9. BreakerOK'
  BY <1>1 DEF BreakerOK
<1>. QED  BY <1>4, <1>8, <1>9 DEF IndInv

\* A free semaphore has nobody in it, so taking a slot at once is safe.
LEMMA FastPath ==
    ASSUME IndInv, ~Locked(sem), NEW s, s = [sem EXCEPT !.value = @ - 1]
    PROVE  SemOK(s) /\ SemTasks(s) = SemTasks(sem) /\ SemTasks(sem) = {}
           /\ Slots(s) = Slots(sem) - 1
<1>1. /\ sem.value \in Nat /\ sem.value > 0 /\ sem.waiters = <<>> /\ sem.woken = {}
      /\ SemBase(sem)
  BY DEF Locked, IndInv, Queueing, SemOK, SemBase
<1>2. s.value = sem.value - 1 /\ s.waiters = <<>> /\ s.woken = {} /\ SemBase(s)
  BY <1>1 DEF SemBase
<1>3. ToSet(<<>>) = {}
  BY DEF ToSet
<1>4. SemOK(s) /\ SemTasks(s) = {} /\ SemTasks(sem) = {}
  BY <1>1, <1>2, <1>3 DEF SemOK, SemTasks
<1>5. Cardinality({}) = 0
  BY FS_EmptySet
<1>6. Slots(s) = Slots(sem) - 1
  <2>1. Cardinality(s.woken) = 0 /\ Cardinality(sem.woken) = 0
    BY <1>1, <1>2, <1>5
  <2>. QED  BY <1>1, <1>2, <2>1 DEF Slots
<1>. QED  BY <1>4, <1>6

\* A new waiter joins the queue behind the others.
LEMMA QueueAppend ==
    ASSUME NEW q \in Seq(Tasks), IsInjective(q), NEW t \in Tasks, t \notin ToSet(q)
    PROVE  /\ Append(q, t) \in Seq(Tasks) /\ IsInjective(Append(q, t))
           /\ ToSet(Append(q, t)) = ToSet(q) \cup {t} /\ Append(q, t) # <<>>
<1>. DEFINE n == Len(q)
            r == Append(q, t)
<1>1. n \in Nat /\ DOMAIN q = 1 .. n
  BY LenProperties
<1>2. /\ r \in Seq(Tasks) /\ Len(r) = n + 1 /\ r # <<>>
      /\ \A i \in 1 .. n : r[i] = q[i]
      /\ r[n + 1] = t
  BY AppendProperties
<1>3. DOMAIN r = 1 .. n + 1
  BY <1>2, LenProperties
<1>. HIDE DEF n, r
<1>4. \A i \in 1 .. n + 1 : i \in 1 .. n \/ i = n + 1
  BY <1>1
<1>5. \A i \in 1 .. n : q[i] \in ToSet(q) /\ q[i] # t /\ i \in 1 .. n + 1
  BY <1>1 DEF ToSet
<1>6. IsInjective(r)
  BY <1>1, <1>2, <1>3, <1>4, <1>5 DEF IsInjective
<1>7. ToSet(r) \subseteq ToSet(q) \cup {t}
  BY <1>2, <1>3, <1>4, <1>5 DEF ToSet
<1>8. ToSet(q) \cup {t} \subseteq ToSet(r)
  <2>1. n + 1 \in 1 .. n + 1
    BY <1>1
  <2>2. t \in ToSet(r)
    BY <2>1, <1>2, <1>3 DEF ToSet
  <2>3. \A x \in ToSet(q) : \E i \in 1 .. n : x = q[i]
    BY <1>1 DEF ToSet
  <2>4. ASSUME NEW x \in ToSet(q)
        PROVE  x \in ToSet(r)
    <3>1. PICK i \in 1 .. n : x = q[i]
      BY <2>3
    <3>2. i \in DOMAIN r /\ r[i] = x
      BY <3>1, <1>2, <1>3, <1>5
    <3>. QED  BY <3>2 DEF ToSet
  <2>. QED  BY <2>2, <2>4
<1>. QED  BY <1>2, <1>6, <1>7, <1>8 DEF r

\* A call that finds every slot taken: it joins the queue.
LEMMA QueueInd ==
    ASSUME IndInv, NEW t \in Tasks, Queue(t)
    PROVE  IndInv'
<1>1. /\ pc[t] = "idle" /\ Locked(sem)
      /\ sem' = [sem EXCEPT !.waiters = Append(sem.waiters, t)]
      /\ pc' = [pc EXCEPT ![t] = "queued"]
      /\ UNCHANGED <<attempt, outcome, inFlight, breaker, probe, up>>
  BY DEF Queue
<1>2. /\ SemBase(sem) /\ t \notin sem.woken /\ t \notin ToSet(sem.waiters)
      /\ (sem.value > 0 /\ sem.waiters # <<>> => sem.woken # {})
  BY <1>1 DEF IndInv, Queueing, SemOK, SemTasks
<1>3. /\ sem'.value = sem.value /\ sem'.woken = sem.woken
      /\ sem'.waiters = Append(sem.waiters, t)
  BY <1>1, <1>2 DEF SemBase
<1>4. /\ Append(sem.waiters, t) \in Seq(Tasks) /\ IsInjective(Append(sem.waiters, t))
      /\ ToSet(Append(sem.waiters, t)) = ToSet(sem.waiters) \cup {t}
  BY <1>2, QueueAppend DEF SemBase
<1>5. SemBase(sem')
  BY <1>1, <1>2, <1>3, <1>4 DEF SemBase
<1>6. sem.value > 0 => sem.woken # {}
  BY <1>1, <1>2 DEF Locked, SemBase
<1>7. SemOK(sem') /\ SemTasks(sem') = SemTasks(sem) \cup {t} /\ Slots(sem') = Slots(sem)
  BY <1>3, <1>4, <1>5, <1>6 DEF SemOK, SemTasks, Slots
<1>8. Types'
  BY <1>1 DEF IndInv, Types, PC
<1>9. Cardinality(Holders') = Cardinality(Holders)
  BY <1>1, HoldersMove DEF IndInv, PC, Holders
<1>10. \A u \in Tasks : pc'[u] = "queued" <=> u \in SemTasks(sem')
  BY <1>1, <1>7 DEF IndInv, Types, Queueing
<1>11. Queueing'
  BY <1>1, <1>7, <1>9, <1>10 DEF IndInv, Queueing, SemOK, SemBase, SemTasks, Slots
<1>12. BreakerOK'
  BY <1>1 DEF IndInv, BreakerOK
<1>. QED  BY <1>8, <1>11, <1>12 DEF IndInv

\* A queued call is cancelled.
LEMMA CancelQueuedInd ==
    ASSUME IndInv, NEW t \in Tasks, CancelQueued(t)
    PROVE  IndInv'
<1>1. /\ pc[t] = "queued" /\ sem' = Abandon(sem, t)
      /\ pc' = [pc EXCEPT ![t] = "idle"]
      /\ outcome' = [outcome EXCEPT ![t] = "cancelled"]
      /\ UNCHANGED <<attempt, inFlight, breaker, probe, up>>
  BY DEF CancelQueued
<1>2. /\ SemOK(sem') /\ SemTasks(sem') = SemTasks(sem) \ {t} /\ Slots(sem') = Slots(sem)
  BY <1>1, AbandonFacts DEF IndInv, Queueing
<1>3. Types'
  BY <1>1 DEF IndInv, Types, PC, Outcome
<1>4. Cardinality(Holders') = Cardinality(Holders)
  BY <1>1, HoldersMove DEF IndInv, PC, Holders
<1>5. \A u \in Tasks : pc'[u] = "queued" <=> u \in SemTasks(sem')
  BY <1>1, <1>2 DEF IndInv, Types, Queueing
<1>6. Queueing'
  BY <1>1, <1>2, <1>4, <1>5 DEF IndInv, Queueing, SemOK, SemBase, SemTasks, Slots
<1>7. BreakerOK'
  BY <1>1 DEF IndInv, BreakerOK
<1>. QED  BY <1>3, <1>6, <1>7 DEF IndInv

\* Between two attempts a call keeps its slot.
LEMMA RetryInd ==
    ASSUME IndInv, NEW t \in Tasks, Backoff(t) \/ Retry(t)
    PROVE  IndInv'
<1>1. /\ t \in Holders /\ UNCHANGED <<outcome, sem, inFlight, breaker, probe, up>>
      /\ pc[t] # "queued"
  BY DEF Backoff, Retry, Holders
<1>2. PICK v \in {"calling", "backoff"} : pc' = [pc EXCEPT ![t] = v]
  BY DEF Backoff, Retry
<1>3. Types'
  BY BoundsAssumption DEF IndInv, Types, PC, Backoff, Retry
<1>4. Cardinality(Holders') = Cardinality(Holders)
  BY <1>1, <1>2, HoldersMove DEF IndInv, PC
<1>5. \A u \in Tasks : pc'[u] = "queued" <=> pc[u] = "queued"
  BY <1>1, <1>2 DEF IndInv, Types
<1>6. Queueing'
  BY <1>1, <1>4, <1>5 DEF IndInv, Queueing, SemOK, SemBase, SemTasks, Slots
<1>7. BreakerOK'
  BY <1>1 DEF IndInv, BreakerOK
<1>. QED  BY <1>3, <1>6, <1>7 DEF IndInv

\* Every step preserves the inductive invariant.
LEMMA NextIndInv == IndInv /\ [Next]_vars => IndInv'
<1>. SUFFICES ASSUME IndInv, [Next]_vars PROVE IndInv'
  OBVIOUS
<1>1. ASSUME NEW t \in Tasks, Post(t) PROVE IndInv'
  <2>1. pc[t] = "idle" /\ ~Locked(sem) /\ Enter(t, [sem EXCEPT !.value = @ - 1]) /\ up' = up
    BY <1>1 DEF Post
  <2>2. PICK s : s = [sem EXCEPT !.value = @ - 1]
    OBVIOUS
  <2>3. /\ SemOK(s) /\ SemTasks(s) = SemTasks(sem) \ {t} /\ Slots(s) = Slots(sem) - 1
    BY <2>1, <2>2, FastPath
  <2>. QED  BY <2>1, <2>2, <2>3, EnterInd DEF Holders
<1>2. ASSUME NEW t \in Tasks, Dequeue(t) PROVE IndInv'
  <2>1. t \in sem.woken /\ Enter(t, Resume(sem, t)) /\ up' = up
    BY <1>2 DEF Dequeue
  <2>2. /\ SemOK(Resume(sem, t)) /\ SemTasks(Resume(sem, t)) = SemTasks(sem) \ {t}
        /\ Slots(Resume(sem, t)) = Slots(sem) - 1
    BY <2>1, ResumeFacts DEF IndInv, Queueing
  <2>3. t \notin Holders
    BY <2>1 DEF IndInv, Queueing, SemTasks, Holders
  <2>. QED  BY <2>1, <2>2, <2>3, EnterInd
<1>3. ASSUME NEW t \in Tasks, Queue(t) PROVE IndInv'
  BY <1>3, QueueInd
<1>4. ASSUME NEW t \in Tasks, Succeed(t) \/ ClientError(t) \/ Fail(t) \/ CancelHeld(t)
      PROVE  IndInv'
  <2>1. t \in Holders
    BY <1>4 DEF Succeed, ClientError, Fail, CancelHeld, Holders
  <2>2. /\ breaker \in Breakers /\ Coherent(breaker)
        /\ RecordFailure(breaker) \in Breakers /\ Coherent(RecordFailure(breaker))
        /\ RecordSuccess(breaker) \in Breakers /\ Coherent(RecordSuccess(breaker))
    BY RecordFacts DEF IndInv, BreakerOK
  <2>3. CASE Succeed(t)
    BY <2>1, <2>2, <2>3, FinishInd DEF Succeed, Outcome
  <2>4. CASE ClientError(t)
    BY <2>1, <2>2, <2>4, FinishInd DEF ClientError, Outcome
  <2>5. CASE Fail(t)
    BY <2>1, <2>2, <2>5, FinishInd DEF Fail, Outcome
  <2>6. CASE CancelHeld(t)
    BY <2>1, <2>2, <2>6, FinishInd DEF CancelHeld, Outcome
  <2>. QED  BY <1>4, <2>3, <2>4, <2>5, <2>6
<1>5. ASSUME NEW t \in Tasks, Backoff(t) \/ Retry(t) PROVE IndInv'
  BY <1>5, RetryInd
<1>6. ASSUME NEW t \in Tasks, CancelQueued(t) PROVE IndInv'
  BY <1>6, CancelQueuedInd
<1>7. CASE WindowElapses
  <2>1. /\ breaker' = [breaker EXCEPT !.elapsed = TRUE]
        /\ UNCHANGED <<pc, attempt, outcome, sem, inFlight, probe, up>>
    BY <1>7 DEF WindowElapses
  <2>2. BreakerOK'
    BY <2>1 DEF IndInv, BreakerOK, Breakers, Coherent
  <2>3. Types' /\ Queueing'
    BY <2>1 DEF IndInv, Types, Queueing, SemOK, SemBase, SemTasks, Slots, Holders
  <2>. QED  BY <2>2, <2>3 DEF IndInv
<1>8. CASE BackendFlips
  BY <1>8 DEF BackendFlips, IndInv, Types, Queueing, SemOK, SemBase, SemTasks, Slots,
              Holders, BreakerOK, Coherent
<1>9. CASE UNCHANGED vars
  BY <1>9 DEF vars, IndInv, Types, Queueing, SemOK, SemBase, SemTasks, Slots,
              Holders, BreakerOK, Coherent
<1>. QED  BY <1>1, <1>2, <1>3, <1>4, <1>5, <1>6, <1>7, <1>8, <1>9 DEF Next

\* The inductive invariant holds throughout.
LEMMA AlwaysIndInv == Spec => []IndInv
BY InitIndInv, NextIndInv, PTL DEF Spec

\* Type correctness of the request path.
THEOREM TypeCorrect == Spec => []TypeOK
BY AlwaysIndInv, IndInvImplies, PTL

\* Backpressure: engine.in_flight counts the running calls and no slot of the
\* semaphore is ever lost or given twice, for any number of tasks.
THEOREM SlotsAccountedFor == Spec => []SlotAccounting
BY AlwaysIndInv, IndInvImplies, PTL

\* No wake-up of the semaphore is lost, whatever fails fast or is cancelled.
THEOREM WakeupsAreKept == Spec => []NoLostWakeup
BY AlwaysIndInv, IndInvImplies, PTL

\* The breaker's state, failure count and probe flag always agree.
THEOREM BreakerAgrees == Spec => []BreakerCoherent
BY AlwaysIndInv, IndInvImplies, PTL

\* CircuitBreaker.call lets nobody in while it is half-open, or open with its
\* window still running.
THEOREM BreakerFailsFast == Spec => FailFast
<1>. DEFINE Shut == breaker.state = "half_open" \/ (breaker.state = "open" /\ ~breaker.elapsed)
            Quiet == Shut => \A t \in Tasks : ~Admitted(t)
<1>1. ASSUME IndInv, [Next]_vars, Shut, NEW u \in Tasks, Admitted(u)
      PROVE  FALSE
  <2>1. pc[u] \notin {"calling", "backoff"} /\ pc'[u] = "calling"
    BY <1>1 DEF Admitted
  <2>2. ASSUME NEW t \in Tasks, NEW s, Enter(t, s) PROVE FALSE
    <3>. DEFINE m == MaybeHalfOpen(breaker)
    <3>1. Rejects(m)
      BY <1>1, AskFacts DEF IndInv, BreakerOK, Breakers, BreakerState
    <3>2. pc' = [pc EXCEPT ![t] = "idle"]
      BY <2>2, <3>1 DEF Enter
    <3>. QED  BY <2>1, <3>2, <1>1 DEF IndInv, Types
  <2>3. ~UNCHANGED pc
    BY <2>1
  <2>4. \A t \in Tasks : /\ ~Post(t) /\ ~Dequeue(t) /\ ~Queue(t)
                         /\ ~Succeed(t) /\ ~ClientError(t) /\ ~Fail(t) /\ ~CancelHeld(t)
                         /\ ~Backoff(t) /\ ~Retry(t) /\ ~CancelQueued(t)
    BY <2>1, <2>2, <1>1 DEF IndInv, Types, Post, Dequeue, Queue, Succeed, ClientError, Fail,
       CancelHeld, Backoff, Retry, CancelQueued, Finish
  <2>. QED  BY <1>1, <2>3, <2>4 DEF Next, WindowElapses, BackendFlips, vars
<1>2. IndInv /\ [Next]_vars => [Quiet]_vars
  BY <1>1
<1>3. Spec => [][Quiet]_vars
  BY <1>2, AlwaysIndInv, PTL DEF Spec
<1>. QED  BY <1>3 DEF FailFast

-----------------------------------------------------------------------------
(* The probe.                                                              *)

\* Only a cancelled probe leaves the breaker half-open with nothing in flight: a
\* call that ends takes it out of the half-open state, a call that is let in
\* half-open becomes the probe, and a cancellation in the queue changes neither
\* (CircuitBreaker.call).
THEOREM ProbeSurvives == Spec => ProbeLostOnlyByCancel
<1>. DEFINE Cut == \E t \in probe : t \notin probe' /\ outcome'[t] = "cancelled"
            Kept == ProbeInFlight => ProbeInFlight' \/ Cut
<1>1. ASSUME IndInv, ProbeInFlight, [Next]_vars
      PROVE  ProbeInFlight' \/ Cut
  <2>0. breaker \in Breakers /\ Coherent(breaker)
    BY <1>1 DEF IndInv, BreakerOK
  <2>1. ASSUME NEW t \in Tasks, NEW s, Enter(t, s)
        PROVE  ProbeInFlight'
    <3>. DEFINE m == MaybeHalfOpen(breaker)
    <3>1. m \in Breakers /\ (Rejects(m) => m = breaker)
      BY <2>0, AskFacts
    <3>2. IF Rejects(m)
            THEN breaker' = m /\ UNCHANGED probe
            ELSE /\ breaker' = Admit(m)
                 /\ probe' = IF m.state = "half_open" THEN probe \cup {t} ELSE probe
      BY <2>1 DEF Enter
    <3>. HIDE DEF m
    <3>3. Admit(m).state = m.state
      BY <3>1 DEF Admit, Breakers
    <3>. QED  BY <1>1, <3>1, <3>2, <3>3 DEF ProbeInFlight
  <2>2. RecordFailure(breaker).state # "half_open" /\ RecordSuccess(breaker).state # "half_open"
    BY <2>0 DEF RecordFailure, RecordSuccess, Breakers
  <2>3. ASSUME NEW t \in Tasks, Succeed(t) \/ ClientError(t) \/ Fail(t)
        PROVE  ProbeInFlight'
    BY <2>2, <2>3 DEF Succeed, ClientError, Fail, Finish, ProbeInFlight
  <2>4. ASSUME NEW t \in Tasks, Queue(t) \/ Backoff(t) \/ Retry(t) \/ CancelQueued(t)
        PROVE  ProbeInFlight'
    BY <1>1, <2>4 DEF Queue, Backoff, Retry, CancelQueued, ProbeInFlight
  <2>5. ASSUME NEW t \in Tasks, CancelHeld(t)
        PROVE  ProbeInFlight' \/ Cut
    <3>1. breaker' = breaker /\ probe' = probe \ {t} /\ outcome'[t] = "cancelled"
      BY <1>1, <2>5 DEF CancelHeld, Finish, IndInv, Types
    <3>. QED  BY <1>1, <3>1 DEF ProbeInFlight
  <2>6. CASE WindowElapses
    BY <2>0, <2>6, <1>1 DEF WindowElapses, ProbeInFlight, Breakers
  <2>7. CASE BackendFlips \/ UNCHANGED vars
    BY <2>7, <1>1 DEF BackendFlips, vars, ProbeInFlight
  <2>. QED  BY <1>1, <2>1, <2>3, <2>4, <2>5, <2>6, <2>7 DEF Next, Post, Dequeue
<1>2. IndInv /\ [Next]_vars => [Kept]_vars
  BY <1>1
<1>3. Spec => [][Kept]_vars
  BY <1>2, AlwaysIndInv, PTL DEF Spec
<1>. QED  BY <1>3, PTL DEF ProbeLostOnlyByCancel

-----------------------------------------------------------------------------
(* The refinement of AdmissionPool.                                        *)

\* The queue without its first k waiters, and the waiters that left it.
Drop(q, k) == SubSeq(q, k + 1, Len(q))
Heads(q, k) == {q[i] : i \in 1 .. k}

\* r is a semaphore whose woken tasks were w and whose queue was q before the
\* first k in the queue were woken.
HandsOver(w, q, r, k) ==
    /\ k \in 0 .. Len(q)
    /\ r.waiters = Drop(q, k)
    /\ r.woken = w \cup Heads(q, k)

\* What is left of a queue, element by element.
LEMMA DropFacts ==
    ASSUME NEW q \in Seq(Tasks), NEW k \in 0 .. Len(q)
    PROVE  /\ Drop(q, k) \in Seq(Tasks)
           /\ Len(Drop(q, k)) = Len(q) - k
           /\ \A i \in 1 .. Len(q) - k : Drop(q, k)[i] = q[k + i]
<1>. DEFINE n == Len(q)
<1>1. n \in Nat /\ k \in 0 .. n /\ \A i \in 1 .. n : q[i] \in Tasks
  BY LenProperties, ElementOfSeq
<1>. HIDE DEF n
<1>2. \A i \in k + 1 .. n : q[i] \in Tasks
  BY <1>1
<1>3. /\ SubSeq(q, k + 1, n) \in Seq(Tasks)
      /\ Len(SubSeq(q, k + 1, n)) = IF k + 1 <= n THEN n - (k + 1) + 1 ELSE 0
      /\ \A i \in 1 .. n - (k + 1) + 1 : SubSeq(q, k + 1, n)[i] = q[(k + 1) + i - 1]
  BY <1>1, <1>2, SubSeqProperties
<1>4. /\ n - (k + 1) + 1 = n - k
      /\ (IF k + 1 <= n THEN n - (k + 1) + 1 ELSE 0) = n - k
      /\ \A i \in 1 .. n - k : (k + 1) + i - 1 = k + i
  BY <1>1
<1>5. Drop(q, k) = SubSeq(q, k + 1, n)
  BY DEF Drop, n
<1>. QED  BY <1>3, <1>4, <1>5 DEF n

\* Waking j and then k waiters is waking j + k of them.
LEMMA HandOverTwice ==
    ASSUME NEW q \in Seq(Tasks), NEW w, NEW r, NEW u, NEW j, NEW k,
           HandsOver(w, q, r, j), HandsOver(r.woken, r.waiters, u, k)
    PROVE  HandsOver(w, q, u, j + k)
<1>. DEFINE n == Len(q)
            p == Drop(q, j)
<1>1. n \in Nat /\ j \in 0 .. n
  BY LenProperties DEF HandsOver
<1>2. /\ p \in Seq(Tasks) /\ Len(p) = n - j
      /\ \A i \in 1 .. n - j : p[i] = q[j + i]
  BY DropFacts DEF HandsOver
<1>3. r.waiters = p /\ r.woken = w \cup Heads(q, j)
  BY DEF HandsOver
<1>4. k \in 0 .. n - j /\ u.waiters = Drop(p, k) /\ u.woken = r.woken \cup Heads(p, k)
  BY <1>2, <1>3 DEF HandsOver
<1>. HIDE DEF p
<1>5. /\ Drop(p, k) \in Seq(Tasks) /\ Len(Drop(p, k)) = (n - j) - k
      /\ \A i \in 1 .. (n - j) - k : Drop(p, k)[i] = p[k + i]
  <2>1. k \in 0 .. Len(p)
    BY <1>2, <1>4
  <2>. QED  BY <2>1, <1>2, DropFacts
<1>6. j + k \in 0 .. n
  BY <1>1, <1>4
<1>7. /\ Drop(q, j + k) \in Seq(Tasks) /\ Len(Drop(q, j + k)) = n - (j + k)
      /\ \A i \in 1 .. n - (j + k) : Drop(q, j + k)[i] = q[(j + k) + i]
  BY <1>6, DropFacts
<1>. HIDE DEF n
<1>8. Drop(p, k) = Drop(q, j + k)
  <2>1. Len(Drop(p, k)) = Len(Drop(q, j + k)) /\ Len(Drop(p, k)) = n - (j + k)
    BY <1>1, <1>4, <1>5, <1>7
  <2>2. ASSUME NEW i \in 1 .. n - (j + k)
        PROVE  Drop(p, k)[i] = Drop(q, j + k)[i]
    <3>1. i \in 1 .. (n - j) - k /\ k + i \in 1 .. n - j /\ j + (k + i) = (j + k) + i
      BY <1>1, <1>4
    <3>. QED  BY <3>1, <1>2, <1>5, <1>7
  <2>. QED  BY <2>1, <2>2, <1>5, <1>7, SeqEqual
<1>9. Heads(q, j) \cup Heads(p, k) = Heads(q, j + k)
  <2>1. \A i \in 1 .. j : i \in 1 .. j + k
    BY <1>1, <1>4
  <2>2. \A i \in 1 .. k : i \in 1 .. n - j /\ j + i \in 1 .. j + k
    BY <1>1, <1>4
  <2>3. \A i \in 1 .. j + k : i \in 1 .. j \/ (i - j \in 1 .. k /\ j + (i - j) = i)
    BY <1>1, <1>4
  <2>4. \A i \in 1 .. k : p[i] = q[j + i]
    BY <2>2, <1>2
  <2>5. ASSUME NEW i \in 1 .. j + k
        PROVE  q[i] \in Heads(q, j) \cup Heads(p, k)
    <3>1. CASE i \in 1 .. j
      BY <3>1 DEF Heads
    <3>2. CASE i - j \in 1 .. k /\ j + (i - j) = i
      <4>1. p[i - j] = q[i]
        BY <3>2, <2>4
      <4>. QED  BY <4>1, <3>2 DEF Heads
    <3>. QED  BY <3>1, <3>2, <2>3
  <2>6. Heads(q, j + k) \subseteq Heads(q, j) \cup Heads(p, k)
    BY <2>5 DEF Heads
  <2>7. Heads(q, j) \subseteq Heads(q, j + k)
    BY <2>1 DEF Heads
  <2>8. Heads(p, k) \subseteq Heads(q, j + k)
    BY <2>2, <2>4 DEF Heads
  <2>. QED  BY <2>6, <2>7, <2>8
<1>. QED  BY <1>3, <1>4, <1>6, <1>8, <1>9 DEF HandsOver, n

\* A semaphore whose queue did not move.
LEMMA HandOverNone ==
    ASSUME NEW q \in Seq(Tasks), NEW w, NEW r, r.waiters = q, r.woken = w
    PROVE  HandsOver(w, q, r, 0)
<1>1. 0 \in 0 .. Len(q) /\ 0 + 1 = 1
  BY LenProperties
<1>2. Drop(q, 0) = q
  BY <1>1, SubSeqFull DEF Drop
<1>3. Heads(q, 0) = {}
  BY DEF Heads
<1>. QED  BY <1>1, <1>2, <1>3 DEF HandsOver

\* WakeNext wakes the head of the queue, if there is one.
LEMMA WakeNextHandsOver ==
    ASSUME NEW s, SemBase(s)
    PROVE  \E k \in 0 .. 1 : HandsOver(s.woken, s.waiters, WakeNext(s), k)
<1>0. s.waiters \in Seq(Tasks) /\ Len(s.waiters) \in Nat
  BY LenProperties DEF SemBase
<1>1. CASE s.waiters = <<>>
  <2>1. WakeNext(s) = s /\ 0 \in 0 .. 1
    BY <1>1 DEF WakeNext
  <2>. QED  BY <1>0, <2>1, HandOverNone
<1>2. CASE s.waiters # <<>>
  <2>1. Len(s.waiters) > 0 /\ Head(s.waiters) = s.waiters[1]
        /\ Tail(s.waiters) = SubSeq(s.waiters, 2, Len(s.waiters))
    BY <1>0, <1>2, EmptySeq, HeadTailProperties, TailIsSubSeq
  <2>2. 1 \in 0 .. Len(s.waiters) /\ 1 + 1 = 2 /\ 1 \in 0 .. 1
    BY <1>0, <2>1
  <2>3. Heads(s.waiters, 1) = {s.waiters[1]} /\ Drop(s.waiters, 1) = Tail(s.waiters)
    BY <2>1, <2>2 DEF Heads, Drop
  <2>4. /\ WakeNext(s).waiters = Tail(s.waiters)
        /\ WakeNext(s).woken = s.woken \cup {Head(s.waiters)}
    BY <1>2 DEF WakeNext
  <2>5. HandsOver(s.woken, s.waiters, WakeNext(s), 1)
    BY <2>1, <2>2, <2>3, <2>4 DEF HandsOver
  <2>. QED  BY <2>2, <2>5
<1>. QED  BY <1>1, <1>2

\* A released slot wakes at most one waiter.
LEMMA ReleaseHandsOver ==
    ASSUME NEW s, SemBase(s)
    PROVE  \E k \in 0 .. 1 : HandsOver(s.woken, s.waiters, Release(s), k)
<1>. DEFINE r == [s EXCEPT !.value = @ + 1]
<1>1. SemBase(r) /\ r.waiters = s.waiters /\ r.woken = s.woken
  BY DEF SemBase
<1>2. Release(s) = WakeNext(r)
  BY DEF Release
<1>. HIDE DEF r
<1>. QED  BY <1>1, <1>2, WakeNextHandsOver

\* A woken task that runs wakes at most one other.
LEMMA ResumeHandsOver ==
    ASSUME NEW s, SemOK(s), NEW t \in s.woken
    PROVE  \E k \in 0 .. 1 : HandsOver(s.woken \ {t}, s.waiters, Resume(s, t), k)
<1>. DEFINE r == [s EXCEPT !.woken = @ \ {t}]
<1>1. SemBase(r) /\ r.waiters = s.waiters /\ r.woken = s.woken \ {t}
  BY DEF SemOK, SemBase
<1>2. Resume(s, t) = IF r.value > 0 THEN WakeNext(r) ELSE r
  BY DEF Resume
<1>. HIDE DEF r
<1>3. CASE r.value > 0
  BY <1>1, <1>2, <1>3, WakeNextHandsOver
<1>4. CASE ~(r.value > 0)
  <2>1. Resume(s, t) = r /\ s.waiters \in Seq(Tasks) /\ 0 \in 0 .. 1
    BY <1>2, <1>4 DEF SemOK, SemBase
  <2>. QED  BY <1>1, <2>1, HandOverNone
<1>. QED  BY <1>3, <1>4

\* Those that hold a slot or have been handed one are never too many.
InsideOK ==
    /\ Cardinality(Holders \cup sem.woken) <= MaxConcurrent
    /\ sem.value > 0 => Cardinality(Holders \cup sem.woken) < MaxConcurrent
    /\ sem.value = 0 => Holders \cup sem.woken # {}
    /\ Holders \cap sem.woken = {}

\* The pool's bound follows from the count of the slots.
LEMMA InsideFits == IndInv => InsideOK
<1>. SUFFICES ASSUME IndInv PROVE InsideOK
  OBVIOUS
<1>1. Holders \in SUBSET Tasks /\ sem.woken \in SUBSET Tasks /\ sem.value \in Nat
  BY DEF Holders, IndInv, Queueing, SemOK, SemBase
<1>2. /\ IsFiniteSet(Holders) /\ Cardinality(Holders) \in Nat
      /\ IsFiniteSet(sem.woken) /\ Cardinality(sem.woken) \in Nat
  BY <1>1, TaskSetsFinite
<1>3. Holders \cap sem.woken = {}
  BY DEF IndInv, Queueing, SemTasks, Holders
<1>4. Cardinality(Holders \cup sem.woken) = Cardinality(Holders) + Cardinality(sem.woken)
  <2>1. Cardinality(Holders \cap sem.woken) = 0
    BY <1>3, FS_EmptySet
  <2>2. Cardinality(Holders \cup sem.woken) =
           Cardinality(Holders) + Cardinality(sem.woken) - Cardinality(Holders \cap sem.woken)
    BY <1>2, FS_Union
  <2>. QED  BY <2>1, <2>2, <1>2
<1>5. sem.value + Cardinality(sem.woken) + Cardinality(Holders) = MaxConcurrent
  BY DEF IndInv, Queueing, Slots
<1>6. Holders \cup sem.woken = {} => Cardinality(Holders \cup sem.woken) = 0
  BY FS_EmptySet
<1>. HIDE DEF Holders
<1>. QED  BY <1>1, <1>2, <1>3, <1>4, <1>5, <1>6, BoundsAssumption DEF InsideOK

\* The same in the next state.
LEMMA InsideFitsNext == IndInv' => InsideOK'
BY InsideFits, PTL

\* The pool counts as the request path does.
LEMMA PoolCounts ==
    ASSUME NEW S
    PROVE  Pool!Cardinality(S) = Cardinality(S)
BY DEF Pool!Cardinality, Cardinality

\* A step in which at most one caller leaves and the first k in the queue get
\* a slot is a step of the pool.
LEMMA PoolAdvances ==
    ASSUME IndInv', NEW leaving \in SUBSET (Holders \cup sem.woken), Cardinality(leaving) <= 1,
           NEW k \in 0 .. 2, k <= Len(sem.waiters),
           sem'.waiters = Drop(sem.waiters, k),
           Holders' \cup sem'.woken = ((Holders \cup sem.woken) \ leaving) \cup Heads(sem.waiters, k)
    PROVE  Pool!PoolNext
<1>1. Cardinality(Holders' \cup sem'.woken) <= MaxConcurrent
  BY InsideFitsNext DEF InsideOK
<1>2. Pool!Advance(leaving, k)
  BY <1>1, PoolCounts DEF Pool!Advance, Drop, Heads
<1>. QED  BY <1>2 DEF Pool!PoolNext

\* Asking the breaker with a slot in hand, after j waiters were woken.
LEMMA EnterAdvances ==
    ASSUME IndInv, IndInv', NEW t \in sem.woken, NEW s, SemBase(s), NEW j \in 0 .. 1,
           HandsOver(sem.woken \ {t}, sem.waiters, s, j), Enter(t, s)
    PROVE  Pool!PoolNext
<1>. DEFINE m == MaybeHalfOpen(breaker)
            q == sem.waiters
<1>1. t \in Tasks /\ q \in Seq(Tasks) /\ Len(q) \in Nat /\ pc[t] = "queued" /\ t \notin Holders
  BY LenProperties DEF IndInv, Queueing, SemOK, SemBase, SemTasks, Holders
<1>2. CASE Rejects(m)
  <2>1. sem' = Release(s) /\ pc' = [pc EXCEPT ![t] = "idle"]
    BY <1>2 DEF Enter
  <2>2. Holders' = Holders
    BY <1>1, <2>1 DEF Holders, IndInv, Types
  <2>3. PICK k \in 0 .. 1 : HandsOver(s.woken, s.waiters, sem', k)
    BY <2>1, ReleaseHandsOver
  <2>4. HandsOver(sem.woken \ {t}, q, sem', j + k)
    BY <1>1, <2>3, HandOverTwice
  <2>5. j + k \in 0 .. 2 /\ j + k <= Len(q)
    BY <1>1, <2>4 DEF HandsOver
  <2>6. sem'.waiters = Drop(q, j + k) /\ sem'.woken = (sem.woken \ {t}) \cup Heads(q, j + k)
    BY <2>4 DEF HandsOver
  <2>7. Holders' \cup sem'.woken = ((Holders \cup sem.woken) \ {t}) \cup Heads(q, j + k)
    BY <1>1, <2>2, <2>6
  <2>8. {t} \in SUBSET (Holders \cup sem.woken) /\ Cardinality({t}) <= 1
    <3>1. Cardinality({t}) = 1
      BY FS_Singleton
    <3>. QED  BY <3>1
  <2>. QED  BY <2>5, <2>6, <2>7, <2>8, PoolAdvances
<1>3. CASE ~Rejects(m)
  <2>1. sem' = s /\ pc' = [pc EXCEPT ![t] = "calling"]
    BY <1>3 DEF Enter
  <2>2. Holders' = Holders \cup {t}
    BY <1>1, <2>1 DEF Holders, IndInv, Types
  <2>3. /\ sem'.waiters = Drop(q, j) /\ sem'.woken = (sem.woken \ {t}) \cup Heads(q, j)
        /\ j \in 0 .. 2 /\ j <= Len(q)
    BY <2>1, <1>1 DEF HandsOver
  <2>4. Holders' \cup sem'.woken = ((Holders \cup sem.woken) \ {}) \cup Heads(q, j)
    BY <2>2, <2>3
  <2>5. {} \in SUBSET (Holders \cup sem.woken) /\ Cardinality({}) <= 1
    BY FS_EmptySet
  <2>. QED  BY <2>3, <2>4, <2>5, PoolAdvances
<1>. QED  BY <1>2, <1>3

\* A call that ends makes room for one waiter.
LEMMA FinishAdvances ==
    ASSUME IndInv, IndInv', NEW t \in Holders, NEW b, NEW result, Finish(t, b, result)
    PROVE  Pool!PoolNext
<1>1. sem' = Release(sem) /\ pc' = [pc EXCEPT ![t] = "idle"]
  BY DEF Finish
<1>2. SemBase(sem) /\ t \in Tasks
  BY DEF IndInv, Queueing, SemOK, Holders
<1>3. PICK k \in 0 .. 1 : HandsOver(sem.woken, sem.waiters, sem', k)
  BY <1>1, <1>2, ReleaseHandsOver
<1>4. Holders' = Holders \ {t}
  BY <1>1, <1>2 DEF Holders, IndInv, Types
<1>5. t \notin sem.woken
  BY InsideFits DEF InsideOK
<1>6. /\ sem'.waiters = Drop(sem.waiters, k)
      /\ Holders' \cup sem'.woken = ((Holders \cup sem.woken) \ {t}) \cup Heads(sem.waiters, k)
  BY <1>3, <1>4, <1>5 DEF HandsOver
<1>7. k \in 0 .. 2 /\ k <= Len(sem.waiters)
  BY <1>2, <1>3, LenProperties DEF HandsOver, SemBase
<1>8. {t} \in SUBSET (Holders \cup sem.woken) /\ Cardinality({t}) <= 1
  <2>1. Cardinality({t}) = 1
    BY FS_Singleton
  <2>. QED  BY <2>1
<1>. QED  BY <1>6, <1>7, <1>8, PoolAdvances

\* A call that finds a slot free walks in, or is turned away by the breaker
\* and leaves no trace in the pool.
LEMMA PostJoins ==
    ASSUME IndInv, NEW t \in Tasks, Post(t)
    PROVE  Pool!PoolNext \/ UNCHANGED <<Holders \cup sem.woken, sem.waiters>>
<1>. DEFINE m == MaybeHalfOpen(breaker)
            s == [sem EXCEPT !.value = @ - 1]
<1>1. /\ pc[t] = "idle" /\ sem.value \in Nat /\ sem.value > 0
      /\ sem.waiters = <<>> /\ sem.woken = {}
      /\ SemBase(sem)
  BY DEF Post, Locked, IndInv, Queueing, SemOK, SemBase
<1>2. s.waiters = <<>> /\ s.woken = {} /\ SemBase(s)
  BY <1>1 DEF SemBase
<1>3. Enter(t, s)
  BY DEF Post
<1>. HIDE DEF s
<1>4. CASE Rejects(m)
  <2>1. sem' = Release(s) /\ pc' = [pc EXCEPT ![t] = "idle"]
    BY <1>3, <1>4 DEF Enter
  <2>2. sem'.waiters = <<>> /\ sem'.woken = {}
    BY <1>2, <2>1 DEF Release, WakeNext, SemBase
  <2>3. Holders' = Holders
    BY <1>1, <2>1 DEF Holders, IndInv, Types
  <2>. QED  BY <1>1, <2>2, <2>3
<1>5. CASE ~Rejects(m)
  <2>1. sem' = s /\ pc' = [pc EXCEPT ![t] = "calling"]
    BY <1>3, <1>5 DEF Enter
  <2>2. Holders' = Holders \cup {t} /\ t \notin Holders
    BY <1>1, <2>1 DEF Holders, IndInv, Types
  <2>3. Cardinality(Holders \cup sem.woken) < MaxConcurrent
    BY <1>1, InsideFits DEF InsideOK
  <2>4. Pool!Join(t)
    BY <1>1, <1>2, <2>1, <2>2, <2>3, PoolCounts DEF Pool!Join
  <2>. QED  BY <2>4 DEF Pool!PoolNext
<1>. QED  BY <1>4, <1>5

\* A call that finds every slot taken waits, behind the others.
LEMMA QueueWaits ==
    ASSUME IndInv, NEW t \in Tasks, Queue(t)
    PROVE  Pool!PoolNext
<1>1. /\ pc[t] = "idle" /\ Locked(sem)
      /\ sem' = [sem EXCEPT !.waiters = Append(sem.waiters, t)]
      /\ pc' = [pc EXCEPT ![t] = "queued"]
  BY DEF Queue
<1>2. SemBase(sem) /\ t \notin sem.woken /\ t \notin ToSet(sem.waiters) /\ t \notin Holders
  BY <1>1 DEF IndInv, Queueing, SemOK, SemTasks, Holders
<1>3. sem'.woken = sem.woken /\ sem'.waiters = Append(sem.waiters, t)
  BY <1>1, <1>2 DEF SemBase
<1>4. Holders' = Holders
  BY <1>1 DEF Holders, IndInv, Types
<1>5. Holders \cup sem.woken # {} \/ sem.waiters # <<>>
  BY <1>1, InsideFits DEF Locked, InsideOK
<1>6. \A i \in DOMAIN sem.waiters : sem.waiters[i] # t
  BY <1>2 DEF ToSet
<1>7. Pool!Wait(t)
  BY <1>2, <1>3, <1>4, <1>5, <1>6 DEF Pool!Wait
<1>. QED  BY <1>7 DEF Pool!PoolNext

\* A queued call that is cancelled leaves the pool if it had been handed a
\* slot, which then goes to the next in the queue, and otherwise the queue.
LEMMA CancelQueuedLeaves ==
    ASSUME IndInv, IndInv', NEW t \in Tasks, CancelQueued(t)
    PROVE  Pool!PoolNext
<1>1. pc[t] = "queued" /\ sem' = Abandon(sem, t) /\ pc' = [pc EXCEPT ![t] = "idle"]
  BY DEF CancelQueued
<1>2. SemBase(sem) /\ t \in SemTasks(sem) /\ t \notin Holders /\ Holders' = Holders
  BY <1>1 DEF IndInv, Queueing, SemOK, Holders, Types
<1>3. CASE t \in sem.woken
  <2>. DEFINE r == [sem EXCEPT !.woken = @ \ {t}]
  <2>1. SemBase(r) /\ r.waiters = sem.waiters /\ r.woken = sem.woken \ {t}
    BY <1>2 DEF SemBase
  <2>2. sem' = Release(r)
    BY <1>1, <1>3 DEF Abandon
  <2>. HIDE DEF r
  <2>3. PICK k \in 0 .. 1 : HandsOver(r.woken, r.waiters, sem', k)
    BY <2>1, <2>2, ReleaseHandsOver
  <2>4. k \in 0 .. 2 /\ k <= Len(sem.waiters)
    BY <1>2, <2>1, <2>3, LenProperties DEF HandsOver, SemBase
  <2>5. /\ sem'.waiters = Drop(sem.waiters, k)
        /\ Holders' \cup sem'.woken = ((Holders \cup sem.woken) \ {t}) \cup Heads(sem.waiters, k)
    BY <1>2, <2>1, <2>3 DEF HandsOver
  <2>6. {t} \in SUBSET (Holders \cup sem.woken) /\ Cardinality({t}) <= 1
    BY <1>3, FS_Singleton
  <2>. QED  BY <2>4, <2>5, <2>6, PoolAdvances
<1>4. CASE t \notin sem.woken
  <2>. DEFINE i == CHOOSE j \in DOMAIN sem.waiters : sem.waiters[j] = t
  <2>1. i \in DOMAIN sem.waiters
    BY <1>2, <1>4 DEF SemTasks, ToSet
  <2>2. sem' = [sem EXCEPT !.waiters = RemoveAt(sem.waiters, i)]
    BY <1>1, <1>4 DEF Abandon
  <2>. HIDE DEF i
  <2>3. sem'.waiters = RemoveAt(sem.waiters, i) /\ sem'.woken = sem.woken
    BY <1>2, <2>2 DEF SemBase
  <2>4. Pool!GiveUp(i)
    BY <1>2, <2>3 DEF Pool!GiveUp, RemoveAt
  <2>. QED  BY <2>1, <2>4 DEF Pool!PoolNext
<1>. QED  BY <1>3, <1>4

\* ModelEngine._post implements the first-come, first-served pool: every step
\* of the request path is a step of AdmissionPool or leaves it as it is, for
\* any tasks, cancellations, slots, retries and threshold.
THEOREM PostImplementsPool == Spec => FirstComeFirstServed
<1>1. Init => Pool!PoolInit
  BY DEF Init, Pool!PoolInit, Holders
<1>2. ASSUME IndInv, IndInv', [Next]_vars
      PROVE  [Pool!PoolNext]_(Pool!poolVars)
  <2>. DEFINE Stays == UNCHANGED <<Holders \cup sem.woken, sem.waiters>>
  <2>1. SUFFICES Pool!PoolNext \/ Stays
    BY DEF Pool!poolVars
  <2>2. ASSUME NEW t \in Tasks, Post(t) PROVE Pool!PoolNext \/ Stays
    BY <1>2, <2>2, PostJoins
  <2>3. ASSUME NEW t \in Tasks, Queue(t) PROVE Pool!PoolNext
    BY <1>2, <2>3, QueueWaits
  <2>4. ASSUME NEW t \in Tasks, Dequeue(t) PROVE Pool!PoolNext
    <3>1. t \in sem.woken /\ Enter(t, Resume(sem, t)) /\ SemOK(sem)
      BY <1>2, <2>4 DEF Dequeue, IndInv, Queueing
    <3>2. SemBase(Resume(sem, t))
      BY <3>1, ResumeFacts DEF SemOK
    <3>3. PICK j \in 0 .. 1 : HandsOver(sem.woken \ {t}, sem.waiters, Resume(sem, t), j)
      BY <3>1, ResumeHandsOver
    <3>. QED  BY <1>2, <3>1, <3>2, <3>3, EnterAdvances
  <2>5. ASSUME NEW t \in Tasks, Succeed(t) \/ ClientError(t) \/ Fail(t) \/ CancelHeld(t)
        PROVE  Pool!PoolNext
    <3>1. t \in Holders /\ \E b, result : Finish(t, b, result)
      BY <2>5 DEF Succeed, ClientError, Fail, CancelHeld, Holders
    <3>. QED  BY <1>2, <3>1, FinishAdvances
  <2>6. ASSUME NEW t \in Tasks, Backoff(t) \/ Retry(t) PROVE Stays
    BY <1>2, <2>6 DEF Backoff, Retry, Holders, IndInv, Types
  <2>7. ASSUME NEW t \in Tasks, CancelQueued(t) PROVE Pool!PoolNext
    BY <1>2, <2>7, CancelQueuedLeaves
  <2>8. CASE WindowElapses \/ BackendFlips \/ UNCHANGED vars
    BY <2>8 DEF WindowElapses, BackendFlips, vars, Holders
  <2>. QED  BY <1>2, <2>2, <2>3, <2>4, <2>5, <2>6, <2>7, <2>8 DEF Next
<1>. QED  BY <1>1, <1>2, AlwaysIndInv, PTL DEF Spec, FirstComeFirstServed, Pool!PoolSpec
=============================================================================
