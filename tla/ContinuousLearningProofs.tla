---------------------- MODULE ContinuousLearningProofs ----------------------
(***************************************************************************)
(* Theorems about ContinuousLearning, for any messages, cycles and         *)
(* threshold: what the run learning_cycles checks on a small instance.     *)
(*                                                                         *)
(* The proof has three layers, none with an assumption on the traffic.     *)
(* CycleInv says what a cycle may rely on between two awaits because it    *)
(* holds the lock.  RowInv adds what a batch has left out, and SeedInv     *)
(* what the counter knows of the rows.                                     *)
(***************************************************************************)
EXTENDS ContinuousLearning, FiniteSetTheorems, WellFoundedInduction, TLAPS

Rows == Cardinality(Msgs)
CycleStates == [pc : CyclePC, mark : 0 .. Rows, batch : SUBSET Msgs]

\* A cycle that is not inside the learner's lock.
Outside == {"idle", "queued"}
Fetched == {"curate", "train", "load", "score", "discard", "advance"}

\* What a cycle y has in hand, for timestamps cr, rows co and watermark w: no
\* other cycle has moved the watermark since y read it.
CycleOK(y, cr, co, w) ==
    /\ y.pc \in Fetched \cup {"fetch"} => y.mark = w
    /\ y.pc \in Fetched => \A m \in y.batch : m \in co /\ cr[m] > w
    /\ y.pc \in Fetched \ {"curate"} => y.batch # {}

\* The batches of the deployed adapters whose watermark is still to be written.
Unmarked(cy) == UNION {cy[k].batch : k \in {j \in Cycles : cy[j].pc = "advance"}}

\* A row that went into a deployed adapter is below the watermark, unless a
\* fault or a crash fell in between or is still possible.
TrainedOK(n, m, cr, co, w, un, to) ==
    /\ n > 0 => m \in co /\ (cr[m] <= w \/ m \in to \/ m \in un)
    /\ n > 1 => m \in to

BaseTypes ==
    /\ created \in [Msgs -> 0 .. Rows]
    /\ log \in [Msgs -> LogPC]
    /\ committed \subseteq Msgs
    /\ watermark \in 0 .. Rows
    /\ cycle \in [Cycles -> CycleStates]
    /\ lock \subseteq Cycles
    /\ trained \in [Msgs -> 0 .. TrainedCap]
    /\ torn \subseteq Msgs

\* The table holds no row whose log() has not got to its commit.
Past == {"stored", "done", "failed"}
Table == \A m \in committed : log[m] \in Past

Serialised == \A k \in Cycles : cycle[k].pc \notin Outside => lock = {k}

CycleInv ==
    /\ BaseTypes
    /\ Table
    /\ \A m \in Msgs : log[m] = "new" <=> created[m] = 0
    /\ Serialised
    /\ \A k \in Cycles : CycleOK(cycle[k], created, committed, watermark)
    /\ \A m \in Msgs : TrainedOK(trained[m], m, created, committed, watermark, Unmarked(cycle), torn)

-----------------------------------------------------------------------------
(* What a batch has left out.                                              *)

\* Timestamps are distinct and none is ahead of the clock.
Stamped ==
    /\ \A m \in Msgs : created[m] <= Clock
    /\ \A m, n \in Msgs : created[m] = created[n] /\ created[m] # 0 => m = n
    /\ watermark <= Clock

\* What y's fetch missed between its mark and a row that it returned was on its
\* way at the time.
MissedOK(y, cr, ov) ==
    y.pc \in Fetched =>
       \A m \in Msgs \ y.batch : \A b \in y.batch :
          y.mark < cr[m] /\ cr[m] < cr[b] => m \in ov

\* Below the watermark w a message was trained on or overtaken.
PassedOK(n, m, cr, w, ov) == 0 < cr[m] /\ cr[m] <= w => n > 0 \/ m \in ov

RowInv ==
    /\ overtaken \subseteq Msgs
    /\ Stamped
    /\ \A k \in Cycles : MissedOK(cycle[k], created, overtaken)
    /\ \A m \in Unmarked(cycle) : trained[m] > 0
    /\ \A m \in Msgs : PassedOK(trained[m], m, created, watermark, overtaken)

-----------------------------------------------------------------------------
(* What the counter knows.                                                 *)

Done == {m \in Msgs : log[m] = "done"}

\* The rows logged since the last call of on_threshold and the last seeding.
Pending == Logged \ (spent \cup seeded)

SeedTypes ==
    /\ log \in [Msgs -> LogPC]
    /\ ensure \in [Callers -> {"out", "counting", "counted"}]
    /\ seen \in [Callers -> 0 .. Rows]
    /\ committed \subseteq Msgs /\ spent \subseteq Msgs /\ seeded \subseteq Msgs
    /\ count \in Nat /\ count <= Rows + Cardinality(Done)
    /\ firedAt = NotSeeded \/ firedAt \in 0 .. count

\* No log() gets past _ensure_ready before the counter is seeded.
SeededFirst ==
    \A m \in Msgs : log[m] = "stored" \/ (log[m] = "storing" /\ ensure[m] = "out")
                      => firedAt # NotSeeded

\* The counter has seen at least the pending rows.
Counted ==
    firedAt # NotSeeded => Cardinality(Pending) <= count - firedAt /\ count - firedAt < Threshold

SeedInv == SeedTypes /\ SeededFirst /\ Counted /\ MissedOnlyBySeeding

-----------------------------------------------------------------------------
(* Finite sets of messages and of timestamps                               *)

\* Every set of messages is finite and no larger than that of all messages.
LEMMA MessageSets ==
    ASSUME NEW S \in SUBSET Msgs
    PROVE  IsFiniteSet(S) /\ Cardinality(S) \in 0 .. Rows /\ Rows \in Nat
<1>1. IsFiniteSet(S) /\ Cardinality(S) <= Cardinality(Msgs)
  BY CallersAssumption, FS_Subset
<1>2. Cardinality(S) \in Nat /\ Cardinality(Msgs) \in Nat
  BY <1>1, CallersAssumption, FS_CardinalityType
<1>. QED  BY <1>1, <1>2 DEF Rows

\* A finite, non-empty set of numbers has a greatest element, which Max picks:
\* the one with the fewest above it.
LEMMA MaxFacts ==
    ASSUME NEW S \in SUBSET Int, IsFiniteSet(S), S # {}
    PROVE  Max(S) \in S /\ \A y \in S : y <= Max(S)
<1>. DEFINE Above(x) == {y \in S : y > x}
            T == {Above(x) : x \in S}
<1>1. T \subseteq FiniteSubsetsOf(S) /\ T # {}
  <2>1. \A x \in S : Above(x) \in SUBSET S
    OBVIOUS
  <2>2. \A A \in SUBSET S : IsFiniteSet(A)
    BY FS_Subset
  <2>. QED  BY <2>1, <2>2 DEF FiniteSubsetsOf
<1>2. PICK A \in T : \A C \in T : ~(<<C, A>> \in StrictSubsetOrdering(S))
  BY <1>1, FS_StrictSubsetOrderingWellFounded, WFMin
<1>3. PICK x \in S : A = Above(x)
  OBVIOUS
<1>4. ASSUME NEW y \in S, y > x
      PROVE  FALSE
  <2>0. x \in Int /\ y \in Int /\ \A z \in S : z \in Int
    OBVIOUS
  <2>1. \A z \in S : z > y => z > x
    BY <1>4, <2>0
  <2>2. ~(y > y)
    BY <2>0
  <2>3. Above(y) \subseteq Above(x) /\ y \in Above(x) /\ y \notin Above(y)
    BY <1>4, <2>1, <2>2, Zenon
  <2>4. <<Above(y), A>> \in StrictSubsetOrdering(S)
    BY <2>3, <1>3 DEF StrictSubsetOrdering
  <2>. QED  BY <2>4, <1>2
<1>5. \A y \in S : x >= y
  BY <1>4
<1>6. \E z \in S : \A y \in S : z >= y
  BY <1>5
<1>7. Max(S) \in S /\ \A y \in S : Max(S) >= y
  BY <1>6 DEF Max
<1>. QED  BY <1>7

\* The watermark that a batch asks for is the timestamp of its newest row.
LEMMA NewestRow ==
    ASSUME created \in [Msgs -> 0 .. Rows], NEW B \in SUBSET Msgs, B # {}
    PROVE  /\ MaxCreatedAt(B) \in 0 .. Rows
           /\ \E b \in B : MaxCreatedAt(B) = created[b]
           /\ \A b \in B : created[b] <= MaxCreatedAt(B)
<1>. DEFINE S == {created[b] : b \in B}
<1>1. Rows \in Nat /\ IsFiniteSet(B)
  BY MessageSets
<1>2. S \in SUBSET Int /\ S # {} /\ S \subseteq 0 .. Rows
  BY <1>1
<1>3. IsFiniteSet(S)
  <2>1. IsFiniteSet(0 .. Rows)
    BY <1>1, FS_Interval
  <2>. HIDE DEF S
  <2>. QED  BY <1>2, <2>1, FS_Subset
<1>4. Max(S) \in S /\ \A y \in S : y <= Max(S)
  <2>. HIDE DEF S
  <2>. QED  BY <1>2, <1>3, MaxFacts
<1>. QED  BY <1>2, <1>4 DEF MaxCreatedAt

\* The clock is ahead of nothing but what exists, and a new message moves it.
LEMMA ClockFacts ==
    /\ Clock \in 0 .. Rows
    /\ \A m \in Msgs : created[m] = 0 => Clock + 1 \in 1 .. Rows
<1>. DEFINE S == {m \in Msgs : created[m] # 0}
<1>1. S \in SUBSET Msgs /\ Clock = Cardinality(S)
  BY DEF Clock
<1>. HIDE DEF S
<1>2. Clock \in 0 .. Rows /\ Rows \in Nat /\ IsFiniteSet(S)
  BY <1>1, MessageSets
<1>3. ASSUME NEW m \in Msgs, created[m] = 0
      PROVE  Clock + 1 \in 1 .. Rows
  <2>1. m \notin S /\ S \cup {m} \in SUBSET Msgs
    BY <1>1, <1>3 DEF S
  <2>2. Cardinality(S \cup {m}) = Cardinality(S) + 1
    BY <1>2, <2>1, FS_AddElement
  <2>3. Cardinality(S \cup {m}) \in 0 .. Rows
    BY <2>1, MessageSets
  <2>. QED  BY <1>1, <1>2, <2>2, <2>3
<1>. QED  BY <1>2, <1>3

-----------------------------------------------------------------------------
(* The cycles                                                              *)

\* Nothing has been logged and no cycle runs.
LEMMA InitCycleInv == Init => CycleInv
<1>. SUFFICES ASSUME Init PROVE CycleInv
  OBVIOUS
<1>1. Rows \in Nat /\ 0 \in 0 .. Rows
  BY MessageSets
<1>2. NoCycle \in CycleStates /\ NoCycle.pc = "idle"
  BY <1>1 DEF NoCycle, CycleStates, CyclePC
<1>3. BaseTypes
  BY <1>1, <1>2 DEF Init, BufferInit, BaseTypes, LogPC, TrainedCap
<1>4. Table /\ \A m \in Msgs : log[m] = "new" <=> created[m] = 0
  BY DEF Init, BufferInit, Table
<1>5. Serialised /\ \A k \in Cycles : CycleOK(cycle[k], created, committed, watermark)
  BY <1>2 DEF Init, Serialised, Outside, CycleOK, Fetched
<1>6. \A m \in Msgs : TrainedOK(trained[m], m, created, committed, watermark, Unmarked(cycle), torn)
  BY DEF Init, TrainedOK
<1>. QED  BY <1>3, <1>4, <1>5, <1>6 DEF CycleInv

\* How the rows may change under a cycle: none disappears or is stamped anew.
Grows(cr, co) == committed \subseteq co /\ \A m \in committed : cr[m] = created[m]

\* What a cycle knows survives such a change, as long as the watermark stays.
LEMMA GrowthKeeps ==
    ASSUME CycleInv, NEW cr, NEW co, Grows(cr, co)
    PROVE  /\ \A k \in Cycles : CycleOK(cycle[k], cr, co, watermark)
           /\ \A m \in Msgs : TrainedOK(trained[m], m, cr, co, watermark, Unmarked(cycle), torn)
<1>1. ASSUME NEW k \in Cycles PROVE CycleOK(cycle[k], cr, co, watermark)
  BY DEF CycleInv, CycleOK, Grows
<1>2. ASSUME NEW m \in Msgs
      PROVE  TrainedOK(trained[m], m, cr, co, watermark, Unmarked(cycle), torn)
  BY DEF CycleInv, TrainedOK, Grows
<1>. QED  BY <1>1, <1>2

\* A batch is unmarked exactly while its cycle is about to advance.
LEMMA UnmarkedFacts ==
    ASSUME NEW cy, NEW m
    PROVE  m \in Unmarked(cy) <=> \E k \in Cycles : cy[k].pc = "advance" /\ m \in cy[k].batch
BY DEF Unmarked

\* Of the cycles only k moves, to y, and it neither deploys nor advances.
LEMMA CycleMoves ==
    ASSUME CycleInv, NEW k \in Cycles, NEW y \in CycleStates,
           cycle' = [cycle EXCEPT ![k] = y],
           CycleOK(y, created, committed, watermark),
           cycle[k].pc # "advance", y.pc # "advance",
           y.pc \notin Outside => lock' = {k},
           lock' \in {lock, {k}, {}}, lock' = lock \/ lock = {k} \/ lock = {},
           UNCHANGED <<created, log, committed, watermark, trained, torn>>
    PROVE  CycleInv'
<1>1. /\ cycle \in [Cycles -> CycleStates] /\ cycle' \in [Cycles -> CycleStates]
      /\ cycle'[k] = y /\ \A j \in Cycles : j # k => cycle'[j] = cycle[j]
  BY DEF CycleInv, BaseTypes
<1>2. BaseTypes'
  BY <1>1 DEF CycleInv, BaseTypes
<1>3. Table' /\ \A m \in Msgs : log'[m] = "new" <=> created'[m] = 0
  BY DEF CycleInv, Table
<1>4. Serialised'
  <2>1. SUFFICES ASSUME NEW j \in Cycles, cycle'[j].pc \notin Outside
                 PROVE  lock' = {j}
    BY DEF Serialised
  <2>2. CASE j = k
    BY <1>1, <2>1, <2>2
  <2>3. CASE j # k
    <3>1. lock = {j}
      BY <1>1, <2>1, <2>3 DEF CycleInv, Serialised
    <3>. QED  BY <3>1, <2>3
  <2>. QED  BY <2>2, <2>3
<1>5. \A j \in Cycles : CycleOK(cycle'[j], created', committed', watermark')
  BY <1>1 DEF CycleInv
<1>6. Unmarked(cycle') = Unmarked(cycle)
  BY <1>1 DEF Unmarked
<1>7. \A m \in Msgs :
         TrainedOK(trained'[m], m, created', committed', watermark', Unmarked(cycle'), torn')
  BY <1>6 DEF CycleInv
<1>. QED  BY <1>2, <1>3, <1>4, <1>5, <1>7 DEF CycleInv

\* on_threshold may have asked for a cycle.
Asks ==
    \/ UNCHANGED cycle
    \/ \E k \in Cycles : cycle[k].pc = "idle" /\ cycle' = [cycle EXCEPT ![k].pc = "queued"]

\* A cycle that is asked for waits outside the lock, with nothing in hand.
LEMMA AskingKeeps ==
    ASSUME CycleInv, Asks, NEW cr, NEW co
    PROVE  /\ cycle' \in [Cycles -> CycleStates]
           /\ \A k \in Cycles : cycle'[k].pc \notin Outside => cycle[k].pc \notin Outside
           /\ \A k \in Cycles : CycleOK(cycle[k], cr, co, watermark)
                                  => CycleOK(cycle'[k], cr, co, watermark)
           /\ Unmarked(cycle') = Unmarked(cycle)
<1>1. CASE UNCHANGED cycle
  BY <1>1 DEF CycleInv, BaseTypes
<1>2. ASSUME NEW k \in Cycles, cycle[k].pc = "idle", cycle' = [cycle EXCEPT ![k].pc = "queued"]
      PROVE  /\ cycle' \in [Cycles -> CycleStates]
             /\ \A j \in Cycles : j # k => cycle'[j] = cycle[j]
             /\ cycle'[k].pc = "queued"
  BY <1>2 DEF CycleInv, BaseTypes, CycleStates, CyclePC
<1>3. ASSUME NEW k \in Cycles, cycle[k].pc = "idle", cycle' = [cycle EXCEPT ![k].pc = "queued"]
      PROVE  Unmarked(cycle') = Unmarked(cycle)
  BY <1>2, <1>3 DEF Unmarked
<1>. QED  BY <1>1, <1>2, <1>3 DEF Asks, Outside, CycleOK, Fetched

\* A log() moves on, without or with its commit, or a message is created.
LEMMA RowMoves ==
    ASSUME CycleInv, NEW m \in Msgs, NEW v \in LogPC \ {"new"}, NEW cr \in [Msgs -> 0 .. Rows],
           Grows(cr, committed'), \A n \in Msgs \ {m} : cr[n] = created[n], cr[m] # 0,
           log' = [log EXCEPT ![m] = v], created' = cr,
           committed' \subseteq Msgs, \A n \in committed' : log'[n] \in Past,
           Asks, UNCHANGED <<watermark, lock, trained, torn>>
    PROVE  CycleInv'
<1>0. /\ cycle' \in [Cycles -> CycleStates]
      /\ \A k \in Cycles : cycle'[k].pc \notin Outside => cycle[k].pc \notin Outside
      /\ \A k \in Cycles : CycleOK(cycle[k], created', committed', watermark)
                             => CycleOK(cycle'[k], created', committed', watermark)
      /\ Unmarked(cycle') = Unmarked(cycle)
  BY AskingKeeps
<1>1. BaseTypes'
  BY <1>0 DEF CycleInv, BaseTypes
<1>2. Table'
  BY DEF Table
<1>3. \A n \in Msgs : log'[n] = "new" <=> created'[n] = 0
  BY DEF CycleInv, BaseTypes
<1>4. Serialised'
  BY <1>0 DEF CycleInv, Serialised
<1>5. \A k \in Cycles : CycleOK(cycle'[k], created', committed', watermark')
  BY <1>0, GrowthKeeps
<1>6. \A n \in Msgs :
         TrainedOK(trained'[n], n, created', committed', watermark', Unmarked(cycle'), torn')
  BY <1>0, GrowthKeeps
<1>. QED  BY <1>1, <1>2, <1>3, <1>4, <1>5, <1>6 DEF CycleInv

\* A message that is created takes a time stamp; no row has its name yet.
LEMMA NewMessageKeeps == ASSUME CycleInv, NEW m \in Msgs, NewMessage(m) PROVE CycleInv'
<1>1. /\ log[m] = "new" /\ log' = [log EXCEPT ![m] = "created"]
      /\ created' = [created EXCEPT ![m] = Clock + 1]
      /\ UNCHANGED <<committed, watermark, cycle, lock, trained, torn>>
  BY DEF NewMessage, Create, learnerVars
<1>2. Clock + 1 \in 1 .. Rows /\ Rows \in Nat
  BY <1>1, ClockFacts, MessageSets DEF CycleInv
<1>3. created' \in [Msgs -> 0 .. Rows] /\ created'[m] = Clock + 1
      /\ \A n \in Msgs \ {m} : created'[n] = created[n]
  BY <1>1, <1>2 DEF CycleInv, BaseTypes
<1>4. m \notin committed /\ committed \subseteq Msgs
  BY <1>1 DEF CycleInv, BaseTypes, Table, Past
<1>5. Grows(created', committed')
  BY <1>1, <1>3, <1>4 DEF Grows
<1>6. committed' \subseteq Msgs /\ \A n \in committed' : log'[n] \in Past
  BY <1>1, <1>4 DEF CycleInv, Table, BaseTypes
<1>7. created'[m] # 0 /\ "created" \in LogPC \ {"new"}
  BY <1>2, <1>3 DEF LogPC
<1>. QED  BY <1>1, <1>3, <1>5, <1>6, <1>7, RowMoves DEF Asks

\* The steps of a log() that has its message.
LEMMA LogMoves ==
    ASSUME CycleInv, NEW m \in Msgs, NEW v \in LogPC \ {"new"}, log[m] # "new",
           log' = [log EXCEPT ![m] = v], committed \subseteq committed',
           committed' \subseteq Msgs, \A n \in committed' : log'[n] \in Past,
           Asks, UNCHANGED <<created, watermark, lock, trained, torn>>
    PROVE  CycleInv'
<1>1. Grows(created, committed')
  BY DEF Grows
<1>2. created \in [Msgs -> 0 .. Rows] /\ created[m] # 0
  BY DEF CycleInv, BaseTypes
<1>. QED  BY <1>1, <1>2, RowMoves

\* _ensure_ready, the commit, a failure and the end of a log().
LEMMA LogKeeps == ASSUME CycleInv, NEW m \in Msgs, Log(m) PROVE CycleInv'
<1>0. /\ {"storing", "stored", "done", "failed"} \subseteq LogPC \ {"new"}
      /\ log \in [Msgs -> LogPC] /\ committed \subseteq Msgs
      /\ \A n \in committed : log[n] \in Past
  BY DEF LogPC, CycleInv, BaseTypes, Table
<1>1. CASE LogBegin(m) /\ UNCHANGED learnerVars
  <2>1. /\ log[m] = "created" /\ log' = [log EXCEPT ![m] = "storing"]
        /\ UNCHANGED <<created, committed, watermark, cycle, lock, trained, torn>>
    BY <1>1 DEF LogBegin, learnerVars
  <2>2. committed' \subseteq Msgs /\ \A n \in committed' : log'[n] \in Past
    BY <1>0, <2>1 DEF Past
  <2>. QED  BY <1>0, <2>1, <2>2, LogMoves DEF Asks
<1>2. CASE Commit(m) /\ UNCHANGED learnerVars
  <2>1. /\ log[m] = "storing" /\ log' = [log EXCEPT ![m] = "stored"]
        /\ committed' = committed \cup {m}
        /\ UNCHANGED <<created, watermark, cycle, lock, trained, torn>>
    BY <1>2 DEF Commit, learnerVars
  <2>2. committed' \subseteq Msgs /\ \A n \in committed' : log'[n] \in Past
    BY <1>0, <2>1 DEF Past
  <2>. QED  BY <1>0, <2>1, <2>2, LogMoves DEF Asks
<1>3. CASE LogFails(m) /\ UNCHANGED learnerVars
  <2>1. /\ log[m] # "new" /\ log' = [log EXCEPT ![m] = "failed"]
        /\ UNCHANGED <<created, committed, watermark, cycle, lock, trained, torn>>
    BY <1>3 DEF LogFails, learnerVars
  <2>2. committed' \subseteq Msgs /\ \A n \in committed' : log'[n] \in Past
    BY <1>0, <2>1 DEF Past
  <2>. QED  BY <1>0, <2>1, <2>2, LogMoves DEF Asks
<1>4. CASE LogEnd(m, Trigger, UNCHANGED cycle) /\ UNCHANGED <<lock, trained, torn, overtaken>>
  <2>1. /\ log[m] = "stored" /\ log' = [log EXCEPT ![m] = "done"]
        /\ UNCHANGED <<created, committed, watermark, lock, trained, torn>>
        /\ Trigger \/ UNCHANGED cycle
    BY <1>4 DEF LogEnd
  <2>2. Asks
    BY <2>1 DEF Trigger, Idlers, Asks
  <2>3. committed' \subseteq Msgs /\ \A n \in committed' : log'[n] \in Past
    BY <1>0, <2>1 DEF Past
  <2>. QED  BY <1>0, <2>1, <2>2, <2>3, LogMoves
<1>. QED  BY <1>1, <1>2, <1>3, <1>4 DEF Log

\* The steps of a cycle that read, skip, train, load, reject, discard or raise.
PlainStep(k) ==
    \/ RunCycle(k) \/ Acquire(k) \/ ReadMark(k) \/ Fetch(k) \/ Skip(k) \/ Curate(k)
    \/ Train(k) \/ ShadowLoad(k) \/ Reject(k) \/ Discard(k) \/ Raises(k)

\* Such a step leaves rows, watermark and history alone.
LEMMA PlainStepKeeps == ASSUME CycleInv, NEW k \in Cycles, PlainStep(k) PROVE CycleInv'
<1>0. /\ cycle \in [Cycles -> CycleStates] /\ cycle[k] \in CycleStates
      /\ CycleOK(cycle[k], created, committed, watermark)
      /\ cycle[k].pc \notin Outside => lock = {k}
      /\ watermark \in 0 .. Rows /\ committed \subseteq Msgs
  BY DEF CycleInv, BaseTypes, Serialised
<1>1. UNCHANGED <<created, log, committed, watermark, trained, torn>>
  BY DEF PlainStep, RunCycle, Acquire, ReadMark, Fetch, Skip, Curate, Train, ShadowLoad, Reject,
         Discard, Raises, bufferVars
<1>2. CASE RunCycle(k) \/ Acquire(k) \/ Curate(k) \/ Train(k) \/ ShadowLoad(k) \/ Reject(k)
  <2>1. PICK v \in {"queued", "mark", "train", "load", "score", "discard"} :
           /\ cycle' = [cycle EXCEPT ![k].pc = v]
           /\ v \in {"train", "load", "score", "discard"} =>
                 /\ cycle[k].pc \in {"curate", "train", "load", "score"}
                 /\ cycle[k].batch # {}
           /\ cycle[k].pc # "advance"
           /\ v \notin Outside => lock' = {k}
           /\ lock' = lock \/ (lock = {} /\ lock' = {k})
    <3>1. CASE RunCycle(k)
      BY <3>1 DEF RunCycle, Goto, Outside
    <3>2. CASE Acquire(k)
      BY <3>2 DEF Acquire, Goto
    <3>3. CASE Curate(k)
      BY <1>0, <3>3 DEF Curate, Goto, Outside
    <3>4. CASE Train(k) \/ ShadowLoad(k) \/ Reject(k)
      BY <1>0, <3>4 DEF Train, ShadowLoad, Reject, Goto, Outside, CycleOK, Fetched
    <3>. QED  BY <1>2, <3>1, <3>2, <3>3, <3>4
  <2>. DEFINE y == [cycle[k] EXCEPT !.pc = v]
  <2>2. /\ y \in CycleStates /\ y.pc = v /\ y.mark = cycle[k].mark /\ y.batch = cycle[k].batch
        /\ cycle' = [cycle EXCEPT ![k] = y]
    BY <1>0, <2>1 DEF CycleStates, CyclePC
  <2>. HIDE DEF y
  <2>3. CycleOK(y, created, committed, watermark)
    BY <1>0, <2>1, <2>2 DEF CycleOK, Fetched
  <2>. QED  BY <1>1, <2>1, <2>2, <2>3, CycleMoves
<1>3. CASE ReadMark(k)
  <2>. DEFINE y == [cycle[k] EXCEPT !.pc = "fetch", !.mark = watermark]
  <2>1. /\ y \in CycleStates /\ y.pc = "fetch" /\ y.mark = watermark
        /\ cycle' = [cycle EXCEPT ![k] = y] /\ cycle[k].pc = "mark" /\ lock' = lock
    BY <1>0, <1>3 DEF ReadMark, CycleStates, CyclePC
  <2>. HIDE DEF y
  <2>2. CycleOK(y, created, committed, watermark)
    BY <2>1 DEF CycleOK, Fetched
  <2>. QED  BY <1>0, <1>1, <2>1, <2>2, CycleMoves DEF Outside
<1>4. CASE Fetch(k)
  <2>. DEFINE y == [cycle[k] EXCEPT !.pc = "curate", !.batch = RowsSince(cycle[k].mark)]
  <2>1. RowsSince(cycle[k].mark) \in SUBSET Msgs
    BY <1>0 DEF RowsSince
  <2>2. /\ y \in CycleStates /\ y.pc = "curate" /\ y.mark = cycle[k].mark
        /\ y.batch = RowsSince(cycle[k].mark)
        /\ cycle' = [cycle EXCEPT ![k] = y] /\ cycle[k].pc = "fetch" /\ lock' = lock
    BY <1>0, <1>4, <2>1 DEF Fetch, CycleStates, CyclePC
  <2>. HIDE DEF y
  <2>3. CycleOK(y, created, committed, watermark)
    BY <1>0, <2>2 DEF CycleOK, Fetched, RowsSince
  <2>. QED  BY <1>0, <1>1, <2>2, <2>3, CycleMoves DEF Outside
<1>5. CASE Skip(k) \/ Discard(k) \/ Raises(k)
  <2>1. /\ cycle' = [cycle EXCEPT ![k] = NoCycle] /\ lock' = lock \ {k}
        /\ cycle[k].pc \notin {"idle", "queued", "advance"}
    BY <1>5 DEF Skip, Discard, Raises, End
  <2>2. lock = {k} /\ lock' = {}
    BY <1>0, <2>1 DEF Outside
  <2>3. NoCycle \in CycleStates /\ NoCycle.pc = "idle"
    BY MessageSets DEF NoCycle, CycleStates, CyclePC
  <2>4. CycleOK(NoCycle, created, committed, watermark)
    BY <2>3 DEF CycleOK, Fetched
  <2>. QED  BY <1>1, <2>1, <2>2, <2>3, <2>4, CycleMoves DEF Outside
<1>. QED  BY <1>2, <1>3, <1>4, <1>5 DEF PlainStep

\* The steps that deploy: the rows of the batch are above the watermark, so
\* one of them that had been deployed before is torn.
LEMMA DeployKeeps == ASSUME CycleInv, NEW k \in Cycles, Accept(k) \/ LoadLive(k) PROVE CycleInv'
<1>1. /\ cycle[k].pc \in {"score", "load"} /\ Deploy(k)
      /\ cycle' = [cycle EXCEPT ![k].pc = "advance"]
      /\ UNCHANGED <<created, log, committed, watermark, lock, torn>>
  BY DEF Accept, LoadLive, Goto, bufferVars
<1>2. /\ cycle \in [Cycles -> CycleStates] /\ cycle[k] \in CycleStates
      /\ CycleOK(cycle[k], created, committed, watermark)
      /\ lock = {k} /\ trained \in [Msgs -> 0 .. TrainedCap]
  BY <1>1 DEF CycleInv, BaseTypes, Serialised, Outside
<1>. DEFINE y == [cycle[k] EXCEPT !.pc = "advance"]
<1>3. /\ y \in CycleStates /\ y.pc = "advance" /\ y.mark = cycle[k].mark /\ y.batch = cycle[k].batch
      /\ cycle' = [cycle EXCEPT ![k] = y]
  BY <1>1, <1>2 DEF CycleStates, CyclePC
<1>. HIDE DEF y
<1>4. CycleOK(y, created, committed, watermark)
  BY <1>1, <1>2, <1>3 DEF CycleOK, Fetched
<1>5. cycle'[k] = y /\ \A j \in Cycles : j # k => cycle'[j] = cycle[j]
  BY <1>2, <1>3
<1>6. trained' \in [Msgs -> 0 .. TrainedCap]
  BY <1>1, <1>2 DEF Deploy, TrainedCap
<1>7. BaseTypes'
  BY <1>1, <1>2, <1>3, <1>6 DEF CycleInv, BaseTypes
<1>8. Table' /\ \A m \in Msgs : log'[m] = "new" <=> created'[m] = 0
  BY <1>1 DEF CycleInv, Table
<1>9. \A j \in Cycles : j # k => cycle[j].pc \in Outside
  BY <1>2 DEF CycleInv, Serialised
<1>10. Serialised'
  BY <1>1, <1>2, <1>5, <1>9 DEF Serialised
<1>11. \A j \in Cycles : CycleOK(cycle'[j], created', committed', watermark')
  BY <1>1, <1>4, <1>5 DEF CycleInv
<1>12. Unmarked(cycle) = {} /\ Unmarked(cycle') = cycle[k].batch
  BY <1>1, <1>3, <1>5, <1>9 DEF Unmarked, Outside
<1>13. ASSUME NEW m \in Msgs
       PROVE  TrainedOK(trained'[m], m, created', committed', watermark', Unmarked(cycle'), torn')
  <2>1. TrainedOK(trained[m], m, created, committed, watermark, {}, torn)
    BY <1>12 DEF CycleInv
  <2>2. CASE m \in cycle[k].batch
    <3>1. m \in committed /\ created[m] > watermark /\ trained'[m] <= trained[m] + 1
      BY <1>1, <1>2, <2>2 DEF CycleOK, Fetched, Deploy, TrainedCap
    <3>2. trained[m] > 0 => m \in torn
      BY <2>1, <3>1 DEF TrainedOK, CycleInv, BaseTypes
    <3>3. trained'[m] > 1 => m \in torn
      BY <1>2, <1>6, <3>1, <3>2 DEF TrainedCap
    <3>. QED  BY <1>1, <1>12, <2>2, <3>1, <3>3 DEF TrainedOK
  <2>3. CASE m \notin cycle[k].batch
    <3>1. trained'[m] = trained[m]
      BY <1>1, <2>3 DEF Deploy
    <3>. QED  BY <1>1, <2>1, <3>1 DEF TrainedOK
  <2>. QED  BY <2>2, <2>3
<1>. QED  BY <1>7, <1>8, <1>10, <1>11, <1>13 DEF CycleInv

\* A cycle that has deployed leaves the lock, with w for a watermark and to for
\* the torn rows: either the mark covers its batch, or its batch is torn.
LEMMA LeavesAfterDeploy ==
    ASSUME CycleInv, NEW k \in Cycles, cycle[k].pc = "advance", End(k),
           watermark' \in 0 .. Rows, watermark' >= watermark,
           torn \subseteq torn', torn' \subseteq Msgs,
           \A m \in cycle[k].batch : created[m] <= watermark' \/ m \in torn',
           UNCHANGED <<created, log, committed, trained>>
    PROVE  CycleInv'
<1>1. /\ cycle \in [Cycles -> CycleStates] /\ lock = {k}
      /\ cycle' = [cycle EXCEPT ![k] = NoCycle] /\ lock' = {}
  BY DEF CycleInv, BaseTypes, Serialised, Outside, End
<1>2. NoCycle \in CycleStates /\ NoCycle.pc = "idle"
  BY MessageSets DEF NoCycle, CycleStates, CyclePC
<1>3. \A j \in Cycles : cycle'[j].pc \in Outside
  BY <1>1, <1>2 DEF CycleInv, Serialised, Outside
<1>4. BaseTypes'
  BY <1>1, <1>2 DEF CycleInv, BaseTypes
<1>5. Table' /\ \A m \in Msgs : log'[m] = "new" <=> created'[m] = 0
  BY DEF CycleInv, Table
<1>6. Serialised' /\ \A j \in Cycles : CycleOK(cycle'[j], created', committed', watermark')
  BY <1>3 DEF Serialised, CycleOK, Outside, Fetched
<1>7. Unmarked(cycle) = cycle[k].batch
  <2>1. \A j \in Cycles : j # k => cycle[j].pc \in Outside
    BY <1>1 DEF CycleInv, Serialised
  <2>. QED  BY <2>1 DEF Unmarked, Outside
<1>8. ASSUME NEW m \in Msgs
      PROVE  TrainedOK(trained'[m], m, created', committed', watermark', Unmarked(cycle'), torn')
  <2>1. TrainedOK(trained[m], m, created, committed, watermark, cycle[k].batch, torn)
    BY <1>7 DEF CycleInv
  <2>2. created[m] \in 0 .. Rows /\ watermark \in 0 .. Rows /\ Rows \in Nat
    BY MessageSets DEF CycleInv, BaseTypes
  <2>3. created[m] <= watermark => created[m] <= watermark'
    BY <2>2
  <2>. QED  BY <2>1, <2>3 DEF TrainedOK
<1>. QED  BY <1>4, <1>5, <1>6, <1>8 DEF CycleInv

\* set_watermark: the mark moves to the newest row of the batch, which is
\* above the mark the cycle read.
LEMMA AdvanceFacts ==
    ASSUME CycleInv, NEW k \in Cycles, Advance(k)
    PROVE  /\ watermark' \in 0 .. Rows /\ watermark' > watermark
           /\ \E b \in cycle[k].batch : watermark' = created[b]
           /\ \A b \in cycle[k].batch : created[b] <= watermark'
<1>1. /\ cycle[k].pc = "advance" /\ watermark' = MaxCreatedAt(cycle[k].batch)
      /\ cycle[k].batch \in SUBSET Msgs /\ CycleOK(cycle[k], created, committed, watermark)
      /\ created \in [Msgs -> 0 .. Rows] /\ watermark \in 0 .. Rows
  BY DEF Advance, CycleInv, BaseTypes, CycleStates
<1>2. cycle[k].batch # {} /\ \A b \in cycle[k].batch : created[b] > watermark
  BY <1>1 DEF CycleOK, Fetched
<1>. QED  BY <1>1, <1>2, NewestRow

\* The two ways out of a deployment.
LEMMA AdvanceKeeps == ASSUME CycleInv, NEW k \in Cycles, Advance(k) \/ AdvanceRaises(k) PROVE CycleInv'
<1>0. cycle[k].batch \subseteq Msgs /\ watermark \in 0 .. Rows /\ torn \subseteq Msgs
  BY DEF CycleInv, BaseTypes, CycleStates
<1>1. CASE Advance(k)
  <2>1. watermark' \in 0 .. Rows /\ watermark' >= watermark
        /\ \A b \in cycle[k].batch : created[b] <= watermark'
    BY <1>0, <1>1, AdvanceFacts
  <2>2. cycle[k].pc = "advance" /\ End(k) /\ UNCHANGED <<created, log, committed, trained, torn>>
    BY <1>1 DEF Advance
  <2>. QED  BY <1>0, <2>1, <2>2, LeavesAfterDeploy
<1>2. CASE AdvanceRaises(k)
  <2>1. /\ cycle[k].pc = "advance" /\ End(k) /\ torn' = torn \cup cycle[k].batch
        /\ UNCHANGED <<created, log, committed, watermark, trained>>
    BY <1>2 DEF AdvanceRaises, bufferVars
  <2>2. watermark' \in 0 .. Rows /\ watermark' >= watermark
    BY <1>0, <2>1, MessageSets
  <2>. QED  BY <1>0, <2>1, <2>2, LeavesAfterDeploy
<1>. QED  BY <1>1, <1>2

\* A restart tears the batch of a deployment whose mark was not written.
LEMMA RestartKeeps == ASSUME CycleInv, Restart PROVE CycleInv'
<1>1. /\ log' = [m \in Msgs |-> IF log[m] \in {"created", "storing", "stored"}
                                THEN "failed" ELSE log[m]]
      /\ cycle' = [k \in Cycles |-> NoCycle] /\ lock' = {}
      /\ torn' = torn \cup Unmarked(cycle)
      /\ UNCHANGED <<created, committed, watermark, trained>>
  BY DEF Restart, Unmarked
<1>2. NoCycle \in CycleStates /\ NoCycle.pc = "idle"
  BY MessageSets DEF NoCycle, CycleStates, CyclePC
<1>3. log' \in [Msgs -> LogPC] /\ Table'
      /\ \A m \in Msgs : log'[m] = "new" <=> created'[m] = 0
  BY <1>1 DEF CycleInv, BaseTypes, Table, Past, LogPC
<1>4. Unmarked(cycle) \subseteq Msgs
  BY DEF CycleInv, BaseTypes, CycleStates, Unmarked
<1>5. BaseTypes'
  BY <1>1, <1>2, <1>3, <1>4 DEF CycleInv, BaseTypes
<1>6. Serialised' /\ \A k \in Cycles : CycleOK(cycle'[k], created', committed', watermark')
  BY <1>1, <1>2 DEF Serialised, CycleOK, Outside, Fetched
<1>7. \A m \in Msgs :
         TrainedOK(trained'[m], m, created', committed', watermark', Unmarked(cycle'), torn')
  BY <1>1 DEF CycleInv, TrainedOK
<1>. QED  BY <1>3, <1>5, <1>6, <1>7 DEF CycleInv

\* Every step preserves the first layer.
LEMMA NextCycleInv == CycleInv /\ [Next]_vars => CycleInv'
<1>. SUFFICES ASSUME CycleInv, [Next]_vars PROVE CycleInv'
  OBVIOUS
<1>. DEFINE Same == UNCHANGED <<created, log, committed, watermark, cycle, lock, trained, torn>>
<1>1. CASE Same
  BY <1>1 DEF CycleInv, BaseTypes, Table, Serialised
<1>2. ASSUME NEW c \in Callers, SeedCounter(c) PROVE Same
  BY <1>2 DEF SeedCounter, CountRows, Seed, learnerVars
<1>3. CASE UNCHANGED vars
  BY <1>1, <1>3 DEF vars
<1>4. ASSUME NEW k \in Cycles, Advance(k) \/ AdvanceRaises(k) \/ Accept(k) \/ LoadLive(k) \/ PlainStep(k)
      PROVE  CycleInv'
  BY <1>4, AdvanceKeeps, DeployKeeps, PlainStepKeeps
<1>. QED  BY <1>1, <1>2, <1>3, <1>4, NewMessageKeeps, LogKeeps, RestartKeeps DEF Next, PlainStep

\* The first layer holds throughout, whatever the traffic.
LEMMA AlwaysCycleInv == Spec => []CycleInv
<1>1. Init => CycleInv
  BY InitCycleInv
<1>2. CycleInv /\ [Next]_vars => CycleInv'
  BY NextCycleInv
<1>. QED  BY <1>1, <1>2, PTL DEF Spec

\* No row goes into a second deployed adapter unless a crash or a database
\* fault fell between a deployment and its set_watermark (run_cycle), however
\* the rows are committed and the counter is seeded.
THEOREM ConsumedOnce == Spec => []RetrainedOnlyIfTorn
<1>1. CycleInv => RetrainedOnlyIfTorn
  BY DEF CycleInv, TrainedOK, RetrainedOnlyIfTorn
<1>. QED  BY <1>1, AlwaysCycleInv, PTL

\* The persisted watermark only moves forward, although it was read several
\* awaits before it is written and several cycles may be asked for at once.
THEOREM WatermarkIsMonotone == Spec => WatermarkAdvances
<1>1. ASSUME CycleInv, [Next]_vars
      PROVE  [watermark' >= watermark]_watermark
  <2>1. watermark \in Int
    BY <1>1, MessageSets DEF CycleInv, BaseTypes
  <2>2. ASSUME NEW k \in Cycles, Advance(k) PROVE watermark' >= watermark
    BY <1>1, <2>1, <2>2, AdvanceFacts, MessageSets
  <2>3. ASSUME NEW k \in Cycles, PlainStep(k) \/ Accept(k) \/ LoadLive(k) \/ AdvanceRaises(k)
        PROVE  UNCHANGED watermark
    BY <2>3 DEF PlainStep, RunCycle, Acquire, ReadMark, Fetch, Skip, Curate, Train, ShadowLoad,
                Reject, Discard, Raises, Accept, LoadLive, AdvanceRaises, bufferVars
  <2>4. ASSUME NEW m \in Msgs, NewMessage(m) \/ Log(m) PROVE UNCHANGED watermark
    BY <2>4 DEF NewMessage, Log, Create, LogBegin, Commit, LogFails, LogEnd
  <2>5. ASSUME NEW c \in Callers, SeedCounter(c) PROVE UNCHANGED watermark
    BY <2>5 DEF SeedCounter, CountRows, Seed
  <2>6. CASE Restart \/ UNCHANGED vars
    BY <2>6 DEF Restart, vars
  <2>. QED  BY <1>1, <2>2, <2>3, <2>4, <2>5, <2>6 DEF Next, PlainStep
<1>2. Spec => [][watermark' >= watermark]_watermark
  BY <1>1, AlwaysCycleInv, PTL DEF Spec
<1>. QED  BY <1>2 DEF WatermarkAdvances

-----------------------------------------------------------------------------
(* What a batch has left out                                               *)

\* What CycleInv says of the data, for the proofs below.
LEMMA RowTypes ==
    ASSUME CycleInv
    PROVE  /\ Rows \in Nat /\ \A m \in Msgs : created[m] \in Nat
           /\ created \in [Msgs -> 0 .. Rows] /\ watermark \in Nat
           /\ committed \subseteq Msgs /\ \A m \in committed : created[m] # 0
           /\ cycle \in [Cycles -> CycleStates]
           /\ \A k \in Cycles : /\ cycle[k] \in CycleStates /\ cycle[k].batch \subseteq Msgs
                                /\ CycleOK(cycle[k], created, committed, watermark)
           /\ trained \in [Msgs -> 0 .. TrainedCap]
<1>1. BaseTypes /\ \A k \in Cycles : CycleOK(cycle[k], created, committed, watermark)
  BY DEF CycleInv
<1>2. Rows \in Nat
  BY MessageSets
<1>3. \A k \in Cycles : cycle[k] \in CycleStates /\ cycle[k].batch \subseteq Msgs
  BY <1>1 DEF BaseTypes, CycleStates
<1>4. \A m \in committed : created[m] # 0
  BY DEF CycleInv, BaseTypes, Table, Past
<1>. QED  BY <1>1, <1>2, <1>3, <1>4 DEF BaseTypes

\* No message exists yet.
LEMMA InitRowInv == Init => RowInv
<1>. SUFFICES ASSUME Init PROVE RowInv
  OBVIOUS
<1>1. Stamped
  BY ClockFacts, MessageSets DEF Init, BufferInit, Stamped
<1>2. Unmarked(cycle) = {} /\ \A k \in Cycles : MissedOK(cycle[k], created, overtaken)
  BY DEF Init, Unmarked, MissedOK, NoCycle, Fetched
<1>3. \A m \in Msgs : PassedOK(trained[m], m, created, watermark, overtaken)
  BY DEF Init, BufferInit, PassedOK
<1>. QED  BY <1>1, <1>2, <1>3 DEF Init, RowInv

\* Steps that neither stamp a message nor move the watermark.  Commits are
\* among them: what a fetch missed does not depend on when it is committed.
LEMMA RowsStay ==
    ASSUME RowInv, UNCHANGED <<created, watermark>>,
           overtaken \subseteq overtaken', overtaken' \subseteq Msgs,
           \A m \in Msgs : trained[m] > 0 => trained'[m] > 0,
           \A k \in Cycles : MissedOK(cycle'[k], created, overtaken'),
           \A m \in Unmarked(cycle') : trained'[m] > 0
    PROVE  RowInv'
<1>1. Stamped'
  BY DEF RowInv, Stamped, Clock
<1>2. \A m \in Msgs : PassedOK(trained'[m], m, created', watermark', overtaken')
  BY DEF RowInv, PassedOK
<1>. QED  BY <1>1, <1>2 DEF RowInv

\* The message is stamped by a clock that no other has reached: it is above the
\* watermark and above every batch.
LEMMA CreateKeepsRows == ASSUME CycleInv, RowInv, NEW m \in Msgs, NewMessage(m) PROVE RowInv'
<1>1. /\ log[m] = "new" /\ created' = [created EXCEPT ![m] = Clock + 1]
      /\ UNCHANGED <<committed, watermark, cycle, lock, trained, torn, overtaken>>
  BY DEF NewMessage, Create, learnerVars
<1>2. /\ Rows \in Nat /\ created \in [Msgs -> 0 .. Rows]
      /\ \A n \in Msgs : created[n] \in Nat
      /\ watermark \in Nat /\ committed \subseteq Msgs
      /\ \A k \in Cycles : /\ cycle[k].batch \subseteq Msgs
                           /\ CycleOK(cycle[k], created, committed, watermark)
  BY RowTypes
<1>3. created[m] = 0 /\ m \notin committed
  BY <1>1 DEF CycleInv, Table, Past
<1>4. Clock \in Nat /\ watermark <= Clock /\ \A n \in Msgs : created[n] <= Clock
  BY ClockFacts, <1>2 DEF RowInv, Stamped
<1>5. created'[m] = Clock + 1 /\ \A n \in Msgs \ {m} : created'[n] = created[n]
  BY <1>1, <1>2
<1>6. Clock' = Clock + 1
  <2>. DEFINE S == {n \in Msgs : created[n] # 0}
              U == {n \in Msgs : created'[n] # 0}
  <2>1. U = S \cup {m} /\ m \notin S
    BY <1>3, <1>4, <1>5
  <2>2. Clock = Cardinality(S) /\ Clock' = Cardinality(U)
    BY DEF Clock
  <2>3. IsFiniteSet(S)
    BY MessageSets
  <2>. HIDE DEF S, U
  <2>. QED  BY <2>1, <2>2, <2>3, FS_AddElement
<1>7. Stamped'
  <2>1. \A n \in Msgs : created'[n] <= Clock'
    BY <1>2, <1>4, <1>5, <1>6
  <2>2. ASSUME NEW n \in Msgs, NEW j \in Msgs, created'[n] = created'[j], created'[n] # 0
        PROVE  n = j
    <3>1. CASE n = m \/ j = m
      BY <2>2, <3>1, <1>2, <1>4, <1>5
    <3>2. CASE n # m /\ j # m
      BY <2>2, <3>2, <1>5 DEF RowInv, Stamped
    <3>. QED  BY <3>1, <3>2
  <2>3. watermark' <= Clock'
    BY <1>1, <1>2, <1>4, <1>6
  <2>. QED  BY <2>1, <2>2, <2>3 DEF Stamped
<1>8. ASSUME NEW k \in Cycles
      PROVE  MissedOK(cycle'[k], created', overtaken')
  <2>1. SUFFICES ASSUME cycle[k].pc \in Fetched, NEW n \in Msgs \ cycle[k].batch,
                        NEW b \in cycle[k].batch,
                        cycle[k].mark < created'[n], created'[n] < created'[b]
                 PROVE  n \in overtaken
    BY <1>1 DEF MissedOK
  <2>2. b \in Msgs /\ b # m /\ created'[b] = created[b]
    BY <1>2, <1>3, <1>5, <2>1 DEF CycleOK
  <2>3. n # m
    BY <1>2, <1>4, <1>5, <2>1, <2>2
  <2>4. created'[n] = created[n]
    BY <1>5, <2>3
  <2>. QED  BY <2>1, <2>2, <2>4 DEF RowInv, MissedOK
<1>9. ASSUME NEW n \in Msgs
      PROVE  PassedOK(trained'[n], n, created', watermark', overtaken')
  <2>1. CASE n = m
    BY <1>1, <1>2, <1>4, <1>5, <2>1 DEF PassedOK
  <2>2. CASE n # m
    BY <1>1, <1>5, <2>2 DEF RowInv, PassedOK
  <2>. QED  BY <2>1, <2>2
<1>. QED  BY <1>1, <1>7, <1>8, <1>9 DEF RowInv

\* A log() only adds rows, and may ask for a cycle.
LEMMA LogKeepsRows == ASSUME CycleInv, RowInv, NEW m \in Msgs, Log(m) PROVE RowInv'
<1>1. UNCHANGED <<created, watermark, trained, overtaken>> /\ (UNCHANGED cycle \/ Trigger)
  BY DEF Log, LogBegin, Commit, LogFails, LogEnd, learnerVars
<1>2. Asks
  BY <1>1 DEF Trigger, Idlers, Asks
<1>3. Unmarked(cycle') = Unmarked(cycle)
  BY <1>2, AskingKeeps
<1>4. \A k \in Cycles : MissedOK(cycle'[k], created, overtaken)
  <2>1. CASE UNCHANGED cycle
    BY <2>1 DEF RowInv
  <2>2. ASSUME NEW j \in Cycles, cycle' = [cycle EXCEPT ![j].pc = "queued"], NEW k \in Cycles
        PROVE  MissedOK(cycle'[k], created, overtaken)
    <3>1. (k = j => cycle'[k].pc = "queued") /\ (k # j => cycle'[k] = cycle[k])
      BY <2>2, RowTypes DEF CycleStates
    <3>. QED  BY <3>1 DEF RowInv, MissedOK, Fetched
  <2>. QED  BY <1>2, <2>1, <2>2 DEF Asks
<1>. QED  BY <1>1, <1>3, <1>4, RowsStay DEF RowInv

\* A fetch returns what is in the table above its mark; what is not there yet
\* and is older than something it returned has been overtaken.
LEMMA FetchMisses ==
    ASSUME CycleInv, NEW k \in Cycles, Fetch(k), NEW y,
           y.pc = "curate", y.mark = cycle[k].mark, y.batch = RowsSince(cycle[k].mark)
    PROVE  MissedOK(y, created, overtaken')
<1>1. /\ \A m \in Msgs : created[m] \in Nat
      /\ cycle[k].mark = watermark /\ watermark \in Nat /\ committed \subseteq Msgs
  BY RowTypes DEF Fetch, CycleOK
<1>2. SUFFICES ASSUME NEW m \in Msgs \ y.batch, NEW b \in y.batch,
                      y.mark < created[m], created[m] < created[b]
               PROVE  m \in overtaken'
  BY DEF MissedOK
<1>3. m \notin committed
  BY <1>2 DEF RowsSince
<1>4. Older(m, b)
  BY <1>1, <1>2 DEF Older
<1>. QED  BY <1>2, <1>3, <1>4 DEF Fetch

\* A batch stays what it is until its cycle ends.
LEMMA PlainStepKeepsRows ==
    ASSUME CycleInv, RowInv, NEW k \in Cycles, PlainStep(k)
    PROVE  RowInv'
<1>1. /\ UNCHANGED <<created, watermark, trained>>
      /\ overtaken \subseteq overtaken' /\ overtaken' \subseteq Msgs
      /\ Fetch(k) \/ UNCHANGED overtaken
  BY DEF PlainStep, RunCycle, Acquire, ReadMark, Fetch, Skip, Curate, Train, ShadowLoad, Reject,
         Discard, Raises, bufferVars, RowInv
<1>2. cycle \in [Cycles -> CycleStates] /\ cycle[k] \in CycleStates
      /\ MissedOK(cycle[k], created, overtaken')
  BY <1>1, RowTypes DEF RowInv, MissedOK
<1>3. PICK y : /\ cycle' = [cycle EXCEPT ![k] = y]
               /\ cycle[k].pc # "advance" /\ y.pc # "advance"
               /\ MissedOK(y, created, overtaken')
  <2>1. CASE RunCycle(k) \/ Acquire(k) \/ Curate(k) \/ Train(k) \/ ShadowLoad(k) \/ Reject(k)
    <3>1. PICK v \in {"queued", "mark", "train", "load", "score", "discard"} :
             /\ cycle' = [cycle EXCEPT ![k].pc = v] /\ cycle[k].pc # "advance"
             /\ v \in Fetched => cycle[k].pc \in Fetched
      BY <2>1 DEF RunCycle, Acquire, Curate, Train, ShadowLoad, Reject, Goto, Fetched
    <3>. DEFINE y == [cycle[k] EXCEPT !.pc = v]
    <3>2. /\ y.pc = v /\ y.mark = cycle[k].mark /\ y.batch = cycle[k].batch
          /\ cycle' = [cycle EXCEPT ![k] = y]
      BY <1>2, <3>1 DEF CycleStates
    <3>. HIDE DEF y
    <3>3. MissedOK(y, created, overtaken')
      BY <1>2, <3>1, <3>2 DEF MissedOK
    <3>. QED  BY <3>1, <3>2, <3>3
  <2>2. CASE ReadMark(k)
    <3>. DEFINE y == [cycle[k] EXCEPT !.pc = "fetch", !.mark = watermark]
    <3>1. y.pc = "fetch" /\ cycle' = [cycle EXCEPT ![k] = y] /\ cycle[k].pc = "mark"
      BY <1>2, <2>2 DEF ReadMark, CycleStates
    <3>. QED  BY <3>1 DEF MissedOK, Fetched
  <2>3. CASE Fetch(k)
    <3>. DEFINE y == [cycle[k] EXCEPT !.pc = "curate", !.batch = RowsSince(cycle[k].mark)]
    <3>1. /\ y.pc = "curate" /\ y.mark = cycle[k].mark /\ y.batch = RowsSince(cycle[k].mark)
          /\ cycle' = [cycle EXCEPT ![k] = y] /\ cycle[k].pc = "fetch"
      BY <1>2, <2>3 DEF Fetch, CycleStates
    <3>. HIDE DEF y
    <3>. QED  BY <2>3, <3>1, FetchMisses
  <2>4. CASE Skip(k) \/ Discard(k) \/ Raises(k)
    <3>1. cycle' = [cycle EXCEPT ![k] = NoCycle] /\ cycle[k].pc # "advance"
      BY <2>4 DEF Skip, Discard, Raises, End
    <3>2. NoCycle.pc = "idle"
      BY DEF NoCycle
    <3>. QED  BY <3>1, <3>2 DEF MissedOK, Fetched
  <2>. QED  BY <2>1, <2>2, <2>3, <2>4 DEF PlainStep
<1>4. cycle'[k] = y /\ \A j \in Cycles : j # k => cycle'[j] = cycle[j]
  BY <1>2, <1>3
<1>5. \A j \in Cycles : MissedOK(cycle'[j], created, overtaken')
  BY <1>1, <1>3, <1>4 DEF RowInv, MissedOK
<1>6. Unmarked(cycle') = Unmarked(cycle)
  BY <1>3, <1>4 DEF Unmarked
<1>. QED  BY <1>1, <1>5, <1>6, RowsStay DEF RowInv

\* A deployment counts every row of its batch.
LEMMA DeployKeepsRows ==
    ASSUME CycleInv, RowInv, NEW k \in Cycles, Accept(k) \/ LoadLive(k)
    PROVE  RowInv'
<1>1. /\ cycle[k].pc \in {"score", "load"} /\ Deploy(k)
      /\ cycle' = [cycle EXCEPT ![k].pc = "advance"]
      /\ UNCHANGED <<created, watermark, overtaken>>
  BY DEF Accept, LoadLive, Goto, bufferVars
<1>2. /\ cycle \in [Cycles -> CycleStates] /\ cycle[k] \in CycleStates
      /\ cycle[k].batch \subseteq Msgs
      /\ trained \in [Msgs -> 0 .. TrainedCap]
  BY RowTypes
<1>3. \A m \in Msgs : /\ trained[m] > 0 => trained'[m] > 0
                      /\ m \in cycle[k].batch => trained'[m] > 0
  BY <1>1, <1>2 DEF Deploy, TrainedCap
<1>4. /\ cycle'[k].pc = "advance" /\ cycle'[k].mark = cycle[k].mark
      /\ cycle'[k].batch = cycle[k].batch
      /\ \A j \in Cycles : j # k => cycle'[j] = cycle[j]
  BY <1>1, <1>2 DEF CycleStates
<1>5. \A j \in Cycles : MissedOK(cycle'[j], created, overtaken')
  <2>1. MissedOK(cycle'[k], created, overtaken')
    BY <1>1, <1>4 DEF RowInv, MissedOK, Fetched
  <2>. QED  BY <1>1, <1>4, <2>1 DEF RowInv
<1>6. Unmarked(cycle') \subseteq Unmarked(cycle) \cup cycle[k].batch
  BY <1>4 DEF Unmarked
<1>7. Unmarked(cycle) \subseteq Msgs
  BY RowTypes DEF Unmarked
<1>8. \A m \in Unmarked(cycle') : trained'[m] > 0
  BY <1>2, <1>3, <1>6, <1>7 DEF RowInv
<1>. QED  BY <1>1, <1>3, <1>5, <1>8, RowsStay DEF RowInv

\* A cycle that leaves the lock has nothing left to miss.
LEMMA NobodyInside ==
    ASSUME CycleInv, NEW k \in Cycles, cycle[k].pc = "advance", End(k)
    PROVE  \A j \in Cycles : cycle'[j].pc \in Outside
<1>1. /\ cycle \in [Cycles -> CycleStates] /\ cycle' = [cycle EXCEPT ![k] = NoCycle]
      /\ NoCycle.pc \in Outside /\ lock = {k}
  BY DEF CycleInv, BaseTypes, Serialised, Outside, End, NoCycle
<1>. QED  BY <1>1 DEF CycleInv, Serialised

\* The new mark is that of the newest row of the batch: the messages up to it
\* are in the batch, below the old mark, or were missed.
LEMMA AdvanceKeepsRows ==
    ASSUME CycleInv, RowInv, NEW k \in Cycles, Advance(k)
    PROVE  RowInv'
<1>1. /\ cycle[k].pc = "advance" /\ End(k)
      /\ UNCHANGED <<created, committed, trained, overtaken>>
  BY DEF Advance
<1>2. /\ \A m \in Msgs : created[m] \in Nat
      /\ watermark \in Nat /\ cycle[k].batch \subseteq Msgs /\ cycle[k].mark = watermark
  BY <1>1, RowTypes DEF CycleOK, Fetched
<1>3. PICK b \in cycle[k].batch : watermark' = created[b]
  BY AdvanceFacts
<1>4. \A j \in Cycles : cycle'[j].pc \in Outside
  BY <1>1, NobodyInside
<1>5. Unmarked(cycle') = {} /\ \A j \in Cycles : MissedOK(cycle'[j], created', overtaken')
  BY <1>4 DEF Unmarked, Outside, MissedOK, Fetched
<1>6. ASSUME NEW m \in Msgs, 0 < created[m], created[m] <= watermark'
      PROVE  trained[m] > 0 \/ m \in overtaken
  <2>1. CASE created[m] <= watermark
    BY <1>6, <2>1 DEF RowInv, PassedOK
  <2>2. CASE m \in cycle[k].batch
    <3>1. m \in Unmarked(cycle)
      BY <1>1, <2>2 DEF Unmarked
    <3>. QED  BY <3>1 DEF RowInv
  <2>3. CASE ~(created[m] <= watermark) /\ m \notin cycle[k].batch
    <3>1. created[m] # created[b]
      BY <1>2, <1>3, <1>6, <2>3 DEF RowInv, Stamped
    <3>2. cycle[k].mark < created[m] /\ created[m] < created[b]
      BY <1>2, <1>3, <1>6, <2>3, <3>1
    <3>. QED  BY <1>1, <2>3, <3>2 DEF RowInv, MissedOK, Fetched
  <2>. QED  BY <2>1, <2>2, <2>3
<1>7. \A m \in Msgs : PassedOK(trained'[m], m, created', watermark', overtaken')
  BY <1>1, <1>6 DEF PassedOK
<1>8. Stamped'
  BY <1>1, <1>2, <1>3 DEF RowInv, Stamped, Clock
<1>. QED  BY <1>1, <1>5, <1>7, <1>8 DEF RowInv

\* A deployment whose mark is not written leaves the rows as they are.
LEMMA TearsKeepRows ==
    ASSUME CycleInv, RowInv, Restart \/ \E k \in Cycles : AdvanceRaises(k)
    PROVE  RowInv'
<1>1. CASE Restart
  <2>1. cycle' = [k \in Cycles |-> NoCycle]
        /\ UNCHANGED <<created, watermark, trained, overtaken>>
    BY <1>1 DEF Restart
  <2>2. Unmarked(cycle') = {} /\ \A k \in Cycles : MissedOK(cycle'[k], created, overtaken')
    BY <2>1 DEF Unmarked, MissedOK, NoCycle, Fetched
  <2>. QED  BY <2>1, <2>2, RowsStay DEF RowInv
<1>2. ASSUME NEW k \in Cycles, AdvanceRaises(k)
      PROVE  RowInv'
  <2>1. /\ cycle[k].pc = "advance" /\ End(k)
        /\ UNCHANGED <<created, watermark, trained, overtaken>>
    BY <1>2 DEF AdvanceRaises, bufferVars
  <2>2. \A j \in Cycles : cycle'[j].pc \in Outside
    BY <2>1, NobodyInside
  <2>3. Unmarked(cycle') = {} /\ \A j \in Cycles : MissedOK(cycle'[j], created, overtaken')
    BY <2>2 DEF Unmarked, Outside, MissedOK, Fetched
  <2>. QED  BY <2>1, <2>3, RowsStay DEF RowInv
<1>. QED  BY <1>1, <1>2

\* Every step preserves the second layer.
LEMMA NextRowInv == CycleInv /\ RowInv /\ [Next]_vars => RowInv'
<1>. SUFFICES ASSUME CycleInv, RowInv, [Next]_vars PROVE RowInv'
  OBVIOUS
<1>1. CASE UNCHANGED <<created, watermark, cycle, trained, overtaken>>
  BY <1>1, RowsStay DEF RowInv
<1>2. ASSUME NEW c \in Callers, SeedCounter(c)
      PROVE  UNCHANGED <<created, watermark, cycle, trained, overtaken>>
  BY <1>2 DEF SeedCounter, CountRows, Seed, learnerVars
<1>3. CASE UNCHANGED vars
  BY <1>1, <1>3 DEF vars
<1>. QED  BY <1>1, <1>2, <1>3, CreateKeepsRows, LogKeepsRows, PlainStepKeepsRows,
             DeployKeepsRows, AdvanceKeepsRows, TearsKeepRows DEF Next, PlainStep

\* The second layer holds throughout.
LEMMA AlwaysRowInv == Spec => []RowInv
BY InitRowInv, NextRowInv, AlwaysCycleInv, PTL DEF Spec

\* In whatever order rows are committed, and whatever overlaps, is skipped,
\* rejected, torn or restarted, a row that falls below the watermark without
\* having been trained on (run_cycle, fetch) was overtaken: its log() was still
\* under way when a fetch returned a newer row.
THEOREM NoRowIsLost == Spec => []SkippedOnlyIfOvertaken
<1>1. ASSUME CycleInv, RowInv
      PROVE  SkippedOnlyIfOvertaken
  <2>1. SUFFICES ASSUME NEW m \in committed, created[m] <= watermark, trained[m] = 0
                 PROVE  m \in overtaken
    BY DEF SkippedOnlyIfOvertaken
  <2>2. m \in Msgs /\ created[m] > 0
    BY <1>1, RowTypes
  <2>. QED  BY <1>1, <2>1, <2>2 DEF RowInv, PassedOK
<1>. QED  BY <1>1, AlwaysCycleInv, AlwaysRowInv, PTL

-----------------------------------------------------------------------------
(* The counter                                                             *)

\* What SeedInv says of the data, for the proofs below.
LEMMA SeedFacts ==
    ASSUME SeedTypes
    PROVE  /\ Rows \in Nat /\ Msgs \subseteq Callers /\ Cycles \subseteq Callers
           /\ Msgs \cap Cycles = {}
           /\ Done \subseteq Msgs /\ IsFiniteSet(Done) /\ Cardinality(Done) \in 0 .. Rows
           /\ Pending \subseteq Msgs /\ IsFiniteSet(Pending) /\ Cardinality(Pending) \in Nat
<1>1. Done \subseteq Msgs /\ Pending \subseteq Msgs
  BY DEF SeedTypes, Done, Pending, Logged
<1>. QED  BY <1>1, MessageSets, CallersAssumption DEF Callers

\* Nothing has been logged or counted.
LEMMA InitSeedInv == Init => SeedInv
<1>. SUFFICES ASSUME Init PROVE SeedInv
  OBVIOUS
<1>1. /\ log = [m \in Msgs |-> "new"] /\ ensure = [c \in Callers |-> "out"]
      /\ seen = [c \in Callers |-> 0] /\ committed = {} /\ spent = {} /\ seeded = {}
      /\ count = 0 /\ firedAt = NotSeeded
  BY DEF Init, BufferInit
<1>2. Rows \in Nat /\ Done = {} /\ Logged \ (spent \cup seeded) = {} /\ Cardinality({}) = 0
  BY <1>1, MessageSets, FS_EmptySet DEF Done, Logged
<1>3. SeedTypes
  BY <1>1, <1>2 DEF SeedTypes, LogPC
<1>4. MissedOnlyBySeeding
  BY <1>2, ThresholdAssumption DEF MissedOnlyBySeeding
<1>. QED  BY <1>1, <1>3, <1>4 DEF SeedInv, SeededFirst, Counted

\* Steps that neither seed nor count nor complete a log().
LEMMA CounterStays ==
    ASSUME SeedInv, UNCHANGED <<count, firedAt, spent, seeded>>,
           log' \in [Msgs -> LogPC], ensure' \in [Callers -> {"out", "counting", "counted"}],
           seen' \in [Callers -> 0 .. Rows], committed' \subseteq Msgs,
           Done' = Done, Logged' = Logged, SeededFirst'
    PROVE  SeedInv'
<1>1. Pending' = Pending
  BY DEF Pending
<1>. QED  BY <1>1 DEF SeedInv, SeedTypes, Counted, MissedOnlyBySeeding

\* A message is created, a caller enters _ensure_ready, reads the number of
\* rows or raises, a row is committed.
LEMMA LogKeepsCounter ==
    ASSUME SeedInv, NEW m \in Msgs, NewMessage(m) \/ LogBegin(m) \/ Commit(m) \/ LogFails(m)
    PROVE  SeedInv'
<1>1. /\ Rows \in Nat /\ Msgs \subseteq Callers /\ log \in [Msgs -> LogPC]
      /\ ensure \in [Callers -> {"out", "counting", "counted"}]
      /\ seen \in [Callers -> 0 .. Rows] /\ committed \subseteq Msgs
      /\ SeededFirst
  BY SeedFacts DEF SeedInv, SeedTypes
<1>2. PICK v \in LogPC \ {"done"}, e \in {"out", "counting", "counted"} :
         /\ log' = [log EXCEPT ![m] = v] /\ log[m] # "done"
         /\ ensure' = [ensure EXCEPT ![m] = e]
         /\ v = "storing" /\ e = "out" => firedAt # NotSeeded
         /\ v = "stored" => log[m] = "storing" /\ ensure[m] = "out"
         /\ committed' = committed \/ (v = "stored" /\ committed' = committed \cup {m})
  <2>1. CASE NewMessage(m)
    BY <1>1, <2>1 DEF NewMessage, Create, LogPC
  <2>2. CASE LogBegin(m)
    BY <1>1, <2>2 DEF LogBegin, EnsureReady, LogPC
  <2>3. CASE Commit(m)
    BY <1>1, <2>3 DEF Commit, LogPC
  <2>4. CASE LogFails(m)
    BY <1>1, <2>4 DEF LogFails, LogPC
  <2>. QED  BY <2>1, <2>2, <2>3, <2>4
<1>3. UNCHANGED <<count, firedAt, spent, seeded>> /\ seen' \in [Callers -> 0 .. Rows]
  BY <1>1 DEF NewMessage, Create, LogBegin, Commit, LogFails
<1>4. /\ log' \in [Msgs -> LogPC] /\ log'[m] = v
      /\ \A n \in Msgs \ {m} : log'[n] = log[n]
      /\ ensure' \in [Callers -> {"out", "counting", "counted"}] /\ ensure'[m] = e
      /\ \A n \in Msgs \ {m} : ensure'[n] = ensure[n]
      /\ committed' \subseteq Msgs
  BY <1>1, <1>2
<1>5. Done' = Done /\ Logged' = Logged
  <2>1. \A n \in Msgs : log'[n] = "done" <=> log[n] = "done"
    BY <1>2, <1>4
  <2>2. \A n \in Msgs : log[n] = "done" => (n \in committed' <=> n \in committed)
    BY <1>2
  <2>. QED  BY <1>1, <1>4, <2>1, <2>2 DEF Done, Logged
<1>6. SeededFirst'
  <2>1. SUFFICES ASSUME NEW n \in Msgs,
                        log'[n] = "stored" \/ (log'[n] = "storing" /\ ensure'[n] = "out")
                 PROVE  firedAt # NotSeeded
    BY <1>3 DEF SeededFirst
  <2>2. CASE n = m
    BY <1>1, <1>2, <1>4, <2>1, <2>2 DEF SeededFirst
  <2>3. CASE n # m
    BY <1>1, <1>4, <2>1, <2>3 DEF SeededFirst
  <2>. QED  BY <2>2, <2>3
<1>. QED  BY <1>3, <1>4, <1>5, <1>6, CounterStays

\* A caller's own place in _ensure_ready changes, without leaving it for a log().
LEMMA CallerMoves ==
    ASSUME SeedInv, NEW c \in Callers, NEW e \in {"out", "counting", "counted"},
           ensure' = [ensure EXCEPT ![c] = e], c \in Msgs => e # "out",
           seen' \in [Callers -> 0 .. Rows],
           UNCHANGED <<log, committed, count, firedAt, spent, seeded>>
    PROVE  SeedInv'
<1>1. /\ Msgs \subseteq Callers /\ log \in [Msgs -> LogPC] /\ committed \subseteq Msgs
      /\ ensure \in [Callers -> {"out", "counting", "counted"}] /\ SeededFirst
  BY SeedFacts DEF SeedInv, SeedTypes
<1>2. /\ ensure' \in [Callers -> {"out", "counting", "counted"}]
      /\ \A m \in Msgs : ensure'[m] = "out" => ensure[m] = "out"
  BY <1>1
<1>3. SeededFirst' /\ Done' = Done /\ Logged' = Logged
  BY <1>1, <1>2 DEF SeededFirst, Done, Logged
<1>. QED  BY <1>1, <1>2, <1>3, CounterStays

\* The number of rows is read, a cycle calls the buffer, or it raises there.
LEMMA CallersKeepCounter ==
    ASSUME SeedInv,
           \/ \E c \in Callers : CountRows(c)
           \/ \E k \in Cycles : Acquire(k) \/ Raises(k)
    PROVE  SeedInv'
<1>1. /\ Rows \in Nat /\ Cycles \subseteq Callers /\ Msgs \cap Cycles = {}
      /\ seen \in [Callers -> 0 .. Rows] /\ Cardinality(committed) \in 0 .. Rows
  BY SeedFacts, MessageSets DEF SeedInv, SeedTypes
<1>2. ASSUME NEW c \in Callers, CountRows(c) PROVE SeedInv'
  BY <1>1, <1>2, CallerMoves DEF CountRows
<1>3. ASSUME NEW k \in Cycles, Acquire(k) \/ Raises(k) PROVE SeedInv'
  <2>1. PICK e \in {"out", "counting"} : ensure' = [ensure EXCEPT ![k] = e]
    BY <1>3 DEF Acquire, EnsureReady, Raises
  <2>2. /\ seen' \in [Callers -> 0 .. Rows]
        /\ UNCHANGED <<log, committed, count, firedAt, spent, seeded>>
    BY <1>1, <1>3 DEF Acquire, Raises
  <2>. QED  BY <1>1, <2>1, <2>2, CallerMoves
<1>. QED  BY <1>2, <1>3

\* The seeding forgets every row there is: none is pending afterwards.
LEMMA SeedKeepsCounter == ASSUME SeedInv, NEW c \in Callers, Seed(c) PROVE SeedInv'
<1>1. /\ ensure' = [ensure EXCEPT ![c] = "out"] /\ seen' = [seen EXCEPT ![c] = 0]
      /\ count' = seen[c] /\ firedAt' = seen[c] /\ seeded' = committed
      /\ UNCHANGED <<log, committed, spent>>
  BY DEF Seed
<1>2. /\ Rows \in Nat /\ Cardinality(Done) \in 0 .. Rows /\ seen \in [Callers -> 0 .. Rows]
      /\ SeedTypes
  BY SeedFacts DEF SeedInv, SeedTypes
<1>3. Done' = Done /\ Logged' \ (spent' \cup seeded') = {}
  BY <1>1 DEF Done, Logged
<1>4. Cardinality({}) = 0
  BY FS_EmptySet
<1>5. SeedTypes'
  BY <1>1, <1>2, <1>3 DEF SeedTypes
<1>6. firedAt' # NotSeeded /\ count' - firedAt' = 0
  BY <1>1, <1>2 DEF NotSeeded
<1>7. Counted'
  BY <1>3, <1>4, <1>6, ThresholdAssumption DEF Counted, Pending
<1>8. MissedOnlyBySeeding'
  BY <1>3, <1>4, ThresholdAssumption DEF MissedOnlyBySeeding
<1>. QED  BY <1>5, <1>6, <1>7, <1>8 DEF SeedInv, SeededFirst

\* A log() that ends is counted, and fires if it is the one to cross the bar.
LEMMA LogEndCounts ==
    ASSUME SeedInv, NEW m \in Msgs, LogEnd(m, Trigger, UNCHANGED cycle)
    PROVE  SeedInv'
<1>1. /\ log[m] = "stored" /\ count' = count + 1 /\ log' = [log EXCEPT ![m] = "done"]
      /\ UNCHANGED <<ensure, seen, committed, seeded>>
      /\ \/ firedAt' = count + 1 /\ spent' = committed
         \/ ~Crossed(count + 1) /\ UNCHANGED <<firedAt, spent>>
  BY DEF LogEnd
<1>2. /\ Rows \in Nat /\ SeedTypes /\ log \in [Msgs -> LogPC]
      /\ Done \subseteq Msgs /\ IsFiniteSet(Done) /\ Cardinality(Done) \in 0 .. Rows
      /\ IsFiniteSet(Pending) /\ Cardinality(Pending) \in Nat
  BY SeedFacts DEF SeedInv, SeedTypes
<1>3. /\ firedAt \in 0 .. count /\ count \in Nat
      /\ Cardinality(Pending) <= count - firedAt /\ count - firedAt < Threshold
  BY <1>1, <1>2 DEF SeedInv, SeedTypes, SeededFirst, Counted
<1>4. Cardinality(Done)' = Cardinality(Done) + 1
  <2>1. Done' = Done \cup {m} /\ m \notin Done
    BY <1>1, <1>2 DEF Done
  <2>2. Cardinality(Done \cup {m}) = Cardinality(Done) + 1
    BY <1>2, <2>1, FS_AddElement
  <2>. QED  BY <2>1, <2>2
<1>5. SeedTypes'
  <2>1. firedAt' \in 0 .. count'
    BY <1>1, <1>3
  <2>. QED  BY <1>1, <1>2, <1>3, <1>4, <2>1 DEF SeedTypes, LogPC
<1>6. SeededFirst'
  <2>1. firedAt' # NotSeeded
    BY <1>1, <1>3 DEF NotSeeded
  <2>. QED  BY <2>1 DEF SeededFirst
<1>7. Cardinality(Pending') <= count' - firedAt' /\ count' - firedAt' < Threshold
  <2>1. CASE firedAt' = count + 1 /\ spent' = committed
    <3>1. Pending' = {}
      BY <1>1, <2>1 DEF Pending, Logged
    <3>. QED  BY <1>1, <1>3, <2>1, <3>1, FS_EmptySet, ThresholdAssumption
  <2>2. CASE ~Crossed(count + 1) /\ UNCHANGED <<firedAt, spent>>
    <3>1. Pending' \subseteq Pending \cup {m}
      BY <1>1, <1>2, <2>2 DEF Pending, Logged
    <3>2. IsFiniteSet(Pending \cup {m}) /\ Cardinality(Pending \cup {m}) <= Cardinality(Pending) + 1
          /\ Cardinality(Pending \cup {m}) \in Nat
      <4>1. IsFiniteSet(Pending \cup {m})
        BY <1>2, FS_AddElement
      <4>2. Cardinality(Pending \cup {m}) \in {Cardinality(Pending), Cardinality(Pending) + 1}
        <5>1. CASE m \in Pending
          <6>1. Pending \cup {m} = Pending
            BY <5>1
          <6>. QED  BY <6>1
        <5>2. CASE m \notin Pending
          BY <1>2, <5>2, FS_AddElement
        <5>. QED  BY <5>1, <5>2
      <4>. QED  BY <1>2, <4>1, <4>2
    <3>3. Cardinality(Pending') <= Cardinality(Pending \cup {m}) /\ Cardinality(Pending') \in Nat
      BY <3>1, <3>2, FS_Subset, FS_CardinalityType
    <3>. QED  BY <1>1, <1>2, <1>3, <2>2, <3>2, <3>3, ThresholdAssumption DEF Crossed
  <2>. QED  BY <1>1, <2>1, <2>2
<1>8. Counted'
  BY <1>7 DEF Counted
<1>9. MissedOnlyBySeeding'
  <2>1. Pending' \subseteq Msgs
    BY <1>5 DEF SeedTypes, Pending, Logged
  <2>2. Cardinality(Pending') \in Nat
    BY <2>1, MessageSets
  <2>3. count' - firedAt' \in Int
    BY <1>1, <1>3
  <2>. QED  BY <1>7, <2>2, <2>3, ThresholdAssumption DEF MissedOnlyBySeeding, Pending
<1>. QED  BY <1>5, <1>6, <1>8, <1>9 DEF SeedInv

\* After a restart the counter is to be seeded again, and no log() is under way.
LEMMA RestartUnseeds == ASSUME SeedInv, Restart PROVE SeedInv'
<1>1. /\ log' = [m \in Msgs |-> IF log[m] \in {"created", "storing", "stored"}
                                THEN "failed" ELSE log[m]]
      /\ ensure' = [c \in Callers |-> "out"] /\ seen' = [c \in Callers |-> 0]
      /\ count' = 0 /\ firedAt' = NotSeeded
      /\ UNCHANGED <<committed, spent, seeded>>
  BY DEF Restart
<1>2. SeedTypes /\ Rows \in Nat /\ Cardinality(Done) \in 0 .. Rows
  BY SeedFacts DEF SeedInv
<1>3. Done' = Done /\ Logged' = Logged
  BY <1>1, <1>2 DEF SeedTypes, Done, Logged
<1>4. SeedTypes'
  BY <1>1, <1>2, <1>3 DEF SeedTypes, LogPC
<1>5. SeededFirst' /\ Counted'
  BY <1>1, <1>2 DEF SeedTypes, LogPC, SeededFirst, Counted
<1>6. MissedOnlyBySeeding'
  BY <1>1, <1>3 DEF SeedInv, MissedOnlyBySeeding
<1>. QED  BY <1>4, <1>5, <1>6 DEF SeedInv

\* Every step preserves the third layer.
LEMMA NextSeedInv == SeedInv /\ [Next]_vars => SeedInv'
<1>. SUFFICES ASSUME SeedInv, [Next]_vars PROVE SeedInv'
  OBVIOUS
<1>1. CASE UNCHANGED <<log, ensure, seen, committed, count, firedAt, spent, seeded>>
  BY <1>1 DEF SeedInv, SeedTypes, SeededFirst, Counted, MissedOnlyBySeeding, Pending, Logged, Done
<1>2. ASSUME NEW m \in Msgs, NewMessage(m) \/ Log(m)
      PROVE  SeedInv'
  BY <1>2, LogKeepsCounter, LogEndCounts DEF Log
<1>3. ASSUME NEW c \in Callers, SeedCounter(c)
      PROVE  SeedInv'
  BY <1>3, CallersKeepCounter, SeedKeepsCounter DEF SeedCounter
<1>4. ASSUME NEW k \in Cycles, Acquire(k) \/ Raises(k)
      PROVE  SeedInv'
  BY <1>4, CallersKeepCounter
<1>5. ASSUME NEW k \in Cycles,
             \/ RunCycle(k) \/ ReadMark(k) \/ Fetch(k) \/ Skip(k) \/ Curate(k) \/ Train(k)
             \/ ShadowLoad(k) \/ LoadLive(k) \/ Accept(k) \/ Reject(k) \/ Discard(k)
             \/ Advance(k) \/ AdvanceRaises(k)
      PROVE  SeedInv'
  BY <1>1, <1>5 DEF RunCycle, ReadMark, Fetch, Skip, Curate, Train, ShadowLoad, LoadLive, Accept,
                    Reject, Discard, Advance, AdvanceRaises, bufferVars
<1>6. CASE UNCHANGED vars
  BY <1>1, <1>6 DEF vars
<1>. QED  BY <1>2, <1>3, <1>4, <1>5, <1>6, RestartUnseeds DEF Next

\* The third layer holds of every reachable state.
LEMMA AlwaysSeedInv == Spec => []SeedInv
BY InitSeedInv, NextSeedInv, PTL DEF Spec

\* However log() calls overlap each other, the seeding of the counter, failures
\* and restarts: of the rows that were not in the table when the counter was
\* last seeded, fewer than a threshold have been logged since on_threshold was
\* last called (log, _ensure_ready).
THEOREM ThresholdIsNotMissed == Spec => []MissedOnlyBySeeding
<1>1. SeedInv => MissedOnlyBySeeding
  BY DEF SeedInv
<1>. QED  BY <1>1, AlwaysSeedInv, PTL

\* Every variable keeps its type.  The counter may exceed the number of rows,
\* but not by more than the log() calls that have ended: a row is counted at
\* most by the seeding and by its own log().
THEOREM LearningTypeCorrect == Spec => []TypeOK
<1>1. ASSUME CycleInv, RowInv, SeedInv
      PROVE  TypeOK
  <2>1. BaseTypes /\ SeedTypes /\ overtaken \subseteq Msgs
    BY <1>1 DEF CycleInv, SeedInv, RowInv
  <2>2. Cardinality(Done) \in 0 .. Rows /\ Rows \in Nat
    BY <2>1, SeedFacts
  <2>3. count \in 0 .. 2 * Rows /\ firedAt \in NotSeeded .. 2 * Rows
    BY <2>1, <2>2 DEF SeedTypes, NotSeeded
  <2>4. BufferTypeOK
    BY <2>1, <2>3 DEF BufferTypeOK, BaseTypes, SeedTypes, Rows
  <2>. QED  BY <2>1, <2>4 DEF TypeOK, BaseTypes, CycleStates, Rows
<1>. QED  BY <1>1, AlwaysSeedInv, AlwaysRowInv, AlwaysCycleInv, PTL
=============================================================================
