------------------------- MODULE InteractionBuffer --------------------------
(***************************************************************************)
(* InteractionBuffer (memory/buffer.py): the log of every message, the     *)
(* training threshold counted over it, and the persisted watermark.        *)
(*                                                                         *)
(* One log() task per message.  It suspends while it seeds the counter,    *)
(* while it stores the row, and between the commit and its own next step.  *)
(* The learner's cycles call the buffer too, and may be the ones to seed.  *)
(***************************************************************************)
EXTENDS Integers, FiniteSets, FiniteSetsExt

CONSTANTS
    Msgs,        \* the messages that may be logged
    Cycles,      \* the run_cycle tasks that may exist at once
    Threshold,   \* buffer.threshold
    SeedRaces    \* FALSE: no other call overlaps the seeding of the counter

ASSUME CallersAssumption == IsFiniteSet(Msgs) /\ IsFiniteSet(Cycles) /\ Msgs \cap Cycles = {}
ASSUME ThresholdAssumption == Threshold \in Nat \ {0}
ASSUME TrafficAssumption == SeedRaces \in BOOLEAN

VARIABLES
    created,    \* created_at of each message, 0 before it exists
    log,        \* where each message's log() is suspended
    ensure,     \* where each caller is in _ensure_ready
    seen,       \* the COUNT(*) a seeding caller has read
    committed,  \* the rows of the interaction table
    watermark,  \* training_state: 0 before the first successful cycle
    count,      \* _approx_count
    firedAt,    \* _threshold_fired_at, NotSeeded before seeding
    spent,      \* history: the rows of the table when on_threshold was last called
    seeded      \* history: the rows of the table when the counter was last seeded

bufferVars == <<created, log, ensure, seen, committed, watermark, count, firedAt,
                spent, seeded>>

NotSeeded == -1
\* OmniMessage.created_at is taken from a clock that never shows a time twice.
Clock == Cardinality({m \in Msgs : created[m] # 0})
LogPC == {"new", "created", "storing", "stored", "done", "failed"}
Logging == {m \in Msgs : log[m] \in {"storing", "stored"}}
Callers == Msgs \cup Cycles

BufferInit ==
    /\ created = [m \in Msgs |-> 0]
    /\ log = [m \in Msgs |-> "new"]
    /\ ensure = [c \in Callers |-> "out"]
    /\ seen = [c \in Callers |-> 0]
    /\ committed = {}
    /\ watermark = 0
    /\ count = 0
    /\ firedAt = NotSeeded
    /\ spent = {}
    /\ seeded = {}

\* _ensure_ready begins: it asks for the number of rows unless the counter
\* has been seeded.  No lock is held here: the one above guards the engine only.
EnsureReady(c) ==
    /\ firedAt # NotSeeded \/ SeedRaces \/ (Logging = {} /\ \A d \in Callers : ensure[d] = "out")
    /\ ensure' = [ensure EXCEPT ![c] = IF firedAt = NotSeeded THEN "counting" ELSE "out"]

\* The database counts the rows; the caller resumes later, with that number.
CountRows(c) ==
    /\ ensure[c] = "counting"
    /\ seen' = [seen EXCEPT ![c] = Cardinality(committed)]
    /\ ensure' = [ensure EXCEPT ![c] = "counted"]
    /\ UNCHANGED <<created, log, committed, watermark, count, firedAt, spent, seeded>>

Seed(c) ==
    /\ ensure[c] = "counted"
    /\ count' = seen[c]
    /\ firedAt' = seen[c]
    /\ seen' = [seen EXCEPT ![c] = 0]
    /\ ensure' = [ensure EXCEPT ![c] = "out"]
    /\ seeded' = committed
    /\ UNCHANGED <<created, log, committed, watermark, spent>>

\* An OmniMessage is constructed: it takes its timestamp now.
Create(m) ==
    /\ log[m] = "new"
    /\ created' = [created EXCEPT ![m] = Clock + 1]
    /\ log' = [log EXCEPT ![m] = "created"]
    /\ UNCHANGED <<ensure, seen, committed, watermark, count, firedAt, spent, seeded>>

LogBegin(m) ==
    /\ log[m] = "created"
    /\ EnsureReady(m)
    /\ log' = [log EXCEPT ![m] = "storing"]
    /\ UNCHANGED <<created, seen, committed, watermark, count, firedAt, spent, seeded>>

\* session.merge and commit: the row becomes visible, whatever older messages
\* are still on their way.
Commit(m) ==
    /\ log[m] = "storing" /\ ensure[m] = "out"
    /\ committed' = committed \cup {m}
    /\ log' = [log EXCEPT ![m] = "stored"]
    /\ UNCHANGED <<created, ensure, seen, watermark, count, firedAt, spent, seeded>>

\* log() raises or is cancelled: the database refused the count or the row, or
\* the commit took effect and the row is there, uncounted.
LogFails(m) ==
    /\ log[m] \in {"storing", "stored"}
    /\ log' = [log EXCEPT ![m] = "failed"]
    /\ ensure' = [ensure EXCEPT ![m] = "out"]
    /\ seen' = [seen EXCEPT ![m] = 0]
    /\ UNCHANGED <<created, committed, watermark, count, firedAt, spent, seeded>>

\* Mutant of Crossed: the bar has to be exceeded.
CrossedLate(n) == n - firedAt > Threshold

\* The threshold test after the counter has been raised to n.
Crossed(n) == n - firedAt >= Threshold

\* The end of log(): the counter is raised and on_threshold called once the
\* bar is crossed.  `fire` is what on_threshold does to the learner.
LogEnd(m, fire, quiet) ==
    /\ log[m] = "stored"
    /\ count' = count + 1
    /\ log' = [log EXCEPT ![m] = "done"]
    /\ IF Crossed(count + 1)
         THEN firedAt' = count + 1 /\ spent' = committed /\ fire
         ELSE UNCHANGED <<firedAt, spent>> /\ quiet
    /\ UNCHANGED <<created, ensure, seen, committed, watermark, seeded>>

\* Mutant of RowsSince: rows at the watermark are read again.
RowsSinceInclusive(mark) == {m \in committed : created[m] >= mark}

\* fetch(since=mark): rows created strictly after the mark.
RowsSince(mark) == {m \in committed : created[m] > mark}

\* Mutant of MaxCreatedAt: the time of the call instead of the newest row.
MaxCreatedAtNow(rows) == Clock

\* ContinuousLearner._max_created_at
MaxCreatedAt(rows) == Max({created[m] : m \in rows})

\* A row that is in the table when the counter is seeded may be counted again at
\* the end of its log().
BufferTypeOK ==
    /\ created \in [Msgs -> 0 .. Cardinality(Msgs)]
    /\ log \in [Msgs -> LogPC]
    /\ ensure \in [Callers -> {"out", "counting", "counted"}]
    /\ seen \in [Callers -> 0 .. Cardinality(Msgs)]
    /\ committed \subseteq Msgs
    /\ watermark \in 0 .. Cardinality(Msgs)
    /\ count \in 0 .. 2 * Cardinality(Msgs)
    /\ firedAt \in NotSeeded .. 2 * Cardinality(Msgs)
    /\ spent \subseteq Msgs
    /\ seeded \subseteq Msgs
=============================================================================
