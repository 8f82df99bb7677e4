------------------------ MODULE ContinuousLearning --------------------------
(***************************************************************************)
(* ContinuousLearner.run_cycle (memory/learning.py) over the interaction   *)
(* buffer: read the watermark, fetch what is newer, curate, train, score   *)
(* the candidate behind the live adapter, deploy or discard it, and move   *)
(* the watermark.  Every step here ends at an await of the code.           *)
(***************************************************************************)
EXTENDS InteractionBuffer

CONSTANTS
    Crashes,  \* the process may be restarted
    DbFaults  \* the watermark write may fail

ASSUME FaultsAssumption == Crashes \in BOOLEAN /\ DbFaults \in BOOLEAN

VARIABLES
    cycle,    \* each cycle: where it is suspended, its watermark, its batch
    lock,     \* the learner's asyncio.Lock: the cycles inside it
    trained,  \* history: how many deployed adapters each row went into
    torn,     \* history: rows whose deployed cycle ended before its watermark
    overtaken \* history: messages on their way when a fetch returned a newer row

vars == <<created, log, ensure, seen, committed, watermark, count, firedAt, spent, seeded,
          cycle, lock, trained, torn, overtaken>>

learnerVars == <<cycle, lock, trained, torn, overtaken>>

\* The history counts one, or more than one, adapter.
TrainedCap == 2

CyclePC == {"idle", "queued", "mark", "fetch", "curate", "train", "load",
            "score", "discard", "advance"}
NoCycle == [pc |-> "idle", mark |-> 0, batch |-> {}]

Init ==
    /\ BufferInit
    /\ cycle = [k \in Cycles |-> NoCycle]
    /\ lock = {}
    /\ trained = [m \in Msgs |-> 0]
    /\ torn = {}
    /\ overtaken = {}

-----------------------------------------------------------------------------
(* The buffer's steps; on_threshold is learner.trigger, which creates a     *)
(* run_cycle task.                                                          *)

Idlers == {k \in Cycles : cycle[k].pc = "idle"}

Trigger ==
    IF Idlers = {} THEN UNCHANGED cycle
    ELSE \E k \in Idlers : cycle' = [cycle EXCEPT ![k].pc = "queued"]

NewMessage(m) == Create(m) /\ UNCHANGED learnerVars

Log(m) ==
    \/ (LogBegin(m) \/ Commit(m) \/ LogFails(m)) /\ UNCHANGED learnerVars
    \/ LogEnd(m, Trigger, UNCHANGED cycle) /\ UNCHANGED <<lock, trained, torn, overtaken>>

SeedCounter(c) == (CountRows(c) \/ Seed(c)) /\ UNCHANGED learnerVars

-----------------------------------------------------------------------------
(* run_cycle                                                               *)

Goto(k, pc) == cycle' = [cycle EXCEPT ![k].pc = pc]

\* Leaving `async with self._lock`.
End(k) == cycle' = [cycle EXCEPT ![k] = NoCycle] /\ lock' = lock \ {k}

\* The adapter trained on k's batch goes live.
Deploy(k) ==
    trained' = [m \in Msgs |-> IF m \in cycle[k].batch /\ trained[m] < TrainedCap
                                 THEN trained[m] + 1 ELSE trained[m]]

\* A cycle asked for by an administrator.
RunCycle(k) ==
    /\ cycle[k].pc = "idle"
    /\ Goto(k, "queued")
    /\ UNCHANGED <<bufferVars, lock, trained, torn, overtaken>>

\* Mutant of Acquire: cycles are not serialized.
AcquireUnlocked(k) ==
    /\ cycle[k].pc = "queued"
    /\ lock' = lock \cup {k}
    /\ EnsureReady(k)
    /\ Goto(k, "mark")
    /\ UNCHANGED <<created, log, seen, committed, watermark, count, firedAt,
                   spent, seeded, trained, torn, overtaken>>

\* The lock is free and get_watermark begins, with _ensure_ready.
Acquire(k) ==
    /\ cycle[k].pc = "queued"
    /\ lock = {}
    /\ lock' = {k}
    /\ EnsureReady(k)
    /\ Goto(k, "mark")
    /\ UNCHANGED <<created, log, seen, committed, watermark, count, firedAt,
                   spent, seeded, trained, torn, overtaken>>

ReadMark(k) ==
    /\ cycle[k].pc = "mark" /\ ensure[k] = "out"
    /\ cycle' = [cycle EXCEPT ![k].pc = "fetch", ![k].mark = watermark]
    /\ UNCHANGED <<bufferVars, lock, trained, torn, overtaken>>

\* m's timestamp is the older one.
Older(m, n) == 0 < created[m] /\ created[m] < created[n]

Fetch(k) ==
    /\ cycle[k].pc = "fetch"
    /\ cycle' = [cycle EXCEPT ![k].pc = "curate", ![k].batch = RowsSince(cycle[k].mark)]
    /\ overtaken' = overtaken \cup
          {m \in Msgs \ committed : \E n \in RowsSince(cycle[k].mark) : Older(m, n)}
    /\ UNCHANGED <<bufferVars, lock, trained, torn>>

\* The curator leaves fewer than min_pairs pairs: the cycle is skipped.
Skip(k) ==
    /\ cycle[k].pc = "curate"
    /\ End(k)
    /\ UNCHANGED <<bufferVars, trained, torn, overtaken>>

\* Enough pairs, so the batch is not empty; rehearsal data is mixed in.
Curate(k) ==
    /\ cycle[k].pc = "curate"
    /\ cycle[k].batch # {}
    /\ Goto(k, "train")
    /\ UNCHANGED <<bufferVars, lock, trained, torn, overtaken>>

Train(k) ==
    /\ cycle[k].pc = "train"
    /\ Goto(k, "load")
    /\ UNCHANGED <<bufferVars, lock, trained, torn, overtaken>>

\* The candidate is loaded next to the live adapter, inactive.
ShadowLoad(k) ==
    /\ cycle[k].pc = "load"
    /\ Goto(k, "score")
    /\ UNCHANGED <<bufferVars, lock, trained, torn, overtaken>>

\* The gate accepts: the candidate goes live at once.
Accept(k) ==
    /\ cycle[k].pc = "score"
    /\ Deploy(k)
    /\ Goto(k, "advance")
    /\ UNCHANGED <<bufferVars, lock, torn, overtaken>>

\* Without an evaluator loading the adapter deploys it.
LoadLive(k) ==
    /\ cycle[k].pc = "load"
    /\ Deploy(k)
    /\ Goto(k, "advance")
    /\ UNCHANGED <<bufferVars, lock, torn, overtaken>>

Reject(k) ==
    /\ cycle[k].pc = "score"
    /\ Goto(k, "discard")
    /\ UNCHANGED <<bufferVars, lock, trained, torn, overtaken>>

\* Unload and delete the candidate; the data stays eligible.
Discard(k) ==
    /\ cycle[k].pc = "discard"
    /\ End(k)
    /\ UNCHANGED <<bufferVars, trained, torn, overtaken>>

\* Mutant of Advance: the mark is set one tick past the newest row.
AdvancePast(k) ==
    /\ cycle[k].pc = "advance"
    /\ watermark' = MaxCreatedAt(cycle[k].batch) + 1
    /\ End(k)
    /\ UNCHANGED <<created, log, ensure, seen, committed, count, firedAt,
                   spent, seeded, trained, torn, overtaken>>

Advance(k) ==
    /\ cycle[k].pc = "advance"
    /\ watermark' = MaxCreatedAt(cycle[k].batch)
    /\ End(k)
    /\ UNCHANGED <<created, log, ensure, seen, committed, count, firedAt,
                   spent, seeded, trained, torn, overtaken>>

\* Mutant of Raises: the lock is not released on an exception.
RaisesLocked(k) ==
    /\ cycle[k].pc \in CyclePC \ {"idle", "queued", "advance"}
    /\ cycle' = [cycle EXCEPT ![k] = NoCycle]
    /\ ensure' = [ensure EXCEPT ![k] = "out"]
    /\ seen' = [seen EXCEPT ![k] = 0]
    /\ UNCHANGED <<created, log, committed, watermark, count, firedAt,
                   spent, seeded, lock, trained, torn, overtaken>>

\* Any await of the cycle may raise: the database, the curator's judge, the
\* trainer, the engine or the evaluator.
Raises(k) ==
    /\ cycle[k].pc \in CyclePC \ {"idle", "queued", "advance"}
    /\ End(k)
    /\ ensure' = [ensure EXCEPT ![k] = "out"]
    /\ seen' = [seen EXCEPT ![k] = 0]
    /\ UNCHANGED <<created, log, committed, watermark, count, firedAt,
                   spent, seeded, trained, torn, overtaken>>

\* The watermark cannot be written, with the adapter already live.
AdvanceRaises(k) ==
    /\ DbFaults
    /\ cycle[k].pc = "advance"
    /\ torn' = torn \cup cycle[k].batch
    /\ End(k)
    /\ UNCHANGED <<bufferVars, trained, overtaken>>

\* The process is restarted: rows and watermark are in the database, the
\* counters, the lock and every task are gone.
Restart ==
    /\ Crashes
    /\ log' = [m \in Msgs |-> IF log[m] \in {"created", "storing", "stored"}
                               THEN "failed" ELSE log[m]]
    /\ ensure' = [c \in Callers |-> "out"]
    /\ seen' = [c \in Callers |-> 0]
    /\ count' = 0
    /\ firedAt' = NotSeeded
    /\ cycle' = [k \in Cycles |-> NoCycle]
    /\ lock' = {}
    /\ torn' = torn \cup UNION {cycle[k].batch : k \in {j \in Cycles : cycle[j].pc = "advance"}}
    /\ UNCHANGED <<created, committed, watermark, spent, seeded, trained, overtaken>>

Step(k) == \/ Acquire(k) \/ ReadMark(k) \/ Fetch(k) \/ Skip(k) \/ Curate(k) \/ Train(k)
           \/ ShadowLoad(k) \/ LoadLive(k) \/ Accept(k) \/ Reject(k) \/ Discard(k)
           \/ Advance(k) \/ Raises(k) \/ AdvanceRaises(k)

Next ==
    \/ \E m \in Msgs : NewMessage(m) \/ Log(m)
    \/ \E c \in Callers : SeedCounter(c)
    \/ \E k \in Cycles :
          \/ RunCycle(k) \/ Acquire(k) \/ ReadMark(k) \/ Fetch(k) \/ Skip(k) \/ Curate(k)
          \/ Train(k) \/ ShadowLoad(k) \/ LoadLive(k) \/ Accept(k) \/ Reject(k) \/ Discard(k)
          \/ Advance(k) \/ Raises(k) \/ AdvanceRaises(k)
    \/ Restart

Spec == Init /\ [][Next]_vars

\* The event loop runs every ready task, and every await of a log() or a cycle
\* ends, the database and trainer's by returning or raising; the lock is FIFO,
\* so a queued cycle that keeps finding it free gets it.
FairSpec ==
    /\ Spec
    /\ \A k \in Cycles : WF_vars(Step(k)) /\ SF_vars(Acquire(k))
    /\ \A c \in Callers : WF_vars(SeedCounter(c))
    /\ \A m \in Msgs : WF_vars(Log(m))

-----------------------------------------------------------------------------
(* Properties                                                              *)

TypeOK ==
    /\ BufferTypeOK
    /\ cycle \in [Cycles -> [pc : CyclePC, mark : 0 .. Cardinality(Msgs), batch : SUBSET Msgs]]
    /\ lock \subseteq Cycles
    /\ trained \in [Msgs -> 0 .. TrainedCap]
    /\ torn \subseteq Msgs
    /\ overtaken \subseteq Msgs

\* "restarts never re-train on already-consumed data" (set_watermark), as far
\* as run_cycle keeps it: however cycles overlap, are skipped, rejected or
\* raise, a row goes into a second deployed adapter only after a
\* crash or a database fault fell between a deployment and its set_watermark.
RetrainedOnlyIfTorn == \A m \in Msgs : trained[m] > 1 => m \in torn

\* The watermark passes over a row that was never trained on only if the row's
\* commit fell behind a fetch that had already returned a newer one: created_at
\* is taken when the message is constructed, several awaits before the commit,
\* and tasks commit in any order.  Skips, rejections, exceptions, restarts and
\* overlapping cycles lose no row.
SkippedOnlyIfOvertaken ==
    \A m \in committed : created[m] <= watermark /\ trained[m] = 0 => m \in overtaken

\* "Each adapter trains on data since the previous cycle"
\* (docs/concepts/memory_and_learning.md): a row that no later fetch will return
\* has been in the batch of a deployed adapter.
NothingSkipped ==
    \A m \in committed : created[m] <= watermark => trained[m] > 0

\* The watermark only moves forward, however triggered and manual cycles
\* overlap.
WatermarkAdvances == [][watermark' >= watermark]_watermark

\* The rows whose log() has returned.
Logged == {m \in committed : log[m] = "done"}

\* "fire on_threshold every N logged messages" (docs/reference/memory.md): fewer
\* than threshold messages have been logged since the last call, or ever.
ThresholdFires == Cardinality(Logged \ spent) < Threshold

\* The bar is missed only for rows that were in the table when the counter was
\* last seeded, which resets the mark of the last call: among the rows after
\* them, however log() calls overlap each other and the call of on_threshold,
\* every threshold of them brings a call.
MissedOnlyBySeeding == Cardinality(Logged \ (spent \cup seeded)) < Threshold

\* Every cycle asked for comes to an end and frees the lock, even when a step
\* of it raises.
CycleEnds == \A k \in Cycles : cycle[k].pc = "queued" ~> cycle[k].pc = "idle"
=============================================================================
