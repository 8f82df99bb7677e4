---------------------------- MODULE TrainingData ----------------------------
(***************************************************************************)
(* What a learning cycle trains on: the rows that exchanges leave in the   *)
(* interaction buffer, paired by format_training_pairs (learning.py),      *)
(* screened by InteractionJudge.curate (curation.py) and mixed with golden *)
(* pairs by RehearsalBuffer.mix (rehearsal.py).                            *)
(*                                                                         *)
(* An exchange is one dispatch of the gateway: its user row is committed   *)
(* before the handler runs, its assistant row after, and exchanges of one  *)
(* session may overlap (REST clients without a session_id all share the    *)
(* session "default").  Rows are committed in the order of created_at,     *)
(* which is their index, and a text is the index of its row.  The pairs of *)
(* a cycle are a set: mix shuffles them.  One cycle runs at a time and its *)
(* last steps, from training to the watermark, are one here.               *)
(* ContinuousLearning has late commits, the lock and crashes.              *)
(***************************************************************************)
EXTENDS Integers, Sequences, FiniteSets, PyRound

CONSTANTS
    Exchanges,
    Sessions,
    None,
    MaxTools,    \* bound: tool rows
    MinPairs,    \* learner.min_pairs
    RatioNum,    \* rehearsal.new_data_ratio = RatioNum / RatioDen
    RatioDen,
    Golden       \* golden pairs in the rehearsal buffer

ASSUME RatioAssumption == /\ RatioNum \in Nat \ {0} /\ RatioDen \in Nat
                          /\ RatioNum <= RatioDen
ASSUME PairsAssumption == MinPairs \in Nat \ {0} /\ Golden \in Nat
ASSUME NamesAssumption == /\ Sessions \cap {None, "done", "failed"} = {}
                          /\ None \notin {"done", "failed", "negative", "positive"}

VARIABLES
    curator,   \* whether the learner was given an InteractionJudge
    stage,     \* where each exchange is
    rows,      \* the buffer's table, oldest first
    mark,      \* the watermark: rows[1 .. mark] are consumed
    cycle,     \* the learning cycle under way
    deployed   \* history: the rows each deployed adapter consumed, its new pairs

vars == <<curator, stage, rows, mark, cycle, deployed>>

Feedback == {None, "negative", "positive"}
Row == [ex : Exchanges, session : Sessions, role : {"user", "tool", "assistant"},
        feedback : Feedback]
Pair == [prompt : Nat, context : SUBSET Nat, completion : Nat, feedback : Feedback]

Idle == [pc |-> "idle", upto |-> 0, pairs |-> {}, golden |-> 0]

Init ==
    /\ curator \in BOOLEAN
    /\ stage = [e \in Exchanges |-> None]
    /\ rows = <<>>
    /\ mark = 0
    /\ cycle = Idle
    /\ deployed = <<>>

-----------------------------------------------------------------------------
(* Exchanges                                                               *)

\* InteractionBuffer.log of a message.
Store(e, s, role, feedback) ==
    rows' = Append(rows, [ex |-> e, session |-> s, role |-> role, feedback |-> feedback])

Ask(e, s) ==
    /\ stage[e] = None
    /\ stage' = [stage EXCEPT ![e] = s]
    /\ Store(e, s, "user", None)
    /\ UNCHANGED <<curator, mark, cycle, deployed>>

ToolRows(e) == {i \in DOMAIN rows : rows[i].ex = e /\ rows[i].role = "tool"}

\* The application logs a tool's output (the gateway's observers never do).
UseTool(e) ==
    /\ stage[e] \in Sessions
    /\ Cardinality({i \in DOMAIN rows : rows[i].role = "tool"}) < MaxTools
    /\ Store(e, stage[e], "tool", None)
    /\ UNCHANGED <<curator, stage, mark, cycle, deployed>>

Answer(e, feedback) ==
    /\ stage[e] \in Sessions
    /\ stage' = [stage EXCEPT ![e] = "done"]
    /\ Store(e, stage[e], "assistant", feedback)
    /\ UNCHANGED <<curator, mark, cycle, deployed>>

\* The handler raises: the user row stays without an answer.
Fail(e) ==
    /\ stage[e] \in Sessions
    /\ stage' = [stage EXCEPT ![e] = "failed"]
    /\ UNCHANGED <<curator, rows, mark, cycle, deployed>>

-----------------------------------------------------------------------------
(* format_training_pairs                                                   *)

\* prompt is None, context and pairs are empty.
Nothing == [prompt |-> 0, context |-> {}, pairs |-> {}]

PairOf(acc, i) ==
    [prompt |-> acc.prompt, context |-> acc.context,
     completion |-> i, feedback |-> rows[i].feedback]

\* Mutant of Scan: a prompt that is still waiting is not replaced.
ScanFirstPrompt(acc, i) ==
    CASE rows[i].role = "user" /\ acc.prompt = 0 ->
            [acc EXCEPT !.prompt = i, !.context = {}]
      [] rows[i].role = "tool" /\ acc.prompt # 0 -> [acc EXCEPT !.context = @ \cup {i}]
      [] rows[i].role = "assistant" /\ acc.prompt # 0 ->
            [Nothing EXCEPT !.pairs = acc.pairs \cup {PairOf(acc, i)}]
      [] OTHER -> acc

\* Mutant of Scan: the prompt is still there after it was answered.
ScanKeepsPrompt(acc, i) ==
    CASE rows[i].role = "user" -> [acc EXCEPT !.prompt = i, !.context = {}]
      [] rows[i].role = "tool" /\ acc.prompt # 0 -> [acc EXCEPT !.context = @ \cup {i}]
      [] rows[i].role = "assistant" /\ acc.prompt # 0 ->
            [acc EXCEPT !.pairs = @ \cup {PairOf(acc, i)}]
      [] OTHER -> acc

\* One row of a session: a prompt, context for it, or its completion.
Scan(acc, i) ==
    CASE rows[i].role = "user" -> [acc EXCEPT !.prompt = i, !.context = {}]
      [] rows[i].role = "tool" /\ acc.prompt # 0 -> [acc EXCEPT !.context = @ \cup {i}]
      [] rows[i].role = "assistant" /\ acc.prompt # 0 ->
            [Nothing EXCEPT !.pairs = acc.pairs \cup {PairOf(acc, i)}]
      [] OTHER -> acc

\* The scan of by_session[s] when rows m + 1 to n were fetched.
Scanned(s, m, n) ==
    LET scan[k \in m .. n] ==
            IF k = m THEN Nothing
            ELSE IF rows[k].session = s THEN Scan(scan[k - 1], k) ELSE scan[k - 1]
    IN  scan[n]

FormatTrainingPairs(m, n) == UNION {Scanned(s, m, n).pairs : s \in Sessions}

-----------------------------------------------------------------------------
(* The learning cycle                                                      *)

\* run_cycle fetches the rows past the watermark and pairs them.
Begin ==
    /\ cycle = Idle
    /\ cycle' = [Idle EXCEPT !.pc = "curating", !.upto = Len(rows),
                             !.pairs = FormatTrainingPairs(mark, Len(rows))]
    /\ UNCHANGED <<curator, stage, rows, mark, deployed>>

Silent(pairs) == {p \in pairs : p.feedback = None}

\* Mutant of Keeps: a thumbs-down is only one opinion, the judge has the say.
KeepsJudged(pair, good) == pair.feedback = "positive" \/ pair.feedback = "negative" \/ pair \in good

\* Explicit feedback short-circuits the judge, who scores the silent pairs.
Keeps(pair, good) == pair.feedback = "positive" \/ pair \in good

\* What curate returns when the judge's score clears min_score for `good`;
\* without a curator every pair is used.
Curate(good) ==
    IF curator THEN {pair \in cycle.pairs : Keeps(pair, good)} ELSE cycle.pairs

\* Fewer than min_pairs: the rows wait for the next cycle.
Skip(good) ==
    /\ cycle.pc = "curating"
    /\ Cardinality(Curate(good)) < MinPairs
    /\ cycle' = Idle
    /\ UNCHANGED <<curator, stage, rows, mark, deployed>>

\* Mutant of Rehearsed: more golden pairs are drawn than there are.
RehearsedUncapped(n) == RoundHalfEven(n * (RatioDen - RatioNum), RatioNum)

\* How many golden pairs mix samples beside n new ones.
Rehearsed(n) ==
    LET target == RoundHalfEven(n * (RatioDen - RatioNum), RatioNum)
    IN  IF target < Golden THEN target ELSE Golden

\* The mix is handed to the trainer.
Train(good) ==
    /\ cycle.pc = "curating"
    /\ Cardinality(Curate(good)) >= MinPairs
    /\ cycle' = [cycle EXCEPT !.pc = "training", !.pairs = Curate(good),
                              !.golden = Rehearsed(Cardinality(Curate(good)))]
    /\ UNCHANGED <<curator, stage, rows, mark, deployed>>

\* Mutant of Deploy: the watermark moves to the newest row there is.
DeployToEnd ==
    /\ cycle.pc = "training"
    /\ mark' = Len(rows)
    /\ deployed' = Append(deployed, [after |-> mark, upto |-> mark', pairs |-> cycle.pairs])
    /\ cycle' = Idle
    /\ UNCHANGED <<curator, stage, rows>>

\* The adapter goes live and the watermark to the last row that was fetched.
Deploy ==
    /\ cycle.pc = "training"
    /\ mark' = cycle.upto
    /\ deployed' = Append(deployed, [after |-> mark, upto |-> mark', pairs |-> cycle.pairs])
    /\ cycle' = Idle
    /\ UNCHANGED <<curator, stage, rows>>

\* The judge or the trainer raises, or the gate rejects the adapter: nothing
\* is consumed.
Abandon ==
    /\ cycle.pc = "training" \/ (curator /\ cycle.pc = "curating" /\ Silent(cycle.pairs) # {})
    /\ cycle' = Idle
    /\ UNCHANGED <<curator, stage, rows, mark, deployed>>

Next ==
    \/ \E e \in Exchanges : \/ \E s \in Sessions : Ask(e, s)
                            \/ UseTool(e) \/ Fail(e)
                            \/ \E feedback \in Feedback : Answer(e, feedback)
    \/ \E good \in SUBSET Silent(cycle.pairs) : Skip(good) \/ Train(good)
    \/ Begin \/ Deploy \/ Abandon

Spec == Init /\ [][Next]_vars

-----------------------------------------------------------------------------
(* Properties                                                              *)

TypeOK ==
    /\ curator \in BOOLEAN
    /\ stage \in [Exchanges -> Sessions \cup {None, "done", "failed"}]
    /\ rows \in Seq(Row)
    /\ mark \in 0 .. Len(rows)
    /\ cycle \in [pc : {"idle", "curating", "training"}, upto : 0 .. Len(rows),
                  pairs : SUBSET Pair, golden : 0 .. Golden]
    /\ deployed \in Seq([after : Nat, upto : 0 .. Len(rows), pairs : SUBSET Pair])

Trained == UNION {deployed[i].pairs : i \in DOMAIN deployed}

\* The rows whose texts make up a pair.
Texts(p) == {p.prompt, p.completion} \cup p.context

UserRow(i, e) == rows[i].role = "user" /\ rows[i].ex = e

\* f began in e's session between e's user row and a later row of e.
Interleaved(e, f) ==
    \E i, j, k \in DOMAIN rows :
        /\ i < j /\ j < k
        /\ UserRow(i, e) /\ UserRow(j, f) /\ rows[k].ex = e
        /\ rows[i].session = rows[j].session

Alone(e) == \A f \in Exchanges : ~Interleaved(e, f) /\ ~Interleaved(f, e)

\* An adapter is trained on what was said: the pair of an exchange that did not
\* overlap another of its session is that exchange's message, all its tool
\* outputs and its reply, even when messages before it were never answered.
PairsAreExact ==
    \A p \in Trained : \A i \in Texts(p) :
        \/ /\ rows[p.prompt].ex = rows[i].ex /\ rows[p.completion].ex = rows[i].ex
           /\ p.context = ToolRows(rows[i].ex)
        \/ ~Alone(rows[i].ex)

\* However cycles are skipped, rejected or repeated, no message, tool output or
\* reply gets into two pairs of deployed adapters.
SaidOnceTrainedOnce ==
    \A i, j \in DOMAIN deployed : \A p \in deployed[i].pairs, q \in deployed[j].pairs :
        Texts(p) \cap Texts(q) # {} => i = j /\ p = q

\* "thumbs-down pairs are dropped outright": behind a curator no reply that its
\* user rejected is ever trained on, however its pair was put together.
RejectedIsNotTrained ==
    curator => \A p \in Trained : rows[p.completion].feedback # "negative"

\* A deployed cycle consumes an exchange whole: one that ran alone, that its
\* user approved and that lies behind the watermark is in a deployed adapter -
\* unless a watermark fell between its message and its reply.
ApprovedIsTrained ==
    \A k \in 1 .. mark :
        rows[k].role = "assistant" /\ rows[k].feedback = "positive" =>
           \/ \E p \in Trained : p.completion = k
           \/ \E d \in DOMAIN deployed, i \in DOMAIN rows :
                 UserRow(i, rows[k].ex) /\ i <= deployed[d].upto /\ deployed[d].upto < k
           \/ ~Alone(rows[k].ex)
=============================================================================
