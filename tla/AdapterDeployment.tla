-------------------------- MODULE AdapterDeployment --------------------------
(***************************************************************************)
(* How a trained adapter reaches production: the learner's shadow gate     *)
(* (ContinuousLearner._shadow_gate, AdapterGate) over the engine's LoRA    *)
(* operations, beside an operator who rolls back and chats that are in     *)
(* flight (engine.chat).                                                   *)
(*                                                                         *)
(* A cycle is followed from the moment its adapter is trained.  It is      *)
(* suspended in the POST that evicts a victim, in the one that loads the   *)
(* candidate, in one chat per golden case, and in the unload of a rejected *)
(* candidate.  The server does not crash here; AdapterLifecycle has that.  *)
(***************************************************************************)
EXTENDS LoRARegistry

CONSTANTS
    Learners,     \* tasks in run_cycle
    Chats,        \* tasks in engine.chat
    Cases,        \* number of golden cases
    Tolerance,    \* AdapterGate.tolerance, in cases
    LostAnswers   \* whether a POST that raises may have taken effect

ASSUME GateAssumption == /\ Cases \in Nat \ {0} /\ Tolerance \in Nat
                         /\ LostAnswers \in BOOLEAN

VARIABLES
    reg,       \* engine.lora
    server,    \* the adapters the server holds
    lock,      \* who holds ContinuousLearner._lock
    cycle,     \* where each learner is
    baseline,  \* gate.baseline_accuracy in passed cases, NoBar if not set
    score,     \* history: cases each adapter passed when it was judged
    leaked,    \* history: adapters whose load took effect and yet raised
    chat       \* the model each chat in flight will name, and for how many
               \* changes of the active adapter (up to 2) it has waited

vars == <<reg, server, lock, cycle, baseline, score, leaked, chat>>

NoBar == -1
Free == "free"
ASSUME LockAssumption == Free \notin Learners
Idle == [pc |-> "idle", name |-> NoLora, victim |-> NoLora, case |-> 0, passes |-> 0]
Quiet == [pc |-> "idle", model |-> NoLora, swaps |-> 0]

Init ==
    /\ reg = EmptyRegistry
    /\ server = {}
    /\ lock = Free
    /\ cycle = [t \in Learners |-> Idle]
    /\ baseline = NoBar
    /\ score = [n \in Names |-> NoBar]
    /\ leaked = {}
    /\ chat = [c \in Chats |-> Quiet]

\* The registry changes and every chat in flight sees whether active did.
SetRegistry(r) ==
    /\ reg' = r
    /\ chat' = IF r.active = reg.active THEN chat
               ELSE [c \in Chats |-> IF chat[c].pc = "queued" /\ chat[c].swaps < 2
                                       THEN [chat[c] EXCEPT !.swaps = @ + 1] ELSE chat[c]]

\* Names carry a timestamp and a random suffix: a trained adapter's is new.
IsNew(n) ==
    /\ n \notin Loaded(reg) \cup server
    /\ \A t \in Learners : cycle[t].name # n
    /\ \A c \in Chats : chat[c].model # n

\* Mutant of Acquire: the cycle runs without the learner's lock.
AcquireUnlocked(t) == lock' = Free

Acquire(t) == lock = Free /\ lock' = t

\* The adapter is trained and load_lora_adapter(activate=False) picks a victim.
ShadowLoad(t, n) ==
    /\ cycle[t] = Idle
    /\ Acquire(t)
    /\ IsNew(n)
    /\ LET victim == EvictionCandidate(reg)
       IN  cycle' = [cycle EXCEPT ![t] =
               [Idle EXCEPT !.pc = IF victim = NoLora THEN "loading" ELSE "evicting",
                            !.name = n, !.victim = victim]]
    /\ score' = [score EXCEPT ![n] = NoBar]
    /\ UNCHANGED <<reg, server, baseline, leaked, chat>>

Evicted(t) ==
    /\ cycle[t].pc = "evicting"
    /\ server' = server \ {cycle[t].victim}
    /\ SetRegistry(Unregister(reg, cycle[t].victim))
    /\ cycle' = [cycle EXCEPT ![t].pc = "loading", ![t].victim = NoLora]
    /\ UNCHANGED <<lock, baseline, score, leaked>>

\* Mutant of LoadDone: the candidate is activated as it is loaded.
LoadDoneActive(t) ==
    /\ cycle[t].pc = "loading"
    /\ server' = server \cup {cycle[t].name}
    /\ SetRegistry(Activate(Register(reg, cycle[t].name), cycle[t].name))
    /\ cycle' = [cycle EXCEPT ![t].pc = IF baseline = NoBar THEN "baseline" ELSE "scoring"]
    /\ UNCHANGED <<lock, baseline, score, leaked>>

\* The candidate is on the server but not active; evaluate() begins.
LoadDone(t) ==
    /\ cycle[t].pc = "loading"
    /\ server' = server \cup {cycle[t].name}
    /\ SetRegistry(Register(reg, cycle[t].name))
    /\ cycle' = [cycle EXCEPT ![t].pc = IF baseline = NoBar THEN "baseline" ELSE "scoring"]
    /\ UNCHANGED <<lock, baseline, score, leaked>>

\* AdapterGate.score: the suite is run one chat at a time.
Scored(t, passed) ==
    [cycle[t] EXCEPT !.case = @ + 1, !.passes = IF passed THEN @ + 1 ELSE @]

\* Mutant of ScoreBaseline: the candidate's count starts where the baseline's ended.
ScoreBaselineCarries(t, passed) ==
    /\ cycle[t].pc = "baseline"
    /\ LET s == Scored(t, passed)
       IN  IF s.case < Cases
             THEN cycle' = [cycle EXCEPT ![t] = s] /\ UNCHANGED baseline
             ELSE /\ baseline' = s.passes
                  /\ cycle' = [cycle EXCEPT ![t] = [s EXCEPT !.pc = "scoring", !.case = 0]]
    /\ UNCHANGED <<reg, server, lock, score, leaked, chat>>

\* establish_baseline: whatever adapter is active answers.
ScoreBaseline(t, passed) ==
    /\ cycle[t].pc = "baseline"
    /\ LET s == Scored(t, passed)
       IN  IF s.case < Cases
             THEN cycle' = [cycle EXCEPT ![t] = s] /\ UNCHANGED baseline
             ELSE /\ baseline' = s.passes
                  /\ cycle' = [cycle EXCEPT ![t] = [s EXCEPT !.pc = "scoring", !.case = 0, !.passes = 0]]
    /\ UNCHANGED <<reg, server, lock, score, leaked, chat>>

\* A case of the candidate's suite that is not the last one.
ScoreCandidate(t, passed) ==
    /\ cycle[t].pc = "scoring"
    /\ cycle[t].name \in server
    /\ cycle[t].case + 1 < Cases
    /\ cycle' = [cycle EXCEPT ![t] = Scored(t, passed)]
    /\ UNCHANGED <<reg, server, lock, baseline, score, leaked, chat>>

Clears(passes) == passes + Tolerance >= baseline

LastCase(t, passed) ==
    /\ cycle[t].pc = "scoring"
    /\ cycle[t].name \in server
    /\ cycle[t].case + 1 = Cases
    /\ score' = [score EXCEPT ![cycle[t].name] = Scored(t, passed).passes]

\* The last case decides: the candidate is activated, which never suspends ...
Accept(t, passed) ==
    /\ LastCase(t, passed)
    /\ Clears(Scored(t, passed).passes)
    /\ SetRegistry(Activate(reg, cycle[t].name))
    /\ cycle' = [cycle EXCEPT ![t] = Idle]
    /\ lock' = Free
    /\ UNCHANGED <<server, baseline, leaked>>

\* ... or taken off the server again.
Reject(t, passed) ==
    /\ LastCase(t, passed)
    /\ ~Clears(Scored(t, passed).passes)
    /\ cycle' = [cycle EXCEPT ![t] = [Idle EXCEPT !.pc = "unloading", !.name = cycle[t].name]]
    /\ UNCHANGED <<reg, server, lock, baseline, leaked, chat>>

Unloaded(t) ==
    /\ cycle[t].pc = "unloading"
    /\ server' = server \ {cycle[t].name}
    /\ SetRegistry(Unregister(reg, cycle[t].name))
    /\ cycle' = [cycle EXCEPT ![t] = Idle]
    /\ lock' = Free
    /\ UNCHANGED <<baseline, score, leaked>>

\* What the server may hold after a POST whose caller sees an exception.
Effects(t) ==
    {server} \cup
    IF ~LostAnswers THEN {}
    ELSE CASE cycle[t].pc = "evicting"  -> {server \ {cycle[t].victim}}
           [] cycle[t].pc = "loading"   -> {server \cup {cycle[t].name}}
           [] cycle[t].pc = "unloading" -> {server \ {cycle[t].name}}
           [] OTHER                     -> {}

\* A POST or a golden chat raises: run_cycle ends and the lock is released;
\* a candidate that was loaded stays on the server, inactive.
Raises(t) ==
    /\ cycle[t] # Idle
    /\ server' \in Effects(t)
    /\ leaked' = IF cycle[t].pc = "loading" THEN leaked \cup (server' \ server) ELSE leaked
    /\ cycle' = [cycle EXCEPT ![t] = Idle]
    /\ lock' = Free
    /\ UNCHANGED <<reg, baseline, score, chat>>

RollbackLora ==
    /\ SetRegistry(Rollback(reg))
    /\ UNCHANGED <<server, lock, cycle, baseline, score, leaked>>

\* engine.chat names the active adapter before it queues for a slot.
Ask(c) ==
    /\ chat[c] = Quiet
    /\ chat' = [chat EXCEPT ![c] = [pc |-> "queued", model |-> reg.active, swaps |-> 0]]
    /\ UNCHANGED <<reg, server, lock, cycle, baseline, score, leaked>>

\* The backend gets the request; it refuses a model it does not hold.
Answered(c) ==
    /\ chat[c].pc = "queued"
    /\ chat' = [chat EXCEPT ![c] = Quiet]
    /\ UNCHANGED <<reg, server, lock, cycle, baseline, score, leaked>>

Next ==
    \/ \E t \in Learners :
          \/ \E n \in Names : ShadowLoad(t, n)
          \/ Evicted(t) \/ LoadDone(t) \/ Unloaded(t) \/ Raises(t)
          \/ \E passed \in BOOLEAN : \/ ScoreBaseline(t, passed) \/ ScoreCandidate(t, passed)
                                     \/ Accept(t, passed) \/ Reject(t, passed)
    \/ RollbackLora
    \/ \E c \in Chats : Ask(c) \/ Answered(c)

Spec == Init /\ [][Next]_vars

-----------------------------------------------------------------------------
(* Properties                                                              *)

TypeOK ==
    /\ reg \in Registries
    /\ server \subseteq Names
    /\ lock \in Learners \cup {Free}
    /\ cycle \in [Learners ->
          [pc : {"idle", "evicting", "loading", "baseline", "scoring", "unloading"},
           name : Names \cup {NoLora}, victim : Names \cup {NoLora},
           case : 0 .. Cases - 1, passes : 0 .. Cases - 1]]
    /\ baseline \in NoBar .. Cases
    /\ score \in [Names -> NoBar .. Cases]
    /\ leaked \subseteq Names
    /\ chat \in [Chats -> [pc : {"idle", "queued"}, model : Names \cup {NoLora}, swaps : 0 .. 2]]

\* max_loras - or three where it is less, since the active adapter, its
\* predecessor and the newcomer are never evicted.
Slots == IF MaxLoras > 3 THEN MaxLoras ELSE 3

\* "so the continuous-learning loop never stalls on a full server", as far as the
\* code keeps it: when a candidate's load is posted the server has a slot for it,
\* but for slots held by adapters whose load took effect and raised, which the
\* registry does not know and nothing unloads.  Victims picked before awaits,
\* evictions and unloads that raise with and without effect, rejected candidates
\* that are never unloaded and other cycles waiting to load fill no slot.
StallsOnlyIfLeaked ==
    \A t \in Learners : cycle[t].pc = "loading" => Cardinality(server \ leaked) < Slots

\* "a bad adapter can never be hot-swapped into production": what is served or
\* can be rolled back to has cleared the bar in its own evaluation.
OnlyGatedIsServed ==
    \A n \in {reg.active, reg.previous} \ {NoLora} :
        score[n] # NoBar /\ score[n] + Tolerance >= baseline

\* The active adapter, the one to roll back to and a candidate that is being
\* judged are on the server, although POSTs fail with and without effect, names
\* are picked before awaits and other cycles are waiting to load theirs.
InUseIsLoaded ==
    /\ {reg.active, reg.previous} \ {NoLora} \subseteq server
    /\ \A t \in Learners : cycle[t].pc \in {"baseline", "scoring"} => cycle[t].name \in server

\* "zero downtime": a chat that named its adapter before queueing finds it on
\* the server unless the active adapter has changed twice in the meantime.
ChatSurvivesSwap ==
    \A c \in Chats : chat[c].pc = "queued" /\ chat[c].swaps < 2
                        => chat[c].model \in server \cup {NoLora}

Gated == INSTANCE GatedServing WITH
    Adapters <- Names, Base <- NoLora,
    serving <- reg.active, fallback <- reg.previous, held <- server,
    cleared <- {n \in Names : score[n] # NoBar /\ score[n] + Tolerance >= baseline}

\* The gate, the registry and the operator together implement GatedServing: an
\* eviction, a failed POST or a waiting cycle never touches what is in use, an
\* accepted candidate takes over from the adapter that was active, and a
\* rollback can be rolled forward.
DeploymentIsGated == Gated!ServingSpec
=============================================================================
