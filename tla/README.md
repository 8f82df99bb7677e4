# Verification of OmniAI (`omniai/`)

TLA+ specifications of the parts of OmniAI in which tasks, processes, failures
and bounds interact, TLC configurations that check small instances of them,
and TLAPS proofs of the results that should hold for every size. Everything
runs on one asyncio event loop, so the unit of interleaving is the code between
two `await`s: one action of a module is one such piece, and every program
counter names the `await` a task is suspended at.

## 1. Inventory

| Component | State | Operations | What is hard about it | What makes it correct |
|---|---|---|---|---|
| Request path (`engine/engine.py`, `_post`) | semaphore, `in_flight` | every HTTP call to the backend | cancellation, fast failure and errors all leave through the same `finally` | slots accounted for, first come first served, every call returns |
| Breaker, retries (`engine/resilience.py`) | state, failures, `opened_at`, `_probing` | `call`, `_record_*`, `with_retries` | calls that started in one state end in another | fails fast when it should, recovers when it can |
| LoRA registry (`engine/lora.py`) | `loaded`, `active`, `previous`, a JSON file | register, activate, deactivate, remove, evict | it is a belief about another process | names in it exist; slots suffice |
| LoRA life cycle (`engine/engine.py`) | the registry, the server's own table | load, unload, activate, rollback, reapply | each POST is an `await`; answers get lost | registry coherent under any overlap |
| Supervisor (`engine/resilience.py`) | `restarts`, `failed`, its task | watch, restart, stop | crashes during boot and during re-application | a dead backend is replaced or reported, with its adapter |
| Backends (`engine/backends.py`) | the subprocess | start, stop, wait_ready | slow boot, orphans | stop is final |
| Interaction buffer (`memory/buffer.py`) | table, watermark, counter, fired mark | log, fetch, watermark | seeding around an `await`; commit order | threshold and watermark lose only what the findings name |
| Learner (`memory/learning.py`) | lock, history | run_cycle, shadow gate, trigger, pairing | a cycle has nine suspension points and may die at each | watermark monotone, nothing trained twice, lock freed |
| Curation, rehearsal (`memory/curation.py`, `rehearsal.py`) | golden pairs | curate, mix | overlapping exchanges, cycles that cut one in two | trained on what was said, once, and not rejected |
| Evaluation gate (`evals/gate.py`) | baseline | score, establish_baseline, evaluate | a dozen awaits between loading a candidate and judging it | only what cleared the bar is served |
| Gateway router (`gateway/router.py`, `adapters.py`, `app.py`) | observers, interceptors | dispatch, three routes, readiness | observers in the request path, readiness gating | answers and log agree, everybody is answered, ready again |
| Gateway security (`gateway/security.py`) | token buckets | authenticate, allow, body caps | time, rounding, order of the checks | rate bounded over every interval, Retry-After enough |
| Guardrails (`guardrails/middleware.py`) | policy | check | runs before the log, or after | nothing unscreened is stored |
| Agent graph (`graph/`) | node, counts, conversation | ainvoke, tool agent, handler | two bounds on one loop, partial tool failures | bounds agree, every call answered |
| Model clients, structured output (`models/`) | - | translate, generate, repair | merging turns | requests well-formed |
| Sandbox, tools, RAG store, skills, tenancy, telemetry, logging, prompts | - | - | I/O, text and lookups | not modelled (section 8) |

Interaction: the gateway authenticates and meters a request, dispatches its
message through the guardrails to a handler (the chat graph, an agent graph or
a tenant handler), which calls the engine; its observers log both sides of the
exchange to the buffer; the buffer's threshold triggers the learner, which
pairs, curates and trains, then loads, scores and activates an adapter through
the engine's LoRA operations; the supervisor uses the same operations after a
crash; readiness reads the breaker, the supervisor's flag and the database. The
hazards this creates are listed, each at its line, in `PROJECT.json`.

## 2. Modules

| Module | Models | Checked by | Proved in |
|---|---|---|---|
| `CircuitBreaker` | `CircuitBreaker` as operators on a record | through `EngineCall`, `Gateway` | - |
| `EngineCall` | `_post`, `with_retries`, `asyncio.Semaphore` (external); extends `CircuitBreaker` | `MCEngineCall` | `EngineCallProofs` |
| `AdmissionPool` | abstract: what `_post` promises about admission | refined by `EngineCall` | `EngineCallProofs` |
| `LoRARegistry` | `LoRARegistry` as operators on a record | through the next two | `LoRARegistryProofs` (lemmas) |
| `AdapterLifecycle` | LoRA operations, supervisor, server process, start and stop | `MCAdapterLifecycle` | `AdapterLifecycleProofs` |
| `AdapterDeployment` | shadow gate and `AdapterGate` over the LoRA operations, beside rollbacks and chats | `MCAdapterDeployment` | `AdapterDeploymentProofs` |
| `GatedServing` | abstract: what the deployment path promises about what is served | refined by `AdapterDeployment` | `AdapterDeploymentProofs` |
| `InteractionBuffer` | `InteractionBuffer` | through `ContinuousLearning` | `ContinuousLearningProofs` |
| `ContinuousLearning` | `ContinuousLearner`; extends `InteractionBuffer` | `MCContinuousLearning` | `ContinuousLearningProofs` |
| `TrainingData` | exchanges, `format_training_pairs`, `InteractionJudge.curate`, `RehearsalBuffer.mix` | `MCTrainingData` | `TrainingDataProofs` |
| `RateLimiter` | `TokenBucketRateLimiter`, `Retry-After` | through `Gateway` | `GatewayProofs` |
| `Gateway` | security middleware, routes, guardrail, observers, readiness; composes `RateLimiter` and `CircuitBreaker` | `MCGateway` | `GatewayProofs` |
| `AgentGraph` | `create_tool_agent` inside `CompiledGraph.ainvoke` and `as_handler` | `MCAgentGraph` | `AgentGraphProofs` |
| `ChatWire` | `omni_to_openai`, `_to_anthropic`, answers, `StructuredOutput`; extends `AgentGraph` | `MCAgentGraph` | `AgentGraphProofs` |
| `PyRound` | Python's `round` of a quotient (external) | through its users | - |

Definitions whose comment begins "Mutant of" are deliberate bugs. No
specification uses them; each is paired in `PROJECT.json` with a property that
it breaks, which shows that the property can fail.

### CircuitBreaker, EngineCall, AdmissionPool

`pc[t]` is where the task is suspended: `queued` in the semaphore, `calling` in
`client.post`, `backoff` in the sleep of `with_retries`. `sem` is the semaphore
of Python 3.11 and later: a released slot is taken for the first waiter at once
(`woken`), and newcomers queue while anybody waits. `Enter` is the code from
the slot to the first attempt: `_maybe_half_open`, the two rejections, setting
the probe flag; a rejected call returns its slot in the same step. Failing and
cancelled calls leave through `Finish`; cancellation passes `breaker` on
unchanged because `except Exception` does not see `CancelledError`. `outcome`
is the exception mapping at the end of `_post`.

`AdmissionPool` is the abstract specification: at most `Size` callers inside,
the others in the order in which they came, nobody overtaking. The refinement
maps `inside` to the tasks that hold a slot or have been handed one, and
`waiting` to the semaphore's queue. One ended call may admit two callers: the
one it hands its slot to, and a second one when the first fails fast.

Abstractions: time is the fact that the reset window has elapsed or not; the
failure count stops at the threshold, the only value it is compared with; the
backend answers or does not (`up`); `stream_chat` bypasses the breaker and the
semaphore and is not in the module.

### LoRARegistry, AdapterLifecycle, AdapterDeployment, GatedServing

A registry is a record with `loaded` ordered by `loaded_at`. In
`AdapterLifecycle` `task[t]` is the LoRA operation a task is in, with the
arguments it captured before it suspended, so that a stale victim or a stale
active adapter is represented. A POST ends in one of three ways: answered,
raised without effect, raised with effect (`LostAnswers`). What the server does
with a load or unload of something it does or does not hold is left open: it
may accept or refuse. `watch` is the supervisor's suspension point: the interval
sleep, the restart backoff, `wait_ready`, or the load. `phase` follows
`engine.start` and `engine.stop`. `GatewayRestart` starts a new process after an
orderly stop, with the persisted registry.

`AdapterDeployment` follows a cycle from the trained adapter on: the eviction,
the load, one chat per golden case (first for the baseline, if there is none),
and activation or unloading, with the learner's lock held throughout. Chats
capture the active adapter when they are asked and are sent later; `swaps` counts
(up to two) how often the active adapter has changed since. `leaked` is history:
the adapters whose load took effect on the server and yet raised, which the
registry therefore never learns of. The server does not crash here.

`GatedServing` is its abstract specification, without gate, lock, registry list
or slots: an adapter goes live only out of `held` and by being cleared, what was
`serving` becomes the `fallback`, a rollback is the swap of the two and so its own
inverse (`rollback_lora`: "rolling forward again is equally cheap"), and only
spare adapters are fetched, dropped or judged again. The refinement maps
`serving` and `fallback` to the registry's `active` and `previous`, `held` to the
server's adapters, and `cleared` to those whose last score clears the bar. The
five invariants do not imply it: a rollback that forgets what it rolled back
from satisfies all of them and breaks `DeploymentIsGated`.

### InteractionBuffer, ContinuousLearning, TrainingData

In `ContinuousLearning` there is one `log()` task per message. `created` is the
message's timestamp, taken when it is built, `committed` the rows visible in the
table, so that a row may become visible long after its timestamp.
`_ensure_ready` is three steps (the test, the COUNT in the database, the
assignment) and is entered by `log()` and by a cycle's first call alike. A
cycle's program counter runs through the awaits of `run_cycle`; every one of
them may raise. `trained` and `torn` are history: how many deployed adapters a
row went into, and the rows whose cycle was cut between deployment and
watermark; so are `overtaken`, the messages that were on their way when a fetch
returned a newer row, `spent`, the rows of the table when `on_threshold` was last
called, and `seeded`, those when the counter was last seeded. Messages may commit
in any order, and a `log()` may fail before or after its commit took effect.
Timestamps are distinct. What curation, training and scoring decide is nondeterministic.
Duplicate logging of one message id (an upsert) is not modelled; the source
calls its drift harmless.

`TrainingData` is about content. A text is the index of the row it was logged in,
so that a pair says which message, tool outputs and reply it was made of; the
pairs of a cycle are a set, because `mix` shuffles them. Exchanges begin, log tool
rows, are answered with or without feedback, or fail, in any order within shared
sessions; cycles fetch, pair, curate, skip, fail and deploy. `Scan` is the loop
body of `format_training_pairs`, applied to a session's rows by the recursive
function in `Scanned`. The judge may like any subset of the pairs without feedback.
A learner with and without a curator are both initial states. `deployed` is
history: for each adapter that went live, the rows its cycle fetched and the pairs
it was trained on.

### RateLimiter and Gateway

Tokens are counted in units (`One` to a token) and time in ticks, which makes
the float arithmetic of the bucket exact. `level` is a reference implementation
beside the code: a leaky bucket that drains at the rate and takes `One` per
admitted request. Its value is the largest excess of admitted requests over the
rate, taken over all intervals that end now, so `level <= burst` is the textbook
statement of a rate limit. `promised` and `due` record what refused clients were
told.

A gateway client is an HTTP client or a socket with one exchange at a time.
`Arrival` is `SecurityMiddleware` (key, bucket, declared length, in that order);
an exchange is then suspended while it is read, in the two observer calls and
in the engine call. A message is the set of features the guardrail looks for;
`Screen` removes what it redacts. `answer` is the status a client saw, `logged`
what the observers have stored of the exchange. A socket survives an answer and
a guardrail error and is closed by anything else. `Ready` is `/health/ready`.
Engine calls go through `CircuitBreaker` only; queueing and retries are in
`EngineCall`. `Gated` says that the load balancer obeys readiness.

### AgentGraph and ChatWire

One action per awaited model or tool call; merging the node's update and
routing happen in the same step, as in `ainvoke`. The model may ask for any
list of calls or raise; a tool always yields an output, since `run_tools` turns
every exception into text. `ChatWire` has no state: it renders the conversation
of each model call in the OpenAI and Anthropic formats, with and without system
prompts and after each failed round of structured output. Its loops over a list
(`_to_anthropic`, the reading of an answer) are recursive functions, so that the
requests of a conversation of any length can be reasoned about.

## 3. Runs

| Run | Instance | Shows |
|---|---|---|
| `engine_calls` | 3 tasks, 2 slots, 2 attempts, threshold 2; two tasks cancellable, one sends bad requests; fair | `TypeOK`, `SlotAccounting`, `NoLostWakeup`, `BreakerCoherent`, `FailFast`, `FirstComeFirstServed`, `ProbeLostOnlyByCancel`, `PostReturns`, `RecoversUnlessCut` |
| `engine_cancelled_probe` | 2 tasks, one cancellable | violates `Recovers` |
| `adapter_supervised` | 1 operator, 2 adapters, 1 slot, 2 restarts, lost answers | `TypeOK`, `RegistryCoherent`, `StopIsFinal`, `DeadIsLoud`, `ReappliedAfterCrash` |
| `adapter_slow_boot` | as above with boots longer than `ready_timeout` | violates `ReappliedAfterCrash` |
| `deployment` | 2 learners, 1 chat, 5 names, 3 slots, 2 golden cases, tolerance 1, lost answers; symmetric | `TypeOK`, `StallsOnlyIfLeaked`, `OnlyGatedIsServed`, `InUseIsLoaded`, `ChatSurvivesSwap`, `DeploymentIsGated` |
| `learning_cycles` | 2 messages, threshold 2, 2 cycles, crashes, database faults, raced seeding; fair | `TypeOK`, `RetrainedOnlyIfTorn`, `SkippedOnlyIfOvertaken`, `MissedOnlyBySeeding`, `WatermarkAdvances`, `CycleEnds` |
| `learning_restart` | 3 messages, 1 cycle, crashes, no raced seeding | violates `ThresholdFires` |
| `learning_late_commit` | 3 messages, 1 cycle, no crash, no raced seeding | violates `NothingSkipped` |
| `training_data` | 3 exchanges, 2 sessions, 1 tool row, ratio 1/5, 6 golden pairs; symmetric | `TypeOK`, `PairsAreExact`, `SaidOnceTrainedOnce`, `RejectedIsNotTrained`, `ApprovedIsTrained` |
| `gateway` | 1 HTTP client, 1 socket, one valid key, one unknown, none; burst 2, one request a second in half-second ticks, threshold 1 | `TypeOK`, `RateBound`, `RetryAfterSuffices`, `AnsweredIsLogged`, `EveryMessageAnswered`, `ReadyAgain` |
| `gateway_gated` | the same behind a load balancer that obeys readiness | violates `ReadyAgain` |
| `agent_loop` | 4 turns of up to 2 calls, 2 repair rounds | `EndsOnAnswer`, `CallsAnswered`, `RequestIsWellFormed` |

### What the violations say

Each is an expected result, with the sentence of the repository it contradicts
quoted under `findings` in `PROJECT.json`.

* A half-open probe that is cancelled leaves `_probing` set for ever.
  `ProbeLostOnlyByCancel` shows that nothing else does, and `RecoversUnlessCut` that
  the breaker recovers otherwise.
* A restarted server slower than `ready_timeout` never gets its adapter back,
  and nothing reports it.
* A restart re-seeds the mark of the last `on_threshold` call from the rows in the
  table, and forgets those that were logged since that call: `on_threshold` does
  not come "every N logged messages". Overlapping first `log()` calls, each of which
  seeds after an await of its own, do the same without a restart.
  `MissedOnlyBySeeding` shows that these two, both of them effects of the seeding,
  are the only ways to miss it.
* A message takes its timestamp when it is built and commits several awaits
  later. A younger one may commit first and a cycle move the watermark to it; the
  older row is then never fetched. `SkippedOnlyIfOvertaken` shows that no row is
  lost in any other way.
* A gateway whose breaker is open is unready, and behind a load balancer that
  obeys readiness it gets no call that could close the breaker. Without the
  gating, or with any other traffic, `ReadyAgain` holds.

Two more findings are about runs that pass, because their property says what the
code does where a document says otherwise.

* Observers are documented as fire-and-forget and are awaited in the request path:
  a log that cannot store the reply takes the reply from the client, who gets a
  500. `AnsweredIsLogged` (a reply implies that both sides are stored) holds because
  of it, and would not if they were detached.
* A load that takes effect on the server and raises is in no registry, so no
  eviction finds it; enough of them fill the server, and the next load is posted
  to a full one, although "the continuous-learning loop never stalls on a full
  server". `StallsOnlyIfLeaked` leaves these adapters out of its count and shows
  that nothing else fills the server.

### Bounds

The smallest instance in which the interesting case happens, and one more
where the state space allows. `engine_calls` needs a holder, a woken waiter and a
sleeping waiter at once, and a slot freed in that moment: three tasks over two
slots, since a task whose call has ended is the next newcomer.
`deployment` needs the active adapter, its predecessor, a victim, a newcomer
and the model an old chat still names: five names; two golden cases make a
first and a last one, and a tolerance of one a candidate that is worse than the
bar and still accepted. `adapter_supervised` has one slot so that every load of
the second adapter is over capacity, and two restarts so that one can follow
another. `learning_cycles` needs two messages, one of which is trained on while the
other is built, stored or fetched, and two cycles, so that one holds the lock
with a batch while the other waits for it; with a threshold of two the count is
met exactly; `Cycles` also bounds the tasks `trigger` creates (a
trigger that finds none free is dropped: with two cycles queued a third would
only repeat them). `TrainedCap` makes the history of training finite;
`MaxCalls` bounds one answer of the model. `SeedRaces` lets other
calls overlap the seeding of the counter; it is on in `learning_cycles` and off in
the two violations that must not need a race, `learning_restart` and
`learning_late_commit`. `training_data` needs an exchange
inside another's, and one more for a cycle to cut; `MaxTools` bounds tool rows;
six golden pairs are more than one pair draws and fewer than two do, so the cap
is met. `gateway` has a burst of two so that a client can be refused with a
token half earned; `MaxRefused` bounds 4xx answers of the backend, each of which
opens a breaker of threshold 1.

## 4. What the code does that the properties leave out

Found while modelling, stated here because the properties name them as
conditions or because no sentence of the repository denies them.

* A call admitted before the breaker opened may end during a probe and clear
  the probe's flag, so two probes can be in flight, although the comment at
  `resilience.py:85` says one. `FailFast` still holds: the second is admitted
  only after another full window.
* After a supervised restart only the active adapter is loaded again; the
  registry still names the predecessor, and `rollback_lora` activates it
  although the server does not hold it.
* A crash between activation and `set_watermark` trains the same rows into a
  second adapter. `RetrainedOnlyIfTorn` shows that nothing else does.
* `establish_baseline` is documented to score the base model; it scores
  whatever is active, because `engine.chat` falls back to the active adapter.
* `Retry-After` is rounded to the nearest second: at less than one request a
  second a client that obeys it may come too early. `RetryAfterSuffices` is
  checked, and proved, for rates of at least one.
* A loop that loads adapters one at a time finds a slot; loads that overlap, which
  only an operator beside the learner can cause, see the same free slot.
* The frames of a socket are not metered; only its handshake is.
* An exchange that is in its handler when a cycle deploys loses its pair: the
  user row is behind the watermark, the reply alone makes none.
  `ApprovedIsTrained` names this as its exception.
* Overlapping exchanges of one session are paired across; REST clients without
  a `session_id` all share one session. `PairsAreExact` is about exchanges that
  did not overlap.
* `RehearsalBuffer.mix` rounds a quotient of floats; the model's ratio is an
  exact fraction, and the two may differ where the exact quotient is a half.

## 5. Fairness

Weak fairness is per task: the event loop runs every ready task, and every
`await` ends - HTTP calls and health checks have timeouts, backoffs and
intervals are sleeps, database, trainer and evaluator return or raise. The
breaker's window elapses because the clock advances. A spawned server boots or
dies. `Acquire` has strong fairness because `asyncio.Lock` is FIFO. No fairness
is assumed of operators, callers, crashes, or the backend's recovery; `Recovers`
therefore has as premises that the backend stays up, that callers keep calling and
that in the end none of their payloads is refused, and `RecoversUnlessCut` adds that
cancellations end and that none of them has cut a probe (with one that has, it
fails: `engine_cancelled_probe`).

In `Gateway` the dispatch of each message is weakly fair, reading a body or a
frame is not: a client may stay silent. `ReadyAgain` needs calls, which the
code cannot promise, so `Traffic` assumes of the HTTP client that a request it
could make again and again with a valid key is made some time, and that not all
of its messages are blocked or malformed (strong fairness, since the bucket and
the load balancer let it through only now and then). Under `Gated` the same
assumption is empty once the gateway is unready, which is the point of
`gateway_gated`.

## 6. Proofs

The assumptions are the named ASSUMEs on constants, which TLC evaluates in
every run, and where a theorem needs more, the hypothesis it states. These are
about less than all their module allows: `RetryAfterIsEnough` and `GatewayRetryAfterIsEnough` (at least one
request a second); the property is false without that hypothesis. The inductive invariants hold in the instances of
the runs as well: TLC checks them when they are named as INVARIANTs there.

All safety invariants and action properties of the runs are theorems, and so are
the three refinements: `EngineCall` of `AdmissionPool`, `AdapterDeployment` of
`GatedServing`, and the bucket inside `Gateway` of `RateLimiter`.

What a recursive definition computes is proved by induction on the number of
elements it has read, in `TrainingDataProofs` (`RangeInduction`) and in
`AgentGraphProofs` (`CountInduction`). The induction is stated of a set of numbers,
not of an operator, and rests on the well-foundedness of `<`: the least number
outside the set would have a predecessor inside it. `ScanExists` and `RunExists`
then show that the recursive function exists, and from there on it is used by
its equation.

### Request path

`EngineCallProofs`, for every finite set of tasks, any subset of them
cancellable or sending bad requests, and every positive `max_concurrent_requests`,
`retries` and `breaker_failure_threshold`:

* `TypeCorrect`, `SlotsAccountedFor`, `WakeupsAreKept`, `BreakerAgrees`: four
  invariants of `engine_calls`;
* `BreakerFailsFast`: its action property;
* `PostImplementsPool`: the refinement, `Spec => Pool!PoolSpec`;
* `ProbeSurvives` (`ProbeLostOnlyByCancel`): what recovery needs, and the one way
  to lose it, which `engine_cancelled_probe` shows.

The inductive invariant is `IndInv = Types /\ Queueing /\ BreakerOK`. Types adds
to `TypeOK` that a task in backoff has an attempt left, without which `Retry`
could exceed the budget. Queueing says what `SlotAccounting` and `NoLostWakeup`
say together, in terms of two functions of the semaphore alone: the tasks it
knows and the slots no call holds. The semaphore lemmas (`WakeNextFacts`,
`ReleaseFacts`, `ResumeFacts`, `AbandonFacts`) state how each operation changes
these two; the proof for an action of `_post` then only compares them with the
program counters. BreakerOK is a property of the breaker's record, preserved by
each of its transitions.

The refinement needs the same operations described as changes of the queue:
`ReleaseHandsOver`, `ResumeHandsOver` and `WakeNextHandsOver` say that what the
semaphore hands over is always a prefix of its queue. An ended call then leaves
the pool and admits the next one or two callers (`HandOverTwice`: the second
when the first fails fast), a call that queues joins it at the end, and a
cancelled one leaves it from wherever it stood. `PoolCounts` says that the
pool's own count of its members agrees with the semaphore's.

### LoRA adapters

`LoRARegistryProofs` has no theorem to read for its own sake: its lemmas say what
each operation of the registry does to its coherence, to the set of loaded
adapters and to those in use, for any names. `EvictionFacts` says that the
victim `load_lora_adapter` picks is loaded and not in use. Two proofs rest on it.

`AdapterLifecycleProofs`, for any number of tasks, adapters, slots and restarts,
lost answers and slow boots included:

* `RegistryStaysCoherent`. The step that could break it removes a victim that was
  chosen before an await and may have become active since; it does not, because
  `remove` clears whatever named the adapter. So nothing need be known of what a
  task holds, except that it is a name;
* `NothingOutlivesStop` (`StopIsFinal`). It is not inductive: that a stopped engine
  has no process holds because nobody is left to start one, which
  `SupervisorOK` says: outside the phase "serving" the supervisor is neither
  in its loop nor inside a load;
* `LifecycleTypeCorrect`.

`AdapterDeploymentProofs`, for any learners, chats, names, slots, golden cases
and tolerance, with lost answers: `DeploymentTypeCorrect`, `LoadsFindASlot`,
`ServedAdaptersAreGated`, `UsedAdaptersAreLoaded`, `ChatsSurviveSwaps`, that is
all five invariants of `deployment`, from one inductive invariant and, for the
first two, `Accounted`: what the server holds is registered or leaked. Its main
part, `CycleOK`, says what the cycle that holds the learner's lock may rely on
at each of its awaits: an eviction's victim is still loaded and not in use, a
candidate being loaded is not yet there and there is a place for it, one being
judged is loaded, on the server and not in use, and the bar is set when the
candidate is scored. Rollbacks do not take the lock: they are harmless because
a rollback swaps what is in use and brings nothing new into it (`RollbackFacts`).
`ChatOK` says which adapter a chat in flight names after no and after one change
of the active one: the active one, or its predecessor, which are both on the
server. For `LoadsFindASlot` (`StallsOnlyIfLeaked`), `CycleOK` says that the registry
has room when a load is posted, `LoadedCount` that a registry holds no more
adapters than its list is long, and `Accounted` carries this over to the server,
whatever POSTs raised with and without effect. `LockAssumption` says that the free lock is not a learner.

`DeploymentImplementsGate` is the refinement, `Spec => Gated!ServingSpec`, with one
lemma per kind of step. Evictions, loads and unloads are about adapters that
`CycleOK` says are not in use (`SpareFacts`), also when their answer is lost;
`RollbackFacts` makes a rollback a swap; and the step that sets the bar clears
nobody, because nothing has a score before there is a bar, which is the second
conjunct of `GateOK`.

### Learning

`ContinuousLearningProofs`, for any finite sets of messages and cycles and any
threshold, in three layers, none of them with a condition on the traffic: crashes,
database faults, commits in any order and raced seeding are included in all.

* `CycleInv`: only the holder of the lock is inside a cycle, the mark it read is
  still the watermark, and its batch consists of rows above it. Hence
  `WatermarkIsMonotone` and `ConsumedOnce` (`RetrainedOnlyIfTorn`): a row that went
  into a deployed adapter is at or below the watermark, in the batch of the cycle
  about to write it, or torn;
* `RowInv`: timestamps are distinct, and what a fetch missed between its mark and
  a row it returned was on its way at the time (`MissedOK`). Hence `NoRowIsLost`
  (`SkippedOnlyIfOvertaken`): when the watermark moves to the newest row of a
  batch, what it passes was in the batch, or was trained on before, or was
  overtaken (`PassedOK`);
* `SeedInv`: a row is stored only after the counter was seeded (`SeededFirst`), and
  from then on the counter has risen at least by the rows that ended their `log()`
  since the last call and are in neither `spent` nor `seeded` (`Counted`). Raced
  seeding only makes it count a row twice. Hence `ThresholdIsNotMissed`
  (`MissedOnlyBySeeding`) and, with the other layers, `LearningTypeCorrect`.

`MaxFacts` and `NewestRow` say that the greatest of a finite set of timestamps
exists; they are proved from the well-foundedness of strict subsets, not by
induction.

### Training data

`TrainingDataProofs`, for any exchanges, sessions, ratio and numbers of golden
pairs, with and without a curator. `RatioAssumption` says that the ratio is a
positive quotient of at most one, `PairsAssumption` that `min_pairs` is at least one
and the golden pairs are a number, and `NamesAssumption` that the names of stages
and of feedback are distinct and no session has one of them.

* `FormatTrainingPairsIsCorrect` is about the function alone, for any table of
  rows and any range of it: it returns exactly one pair for each reply that has a
  message waiting in its session, with the last message before it and the tool
  outputs between the two. Its invariant `ScanInv` says after each row whether a
  message waits, which, and with what context, and which pairs are complete; a
  waiting message is described by the table (`Waits`), not by the scan, so that
  the result does not mention how it was computed;
* `PairsAreExactAlways`, `SaidOnceTrainedOnceAlways`, `RejectedIsNotTrainedAlways`,
  `ApprovedIsTrainedAlways` and `TypeCorrect`: all five invariants of
  `training_data`, from `IndInv = TypeOK /\ RowsInv /\ CycleInv /\ DeployedInv`.
  RowsInv relates an exchange to its rows: all in one session, the message first,
  the reply last. CycleInv and DeployedInv say of the running cycle and of each
  deployed one that its pairs are among those of the rows it fetched, that those
  the user approved are all there and, behind a curator, those the user rejected
  are not; and that the ranges of the deployed cycles follow one another from the
  first row to the watermark. None of the five is
  inductive alone: that a text is trained once needs both that a scan uses a row
  in one pair and that no row lies in two ranges.

### Gateway

`GatewayProofs` begins with the limiter by itself, for every set of keys, rate, burst and clock resolution:

* `RateIsBounded`: the inductive invariant ties code and reference together,
  `level[k] = Full - Available(bucket)`: what the leaky bucket holds is what the
  token bucket lacks. `RateBound` by itself is not inductive, since it knows
  nothing of the tokens. The step that needs an argument is `Tick`: a full
  bucket stops counting exactly when the leaky one is empty;
* `RetryAfterIsEnough`, for `Rate * TicksPerSecond >= One`: the invariant
  `Enough` says that what is available plus what will be earned by the promised
  time makes a token. A refused client lacks at most one token, so the rounded
  number of seconds, at least one, earns it.

Then the gateway, for any clients, keys and policy:

* `GatewayImplementsLimiter` (`Spec => LimiterSpec`): every action of the gateway
  is an action of the limiter or leaves its variables alone. Hence
  `GatewayRateIsBounded` and `GatewayRetryAfterIsEnough`, the limiter's theorems
  for the composition, without a second proof;
* `UnknownKeysAreNotMetered`: with authentication on, the table of buckets is a
  subset of the configured keys, because the key is checked before the bucket;
* `LogAgreesWithAnswers` (`AnsweredIsLogged`). The inductive invariant `LogInv`
  is a relation `Consistent` between stage, message, log and answer, one client
  at a time: it adds what is stored at each stage of an exchange and that the
  carried message has been screened. The lemma `OneExchange` reduces a step to
  the client that takes it;
* `GatewayTypeCorrect`, from `LogInv` (an exchange stores two rows at most), the
  limiter's invariant and `Counters`. `RefusedAssumption` says that the bound
  `MaxRefused` is a number.

### Agent graph

`AgentGraphProofs`, for every `max_steps`, any answers of the model and any number
of repair rounds:

* `BoundsAgree`: the error path of `ainvoke` is unreachable for an agent. The
  invariant `Counting` makes the number of nodes run a function of the number
  of turns: `2 * steps` before a model call, `2 * steps - 1` elsewhere;
* `EveryCallAnswered` and `ReplyIsAnswer`: the invariant `Converses` says that
  every answer but the one in progress has its outputs, and that `outputs` is
  the prefix of those still to be merged. `CallsAnswered` alone is not
  inductive: it says nothing of the local list;
* `AgentTypeCorrect`;
* `RequestsAlwaysWellFormed` (`RequestIsWellFormed`). The invariant `Telling` gives
  the turns of the request as a function of what the model asked for (`TurnsOf`):
  the user's, then for each answer the turn with its calls and the turn with
  their results. A round of the agent adds one such pair (`RoundTold`, an induction
  on the outputs: the first begins a turn, the others join it), an answer that did
  not validate adds a pair in words (`FailuresAlternate`), a system prompt adds
  none (`SystemLeavesTheList`). That turns alternate and answer one another, and
  that reading the calls back gives what was asked (`IdsOfBlocks`), is then a fact
  about `TurnsOf`. The property alone is not inductive: it holds only before a
  model call, and says nothing of the conversation while tools run.

### Only model-checked

All liveness, which is out of the prover's reach: `PostReturns`, `RecoversUnlessCut`,
`DeadIsLoud`, `ReappliedAfterCrash`, `CycleEnds`, `EveryMessageAnswered`,
`ReadyAgain`. The safety facts it rests on (no wake-up lost, the probe in
flight, the lock's holder unique) are proved.

## 7. Plan

1. An abstract specification of the learner (what the trainer is given and
   when), with `ContinuousLearning` shown to implement it.
2. Per-request adapters of tenants in `AdapterDeployment`, with operators that
   activate any adapter.
3. The graph builder's `compile` and `_next` for arbitrary graphs; `chunk_text`
   against a reference.

### Reading a counterexample

`tlc -config Gateway_gated.cfg MCGateway` prints the states; each step is one
action, found in the module by name, and `map` in `PROJECT.json` gives the lines
of the repository it stands for.

## 8. Not modelled, and why

Command lines, environments and payloads of backends are pure construction.
Telemetry, metrics, logging, prompts and skills produce output only. The
sandbox's behaviour is the docker daemon's. Chunking and search of the retrieval
store are text and similarity. Tool schemas, regular-expression guardrails, the
judge's scores and the matching of golden cases are decisions about text, which
enter a model as an outcome. Tenancy is a lookup; its hazard is listed. A
streamed chat passes neither semaphore nor breaker and changes no state. A
gateway that dies without stopping its server, a torn registry file and the
clock's ties between two timestamps are outside the models and listed as
hazards.

Left out of modules that model the rest: in `AdapterLifecycle` the engine is not
stopped while `start()` is still in its own `wait_ready`; in `TrainingData` the
activation and `set_watermark` are one step, since `ContinuousLearning` has the
cycle that is cut between them; in `ChatWire` only the conversation sent to the
engine is checked for its one system message (`posted`), not the attempts of
structured output, each of which puts a system message of its own in front of
it; in `Gateway` an observer that stored its row and then raised.
