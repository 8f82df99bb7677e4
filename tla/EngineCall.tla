----------------------------- MODULE EngineCall -----------------------------
(***************************************************************************)
(* ModelEngine._post: every HTTP call to the serving backend goes through  *)
(* a backpressure semaphore, a circuit breaker and a retry loop, in that   *)
(* order from the outside in (engine.py, resilience.py).                   *)
(*                                                                         *)
(* All tasks share one asyncio event loop, so the code between two awaits  *)
(* is one step here.  A task suspends at three places: in the queue of the *)
(* semaphore, in client.post ("calling") and in the sleep between two      *)
(* attempts ("backoff").                                                   *)
(***************************************************************************)
EXTENDS Integers, Sequences, FiniteSets, SequencesExt, CircuitBreaker

CONSTANTS
    Tasks,            \* the asyncio tasks that call _post
    Cancellable,      \* those their owner may cancel at an await
    BadRequests,      \* those whose payload the backend answers with a 4xx
    MaxConcurrent,    \* config.max_concurrent_requests
    Retries           \* config.retries

ASSUME TasksAssumption == /\ IsFiniteSet(Tasks)
                          /\ Cancellable \subseteq Tasks
                          /\ BadRequests \subseteq Tasks
ASSUME BoundsAssumption == /\ MaxConcurrent \in Nat \ {0}
                           /\ Retries \in Nat \ {0}

VARIABLES
    pc,        \* where each task is suspended
    attempt,   \* the attempt of with_retries a task is in, 0 outside _post
    outcome,   \* how the last _post of a task ended
    sem,       \* the asyncio.Semaphore: value, waiters, woken
    inFlight,  \* engine.in_flight
    breaker,   \* the CircuitBreaker: state, failures, elapsed, probing
    probe,     \* history: the tasks whose current call was let in half-open
    up         \* whether the backend is answering

vars == <<pc, attempt, outcome, sem, inFlight, breaker, probe, up>>

PC == {"idle", "queued", "calling", "backoff"}
Outcome == {"none", "ok", "client_error", "unavailable", "cancelled"}
Holders == {t \in Tasks : pc[t] \in {"calling", "backoff"}}

-----------------------------------------------------------------------------
(* asyncio.Semaphore.  A released slot is handed to the first waiter, which *)
(* runs later ("woken"); until it has run, newcomers queue behind it.       *)

Locked(s) == s.value = 0 \/ s.waiters # <<>> \/ s.woken # {}

\* Mutant of Release: the freed slot is not handed to the first waiter.
ReleaseNoWake(s) == [s EXCEPT !.value = @ + 1]

\* Mutant of WakeNext: the caller that came last is served first.
WakeNextLast(s) ==
    IF s.waiters = <<>> THEN s
    ELSE [value   |-> s.value - 1,
          waiters |-> Front(s.waiters),
          woken   |-> s.woken \cup {Last(s.waiters)}]

WakeNext(s) ==
    IF s.waiters = <<>> THEN s
    ELSE [value   |-> s.value - 1,
          waiters |-> Tail(s.waiters),
          woken   |-> s.woken \cup {Head(s.waiters)}]

Release(s) == WakeNext([s EXCEPT !.value = @ + 1])

\* Mutant of Resume: a wake-up is not passed on.
ResumeNoWake(s, t) == [s EXCEPT !.woken = @ \ {t}]

\* A woken waiter runs and keeps its slot; it passes a wake-up on if slots
\* were freed meanwhile.
Resume(s, t) ==
    LET r == [s EXCEPT !.woken = @ \ {t}]
    IN  IF r.value > 0 THEN WakeNext(r) ELSE r

\* CancelledError inside acquire(): a woken task gives its slot back, one
\* that was still waiting only leaves the queue.
Abandon(s, t) ==
    IF t \in s.woken
      THEN Release([s EXCEPT !.woken = @ \ {t}])
      ELSE [s EXCEPT !.waiters = RemoveAt(@, CHOOSE i \in DOMAIN @ : @[i] = t)]

-----------------------------------------------------------------------------
Init ==
    /\ pc = [t \in Tasks |-> "idle"]
    /\ attempt = [t \in Tasks |-> 0]
    /\ outcome = [t \in Tasks |-> "none"]
    /\ sem = [value |-> MaxConcurrent, waiters |-> <<>>, woken |-> {}]
    /\ inFlight = 0
    /\ breaker = NewBreaker
    /\ probe = {}
    /\ up = TRUE

\* The code a task runs once it has its slot, up to its next await: in_flight
\* is raised, the breaker is asked, and the call either starts its first
\* attempt or fails fast, lowering in_flight and releasing the slot again.
Enter(t, s) ==
    LET b == MaybeHalfOpen(breaker)
    IN  IF Rejects(b)
          THEN /\ breaker' = b
               /\ sem' = Release(s)
               /\ pc' = [pc EXCEPT ![t] = "idle"]
               /\ outcome' = [outcome EXCEPT ![t] = "unavailable"]
               /\ UNCHANGED <<attempt, inFlight, probe>>
          ELSE /\ breaker' = Admit(b)
               /\ probe' = IF b.state = "half_open" THEN probe \cup {t} ELSE probe
               /\ sem' = s
               /\ pc' = [pc EXCEPT ![t] = "calling"]
               /\ attempt' = [attempt EXCEPT ![t] = 1]
               /\ inFlight' = inFlight + 1
               /\ UNCHANGED outcome

\* _post with a slot free at once.
Post(t) ==
    /\ pc[t] = "idle"
    /\ ~Locked(sem)
    /\ Enter(t, [sem EXCEPT !.value = @ - 1])
    /\ UNCHANGED up

\* _post with every slot taken: the task waits in the semaphore.
Queue(t) ==
    /\ pc[t] = "idle"
    /\ Locked(sem)
    /\ sem' = [sem EXCEPT !.waiters = Append(@, t)]
    /\ pc' = [pc EXCEPT ![t] = "queued"]
    /\ UNCHANGED <<attempt, outcome, inFlight, breaker, probe, up>>

\* A woken task gets to run.
Dequeue(t) ==
    /\ t \in sem.woken
    /\ Enter(t, Resume(sem, t))
    /\ UNCHANGED up

\* The call leaves breaker.call and _post: in_flight falls, the slot is free.
Finish(t, b, result) ==
    /\ breaker' = b
    /\ sem' = Release(sem)
    /\ inFlight' = inFlight - 1
    /\ pc' = [pc EXCEPT ![t] = "idle"]
    /\ attempt' = [attempt EXCEPT ![t] = 0]
    /\ outcome' = [outcome EXCEPT ![t] = result]
    /\ probe' = probe \ {t}
    /\ UNCHANGED up

Succeed(t) ==
    /\ pc[t] = "calling"
    /\ up
    /\ t \notin BadRequests
    /\ Finish(t, RecordSuccess(breaker), "ok")

\* A 4xx is not transient: with_retries raises it at once, the breaker counts
\* it, and _post re-raises it as it is.
ClientError(t) ==
    /\ pc[t] = "calling"
    /\ up
    /\ t \in BadRequests
    /\ Finish(t, RecordFailure(breaker), "client_error")

\* Mutant of Backoff: one attempt too many.
BackoffOffByOne(t) ==
    /\ pc[t] = "calling"
    /\ ~up
    /\ attempt[t] <= Retries
    /\ pc' = [pc EXCEPT ![t] = "backoff"]
    /\ UNCHANGED <<attempt, outcome, sem, inFlight, breaker, probe, up>>

\* A transient failure (connection refused, timeout, 5xx) with attempts left.
Backoff(t) ==
    /\ pc[t] = "calling"
    /\ ~up
    /\ attempt[t] < Retries
    /\ pc' = [pc EXCEPT ![t] = "backoff"]
    /\ UNCHANGED <<attempt, outcome, sem, inFlight, breaker, probe, up>>

Retry(t) ==
    /\ pc[t] = "backoff"
    /\ pc' = [pc EXCEPT ![t] = "calling"]
    /\ attempt' = [attempt EXCEPT ![t] = @ + 1]
    /\ UNCHANGED <<outcome, sem, inFlight, breaker, probe, up>>

\* The last attempt fails, or the failure is one with_retries does not repeat
\* (a transport error that is not in _is_transient's list).
Fail(t) ==
    /\ pc[t] = "calling"
    /\ ~up
    /\ Finish(t, RecordFailure(breaker), "unavailable")

\* Mutant of CancelHeld: in_flight is only lowered on return, not in `finally`.
CancelHeldKeepsInFlight(t) ==
    /\ t \in Cancellable
    /\ pc[t] \in {"calling", "backoff"}
    /\ sem' = Release(sem)
    /\ pc' = [pc EXCEPT ![t] = "idle"]
    /\ attempt' = [attempt EXCEPT ![t] = 0]
    /\ outcome' = [outcome EXCEPT ![t] = "cancelled"]
    /\ probe' = probe \ {t}
    /\ UNCHANGED <<breaker, inFlight, up>>

\* CancelledError passes `except Exception`: the breaker records nothing,
\* while `finally` and the semaphore's __aexit__ still run.
CancelHeld(t) ==
    /\ t \in Cancellable
    /\ pc[t] \in {"calling", "backoff"}
    /\ Finish(t, breaker, "cancelled")

CancelQueued(t) ==
    /\ t \in Cancellable
    /\ pc[t] = "queued"
    /\ sem' = Abandon(sem, t)
    /\ pc' = [pc EXCEPT ![t] = "idle"]
    /\ outcome' = [outcome EXCEPT ![t] = "cancelled"]
    /\ UNCHANGED <<attempt, inFlight, breaker, probe, up>>

\* reset_timeout seconds have passed since opened_at.
WindowElapses ==
    /\ breaker.state = "open"
    /\ ~breaker.elapsed
    /\ breaker' = [breaker EXCEPT !.elapsed = TRUE]
    /\ UNCHANGED <<pc, attempt, outcome, sem, inFlight, probe, up>>

\* The backend goes down or comes back.
BackendFlips ==
    /\ up' = ~up
    /\ UNCHANGED <<pc, attempt, outcome, sem, inFlight, breaker, probe>>

Step(t) == \/ Dequeue(t) \/ Succeed(t) \/ ClientError(t)
           \/ Backoff(t) \/ Retry(t) \/ Fail(t)

Next ==
    \/ \E t \in Tasks : \/ Post(t) \/ Queue(t) \/ Dequeue(t)
                        \/ Succeed(t) \/ ClientError(t)
                        \/ Backoff(t) \/ Retry(t) \/ Fail(t)
                        \/ CancelHeld(t) \/ CancelQueued(t)
    \/ WindowElapses
    \/ BackendFlips

Spec == Init /\ [][Next]_vars

\* The event loop runs every ready task; an HTTP call ends because the client
\* has a timeout (request_timeout_s), a backoff because it is a sleep; the
\* clock reaches the end of the reset window.
Fairness == /\ \A t \in Tasks : WF_vars(Step(t))
            /\ WF_vars(WindowElapses)

FairSpec == Spec /\ Fairness

-----------------------------------------------------------------------------
(* Properties                                                              *)

TypeOK ==
    /\ pc \in [Tasks -> PC]
    /\ attempt \in [Tasks -> 0 .. Retries]
    /\ outcome \in [Tasks -> Outcome]
    /\ sem \in [value : 0 .. MaxConcurrent, waiters : Seq(Tasks), woken : SUBSET Tasks]
    /\ inFlight \in 0 .. MaxConcurrent
    /\ breaker \in Breakers
    /\ probe \subseteq Tasks
    /\ up \in BOOLEAN

\* engine.in_flight is the number of calls between the semaphore and the
\* backend, and every slot is free, handed to a woken waiter, or held by one
\* of those calls - through fast failures, errors and cancellations alike - so
\* never more than max_concurrent_requests reach the backend.
SlotAccounting ==
    /\ inFlight = Cardinality(Holders)
    /\ sem.value + Cardinality(sem.woken) + Cardinality(Holders) = MaxConcurrent

\* A queued call is in the semaphore exactly once, and while a slot is free
\* some woken task is on its way to pass it on: no wake-up is lost when calls
\* fail fast or are cancelled in the queue.
NoLostWakeup ==
    /\ \A t \in Tasks : pc[t] = "queued" <=> (t \in sem.woken \/ t \in ToSet(sem.waiters))
    /\ IsInjective(sem.waiters) /\ sem.woken \cap ToSet(sem.waiters) = {}
    /\ sem.value > 0 /\ sem.waiters # <<>> => sem.woken # {}

\* The breaker's three fields agree: it is closed exactly while the failure
\* count is below the threshold, and half-open exactly while the probe flag is
\* set.  Hence a half-open breaker with its flag set only ever leaves that
\* state through a call that was already let in.
BreakerCoherent ==
    /\ breaker.state = "closed" <=> breaker.failures < FailureThreshold
    /\ breaker.state = "half_open" <=> breaker.probing

Admitted(t) == pc[t] \notin {"calling", "backoff"} /\ pc'[t] = "calling"

\* While the breaker is half-open, or open with its window running, nobody
\* new reaches the backend: "the rest fail fast instead of stampeding a server
\* that may still be recovering" (CircuitBreaker.call).
FailFast ==
    [][(breaker.state = "half_open" \/ (breaker.state = "open" /\ ~breaker.elapsed))
         => \A t \in Tasks : ~Admitted(t)]_vars

ProbeInFlight == breaker.state = "half_open" => probe # {}

\* A half-open breaker has a probe in flight, whose end will move it on,
\* although calls let in earlier may end meanwhile and clear the probe flag; the
\* one step that leaves it half-open without a probe is the cancellation of a
\* task whose call was the probe, which CircuitBreaker.call does not see.
ProbeLostOnlyByCancel ==
    [][ProbeInFlight =>
         \/ ProbeInFlight'
         \/ \E t \in probe : t \notin probe' /\ outcome'[t] = "cancelled"]_vars

\* Every queued call returns: the semaphore queue drains whatever the backend
\* does, because each attempt ends and each ended call passes its slot on.
PostReturns == \A t \in Tasks : pc[t] # "idle" ~> pc[t] = "idle"

Callers == Tasks \ BadRequests
Traffic == \A t \in Callers : WF_vars(Post(t))
NoBadRequests == \A t \in BadRequests : pc[t] = "idle"

\* Once the backend answers for good, callers keep calling and none of them
\* sends a payload it refuses, the breaker closes and stays closed ("Success
\* closes the breaker").
Recovers == (<>[](up /\ NoBadRequests) /\ Traffic) => <>[](breaker.state = "closed")

Cancels == \E t \in Tasks : CancelHeld(t) \/ CancelQueued(t)

\* The same with cancellations, as long as they end at last and none of them
\* has left a half-open breaker without its probe (ProbeLostOnlyByCancel).
RecoversUnlessCut == (<>[]ProbeInFlight /\ <>[][~Cancels]_vars) => Recovers

-----------------------------------------------------------------------------
\* The callers inside are those that hold a slot or have been handed one.
Pool == INSTANCE AdmissionPool WITH
            Callers <- Tasks, Size <- MaxConcurrent,
            inside <- Holders \cup sem.woken, waiting <- sem.waiters

\* _post implements the first-come, first-served pool of AdmissionPool: fast
\* failures, errors and cancellations neither overfill it nor let a newcomer
\* overtake a caller that queued before it.
FirstComeFirstServed == Pool!PoolSpec
=============================================================================
