--------------------------- MODULE CircuitBreaker ---------------------------
(***************************************************************************)
(* CircuitBreaker (resilience.py): the breaker as a value and the code     *)
(* that reads and changes it between two awaits.  opened_at and the clock  *)
(* are the one fact the code asks of them: has reset_timeout elapsed since *)
(* the breaker opened?                                                     *)
(***************************************************************************)
EXTENDS Naturals

CONSTANT FailureThreshold  \* config.breaker_failure_threshold

ASSUME ThresholdAssumption == FailureThreshold \in Nat \ {0}

BreakerState == {"closed", "open", "half_open"}

\* The failure count saturates at the threshold, the only value the code ever
\* compares it with: `failures >= failure_threshold` reads the same.
FailureCount == 0 .. FailureThreshold

Breakers == [state : BreakerState, failures : FailureCount,
             elapsed : BOOLEAN, probing : BOOLEAN]

NewBreaker == [state |-> "closed", failures |-> 0, elapsed |-> FALSE, probing |-> FALSE]

-----------------------------------------------------------------------------
\* Mutant of MaybeHalfOpen: the elapsed window is not noticed.
MaybeHalfOpenNever(b) == b

MaybeHalfOpen(b) ==
    IF b.state = "open" /\ b.elapsed THEN [b EXCEPT !.state = "half_open"] ELSE b

\* Mutant of Rejects: the half-open state lets everybody through.
RejectsOpenOnly(b) == b.state = "open"

\* What call() finds once _maybe_half_open has run.
Rejects(b) == b.state = "open" \/ (b.state = "half_open" /\ b.probing)

\* A call that is let in half-open is the probe.
Admit(b) == [b EXCEPT !.probing = @ \/ b.state = "half_open"]

\* Mutant of RecordFailure: the probe flag survives a failed probe.
RecordFailureKeepsProbe(b) ==
    LET n == IF b.failures < FailureThreshold THEN b.failures + 1 ELSE b.failures
        opens == b.state = "half_open" \/ n >= FailureThreshold
    IN  [state    |-> IF opens THEN "open" ELSE b.state,
         failures |-> n,
         elapsed  |-> IF opens THEN FALSE ELSE b.elapsed,
         probing  |-> b.probing]

RecordFailure(b) ==
    LET n == IF b.failures < FailureThreshold THEN b.failures + 1 ELSE b.failures
        opens == b.state = "half_open" \/ n >= FailureThreshold
    IN  [state    |-> IF opens THEN "open" ELSE b.state,
         failures |-> n,
         elapsed  |-> IF opens THEN FALSE ELSE b.elapsed,
         probing  |-> FALSE]

\* Mutant of RecordSuccess: the count is reset but the state is not closed.
RecordSuccessStaysHalfOpen(b) == [b EXCEPT !.failures = 0, !.probing = FALSE]

RecordSuccess(b) ==
    [b EXCEPT !.state = "closed", !.failures = 0, !.probing = FALSE]
=============================================================================
