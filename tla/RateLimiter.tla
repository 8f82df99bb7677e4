----------------------------- MODULE RateLimiter -----------------------------
(***************************************************************************)
(* TokenBucketRateLimiter (security.py): one token bucket per API key,     *)
(* refilled by the time since its last use, and the Retry-After header     *)
(* that SecurityMiddleware computes from it.                               *)
(*                                                                         *)
(* Tokens are counted in units, One of them to a token; the clock advances *)
(* in ticks and refills Rate units a tick.  A bucket keeps the ticks since *)
(* its timestamp instead of the timestamp, and stops counting them once it *)
(* is full, where min() makes them irrelevant.                             *)
(***************************************************************************)
EXTENDS PyRound

CONSTANTS
    Keys,            \* the API keys a client may send, and "anonymous"
    One,             \* units in a token
    Rate,            \* rate_limit_rps, as units a tick
    Burst,           \* rate_limit_burst, in tokens
    TicksPerSecond

ASSUME LimiterAssumption == /\ One \in Nat \ {0} /\ Rate \in Nat \ {0}
                            /\ Burst \in Nat \ {0} /\ TicksPerSecond \in Nat \ {0}

VARIABLES
    buckets,   \* the (tokens, timestamp) of each key; a fresh one if it has none
    metered,   \* the keys in the dictionary
    level,     \* reference: the leaky bucket that the admitted requests fill
    promised,  \* history: the keys last told to come back later
    due        \* history: ticks until the earliest time they were told

limiterVars == <<buckets, metered, level, promised, due>>

Full == Burst * One
Fresh == [tokens |-> Full, idle |-> 0]

Least(a, b) == IF a < b THEN a ELSE b
Excess(a, b) == IF a > b THEN a - b ELSE 0

\* What allow() finds in a bucket.
Available(b) == Least(Full, b.tokens + b.idle * Rate)

Allows(b) == Available(b) >= One

\* Mutant of RetryAfter: the wait is rounded without the minimum of one second.
RetryAfterUnbounded(b) == RoundHalfEven(One - Available(b), Rate * TicksPerSecond)

\* The header's seconds: max(1, round(retry_after)).
RetryAfter(b) ==
    LET s == RoundHalfEven(One - Available(b), Rate * TicksPerSecond)
    IN  IF s < 1 THEN 1 ELSE s

LimiterInit ==
    /\ buckets = [k \in Keys |-> Fresh]
    /\ metered = {}
    /\ level = [k \in Keys |-> 0]
    /\ promised = {}
    /\ due = [k \in Keys |-> 0]

\* Mutant of Allow: the token is taken whether or not there is one.
AllowUnchecked(k) ==
    /\ buckets' = [buckets EXCEPT ![k] = [tokens |-> Available(@) - One, idle |-> 0]]
    /\ metered' = metered \cup {k}
    /\ level' = [level EXCEPT ![k] = @ + One]
    /\ promised' = promised \ {k}
    /\ due' = [due EXCEPT ![k] = 0]

\* allow() returns None.
Allow(k) ==
    /\ Allows(buckets[k])
    /\ buckets' = [buckets EXCEPT ![k] = [tokens |-> Available(@) - One, idle |-> 0]]
    /\ metered' = metered \cup {k}
    /\ level' = [level EXCEPT ![k] = @ + One]
    /\ promised' = promised \ {k}
    /\ due' = [due EXCEPT ![k] = 0]

\* Mutant of Deny: the refill is stored under the old timestamp and counts twice.
DenyKeepsTimestamp(k) ==
    /\ ~Allows(buckets[k])
    /\ buckets' = [buckets EXCEPT ![k].tokens = Available(buckets[k])]
    /\ metered' = metered \cup {k}
    /\ promised' = promised \cup {k}
    /\ due' = LET told == RetryAfter(buckets[k]) * TicksPerSecond
              IN  [due EXCEPT ![k] = IF k \in promised THEN Least(@, told) ELSE told]
    /\ UNCHANGED level

\* allow() returns the seconds until the next token.
Deny(k) ==
    /\ ~Allows(buckets[k])
    /\ buckets' = [buckets EXCEPT ![k] = [tokens |-> Available(@), idle |-> 0]]
    /\ metered' = metered \cup {k}
    /\ promised' = promised \cup {k}
    /\ due' = LET told == RetryAfter(buckets[k]) * TicksPerSecond
              IN  [due EXCEPT ![k] = IF k \in promised THEN Least(@, told) ELSE told]
    /\ UNCHANGED level

Tick ==
    /\ buckets' = [k \in Keys |-> IF Available(buckets[k]) = Full THEN buckets[k]
                                  ELSE [buckets[k] EXCEPT !.idle = @ + 1]]
    /\ level' = [k \in Keys |-> Excess(level[k], Rate)]
    /\ due' = [k \in Keys |-> Excess(due[k], 1)]
    /\ UNCHANGED <<metered, promised>>

LimiterNext == (\E k \in Keys : Allow(k) \/ Deny(k)) \/ Tick

LimiterSpec == LimiterInit /\ [][LimiterNext]_limiterVars

-----------------------------------------------------------------------------
(* Properties                                                              *)

LimiterTypeOK ==
    /\ buckets \in [Keys -> [tokens : 0 .. Full, idle : Nat]]
    /\ level \in [Keys -> Nat] /\ due \in [Keys -> Nat]
    /\ metered \subseteq Keys /\ promised \subseteq metered

\* In every interval of time the requests admitted for a key are at most the
\* burst plus what the rate earned in it.  The leaky bucket `level`, which
\* drains at the rate and takes One per admitted request, holds the largest
\* excess over any interval that ends now; it never passes the burst.
RateBound == \A k \in Keys : level[k] <= Full

\* A client that was refused and comes back after the Retry-After it was told
\* finds a token, unless another request of its key has taken it since.  (True
\* for rates of at least one request a second; see the README.)
RetryAfterSuffices ==
    \A k \in promised : due[k] = 0 => Allows(buckets[k])
=============================================================================
