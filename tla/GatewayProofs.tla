---------------------------- MODULE GatewayProofs ----------------------------
(***************************************************************************)
(* Theorems about RateLimiter and Gateway, for any clients, keys, rates    *)
(* and thresholds: the token bucket admits no more than its burst and rate *)
(* in any interval, and its Retry-After is long enough; the gateway uses   *)
(* its rate limiter only as RateLimiter allows, so both hold of the whole  *)
(* gateway; and the interaction log agrees with what the client was told.  *)
(***************************************************************************)
EXTENDS Gateway, TLAPS

-----------------------------------------------------------------------------
(* The rate limiter                                                        *)

\* What is missing from a full bucket is the level of the reference, and a
\* refused client's bucket will hold a token when its time has come.
Conforms(k) == level[k] = Full - Available(buckets[k])
Enough(k) == k \in promised => Available(buckets[k]) + Rate * due[k] >= One

LimiterInv == /\ LimiterTypeOK
              /\ \A k \in Keys : Conforms(k)

\* A full bucket holds a token.
LEMMA FullNat == Full \in Nat /\ Full >= One
BY LimiterAssumption DEF Full

\* A bucket's content is between nothing and the burst.
LEMMA AvailableFacts ==
    ASSUME NEW b \in [tokens : 0 .. Full, idle : Nat]
    PROVE  /\ Available(b) \in 0 .. Full
           /\ \A n \in 0 .. Full : Available([tokens |-> n, idle |-> 0]) = n
           /\ Available(b) # Full => Available([b EXCEPT !.idle = @ + 1]) = Least(Full, Available(b) + Rate)
<1>1. b.tokens \in 0 .. Full /\ b.idle \in Nat /\ Rate \in Nat /\ Full \in Nat
  BY LimiterAssumption, FullNat
<1>2. b.idle * Rate \in Nat /\ (b.idle + 1) * Rate = b.idle * Rate + Rate /\ 0 * Rate = 0
  BY <1>1
<1>3. Available(b) \in 0 .. Full
  BY <1>1, <1>2 DEF Available, Least
<1>4. ASSUME NEW n \in 0 .. Full
      PROVE  Available([tokens |-> n, idle |-> 0]) = n
  BY <1>1, <1>2 DEF Available, Least
<1>5. ASSUME Available(b) # Full
      PROVE  Available([b EXCEPT !.idle = @ + 1]) = Least(Full, Available(b) + Rate)
  <2>1. [b EXCEPT !.idle = @ + 1].tokens = b.tokens /\ [b EXCEPT !.idle = @ + 1].idle = b.idle + 1
    OBVIOUS
  <2>. QED  BY <1>1, <1>2, <1>5, <2>1 DEF Available, Least
<1>. QED  BY <1>3, <1>4, <1>5

\* Buckets are created full and the reference is empty.
LEMMA LimiterInitially == LimiterInit => LimiterInv
<1>. SUFFICES ASSUME LimiterInit PROVE LimiterInv
  OBVIOUS
<1>1. LimiterTypeOK
  BY FullNat DEF LimiterInit, LimiterTypeOK, Fresh
<1>2. Fresh \in [tokens : 0 .. Full, idle : Nat] /\ Available(Fresh) = Full
  <2>1. Fresh \in [tokens : 0 .. Full, idle : Nat] /\ Full \in 0 .. Full
    BY FullNat DEF Fresh
  <2>2. Available([tokens |-> Full, idle |-> 0]) = Full
    BY <2>1, AvailableFacts
  <2>. QED  BY <2>1, <2>2 DEF Fresh
<1>3. \A k \in Keys : Conforms(k)
  BY <1>2, FullNat DEF LimiterInit, Conforms
<1>. QED  BY <1>1, <1>3 DEF LimiterInv

\* An admitted request takes a token and adds one to the reference.
LEMMA AllowKeeps == ASSUME LimiterInv, NEW k \in Keys, Allow(k) PROVE LimiterInv'
<1>. DEFINE b == buckets[k]
            n == Available(b) - One
<1>1. b \in [tokens : 0 .. Full, idle : Nat] /\ One \in Nat /\ Full \in Nat
  BY LimiterAssumption, FullNat DEF LimiterInv, LimiterTypeOK
<1>2. Available(b) \in 0 .. Full /\ n \in 0 .. Full
  <2>1. Available(b) \in 0 .. Full
    BY <1>1, AvailableFacts
  <2>2. Available(b) >= One
    BY DEF Allow, Allows
  <2>. QED  BY <1>1, <2>1, <2>2
<1>3. buckets' = [buckets EXCEPT ![k] = [tokens |-> n, idle |-> 0]]
  BY DEF Allow
<1>4. Available([tokens |-> n, idle |-> 0]) = n
  BY <1>1, <1>2, AvailableFacts
<1>. HIDE DEF n, b
<1>5. LimiterTypeOK'
  BY <1>1, <1>2, <1>3 DEF LimiterInv, LimiterTypeOK, Allow
<1>6. ASSUME NEW j \in Keys PROVE Conforms(j)'
  <2>1. CASE j = k
    <3>1. buckets'[j] = [tokens |-> n, idle |-> 0] /\ level'[j] = level[k] + One
      BY <1>3, <2>1 DEF Allow, LimiterInv, LimiterTypeOK
    <3>2. level[k] = Full - Available(b)
      BY DEF LimiterInv, Conforms, b
    <3>. QED  BY <3>1, <3>2, <1>1, <1>2, <1>4 DEF Conforms, n
  <2>2. CASE j # k
    BY <1>3, <2>2 DEF Allow, Conforms, LimiterInv, LimiterTypeOK
  <2>. QED  BY <2>1, <2>2
<1>. QED  BY <1>5, <1>6 DEF LimiterInv

\* Retry-After is a positive number of seconds.
LEMMA RetryAfterPositive ==
    ASSUME NEW b \in [tokens : 0 .. Full, idle : Nat], ~Allows(b)
    PROVE  RetryAfter(b) \in Nat /\ RetryAfter(b) >= 1
<1>. DEFINE d == Rate * TicksPerSecond
            m == One - Available(b)
            s == RoundHalfEven(m, d)
<1>1. d \in Nat \ {0} /\ One \in Nat
  BY LimiterAssumption
<1>2. m \in Nat
  <2>1. Available(b) \in 0 .. Full /\ Full \in Nat
    BY AvailableFacts, FullNat
  <2>2. ~(Available(b) >= One)
    BY DEF Allows
  <2>. QED  BY <1>1, <2>1, <2>2
<1>3. m \div d \in Int
  <2>. HIDE DEF m, d
  <2>. QED  BY <1>1, <1>2
<1>4. s \in Int
  <2>. HIDE DEF m, d
  <2>. QED  BY <1>3 DEF RoundHalfEven
<1>5. RetryAfter(b) = IF s < 1 THEN 1 ELSE s
  BY DEF RetryAfter
<1>. HIDE DEF s
<1>. QED  BY <1>4, <1>5

\* A refusal takes nothing and promises a time at which a token is earned.
LEMMA DenyKeeps == ASSUME LimiterInv, NEW k \in Keys, Deny(k) PROVE LimiterInv'
<1>. DEFINE b == buckets[k]
            n == Available(b)
            told == RetryAfter(b) * TicksPerSecond
<1>1. b \in [tokens : 0 .. Full, idle : Nat] /\ Full \in Nat
  BY FullNat DEF LimiterInv, LimiterTypeOK
<1>2. n \in 0 .. Full /\ Available([tokens |-> n, idle |-> 0]) = n
  BY <1>1, AvailableFacts
<1>3. told \in Nat
  BY <1>1, RetryAfterPositive, LimiterAssumption DEF Deny
<1>4. /\ buckets' = [buckets EXCEPT ![k] = [tokens |-> n, idle |-> 0]]
      /\ due' = [due EXCEPT ![k] = IF k \in promised THEN Least(due[k], told) ELSE told]
  BY DEF Deny, LimiterInv, LimiterTypeOK
<1>. HIDE DEF n, told
<1>5. LimiterTypeOK'
  BY <1>2, <1>3, <1>4 DEF LimiterInv, LimiterTypeOK, Deny, Least
<1>6. ASSUME NEW j \in Keys PROVE Conforms(j)'
  <2>1. CASE j = k
    BY <1>2, <1>4, <2>1 DEF Deny, LimiterInv, LimiterTypeOK, Conforms, n
  <2>2. CASE j # k
    BY <1>4, <2>2 DEF Deny, Conforms, LimiterInv, LimiterTypeOK
  <2>. QED  BY <2>1, <2>2
<1>. QED  BY <1>5, <1>6 DEF LimiterInv

\* Time refills the bucket exactly as fast as it drains the reference.
LEMMA TickKeeps == ASSUME LimiterInv, Tick PROVE LimiterInv'
<1>1. ASSUME NEW k \in Keys
      PROVE  /\ buckets'[k] \in [tokens : 0 .. Full, idle : Nat]
             /\ Available(buckets'[k]) = Least(Full, Available(buckets[k]) + Rate)
  <2>1. buckets[k] \in [tokens : 0 .. Full, idle : Nat] /\ Full \in Nat /\ Rate \in Nat
    BY FullNat, LimiterAssumption DEF LimiterInv, LimiterTypeOK
  <2>2. Available(buckets[k]) \in 0 .. Full
    BY <2>1, AvailableFacts
  <2>3. CASE Available(buckets[k]) = Full
    <3>1. buckets'[k] = buckets[k]
      BY <2>3 DEF Tick
    <3>. QED  BY <3>1, <2>1, <2>3 DEF Least
  <2>4. CASE Available(buckets[k]) # Full
    <3>1. buckets'[k] = [buckets[k] EXCEPT !.idle = @ + 1]
      BY <2>4 DEF Tick
    <3>2. buckets'[k] \in [tokens : 0 .. Full, idle : Nat]
      BY <3>1, <2>1
    <3>. QED  BY <3>1, <3>2, <2>1, <2>4, AvailableFacts
  <2>. QED  BY <2>3, <2>4
<1>2. buckets' \in [Keys -> [tokens : 0 .. Full, idle : Nat]]
  BY <1>1 DEF Tick
<1>3. \A k \in Keys : Excess(level[k], Rate) \in Nat /\ Excess(due[k], 1) \in Nat
  BY LimiterAssumption DEF LimiterInv, LimiterTypeOK, Excess
<1>4. LimiterTypeOK'
  BY <1>2, <1>3 DEF LimiterInv, LimiterTypeOK, Tick
<1>5. ASSUME NEW k \in Keys PROVE Conforms(k)'
  <2>1. Available(buckets[k]) \in 0 .. Full /\ Full \in Nat /\ Rate \in Nat
    BY AvailableFacts, FullNat, LimiterAssumption DEF LimiterInv, LimiterTypeOK
  <2>2. level[k] = Full - Available(buckets[k]) /\ level'[k] = Excess(level[k], Rate)
    BY DEF LimiterInv, Conforms, Tick
  <2>. QED  BY <1>1, <2>1, <2>2 DEF Conforms, Excess, Least
<1>. QED  BY <1>4, <1>5 DEF LimiterInv

\* The invariant holds of every reachable state.
LEMMA AlwaysLimiterInv == LimiterSpec => []LimiterInv
<1>1. LimiterInv /\ [LimiterNext]_limiterVars => LimiterInv'
  <2>. SUFFICES ASSUME LimiterInv, [LimiterNext]_limiterVars PROVE LimiterInv'
    OBVIOUS
  <2>1. CASE UNCHANGED limiterVars
    BY <2>1 DEF limiterVars, LimiterInv, LimiterTypeOK, Conforms
  <2>. QED  BY <2>1, AllowKeeps, DenyKeeps, TickKeeps DEF LimiterNext
<1>. QED  BY <1>1, LimiterInitially, PTL DEF LimiterSpec

\* In any interval a key is admitted at most the burst and what the rate has
\* earned (allow).
THEOREM RateIsBounded == LimiterSpec => []RateBound
<1>1. LimiterInv => RateBound
  <2>. SUFFICES ASSUME LimiterInv, NEW k \in Keys PROVE level[k] <= Full
    BY DEF RateBound
  <2>1. buckets[k] \in [tokens : 0 .. Full, idle : Nat]
    BY DEF LimiterInv, LimiterTypeOK
  <2>2. Available(buckets[k]) \in 0 .. Full /\ Full \in Nat
    BY <2>1, AvailableFacts, FullNat
  <2>3. level[k] = Full - Available(buckets[k])
    BY DEF LimiterInv, Conforms
  <2>. QED  BY <2>2, <2>3
<1>. QED  BY <1>1, AlwaysLimiterInv, PTL

\* A client refused by a limiter of at least one request a second that waits
\* as long as Retry-After says finds a token (_reject_rate, allow).
THEOREM RetryAfterIsEnough ==
    ASSUME Rate * TicksPerSecond >= One
    PROVE  LimiterSpec => []RetryAfterSuffices
<1>. DEFINE Inv == LimiterInv /\ \A k \in Keys : Enough(k)
<1>0. One \in Nat /\ Rate \in Nat /\ TicksPerSecond \in Nat /\ Full \in Nat
  BY LimiterAssumption, FullNat
<1>1. LimiterInit => Inv
  BY LimiterInitially DEF LimiterInit, Enough
<1>2. ASSUME Inv, NEW k \in Keys, Allow(k), NEW j \in Keys PROVE Enough(j)'
  <2>1. CASE j = k
    BY <1>2, <2>1 DEF Allow, Enough
  <2>2. CASE j # k
    <3>1. buckets'[j] = buckets[j] /\ due'[j] = due[j] /\ (j \in promised' <=> j \in promised)
      BY <1>2, <2>2 DEF Allow, LimiterInv, LimiterTypeOK
    <3>. QED  BY <1>2, <3>1 DEF Enough
  <2>. QED  BY <2>1, <2>2
<1>3. ASSUME Inv, NEW k \in Keys, Deny(k), NEW j \in Keys PROVE Enough(j)'
  <2>1. CASE j = k
    <3>. DEFINE b == buckets[k]
                n == Available(b)
                r == RetryAfter(b)
                told == r * TicksPerSecond
    <3>1. b \in [tokens : 0 .. Full, idle : Nat] /\ due[k] \in Nat
      BY <1>3 DEF LimiterInv, LimiterTypeOK
    <3>2. n \in 0 .. Full /\ Available([tokens |-> n, idle |-> 0]) = n
      BY <3>1, AvailableFacts
    <3>3. r \in Nat /\ r >= 1
      BY <1>3, <3>1, RetryAfterPositive DEF Deny
    <3>4. buckets'[k] = [tokens |-> n, idle |-> 0]
      BY <1>3 DEF Deny, LimiterInv, LimiterTypeOK
    <3>5. due'[k] = IF k \in promised THEN Least(due[k], told) ELSE told
      BY <1>3 DEF Deny, LimiterInv, LimiterTypeOK
    <3>6. Rate * told = r * (Rate * TicksPerSecond) /\ told \in Nat
      <4>. HIDE DEF r
      <4>. QED  BY <1>0, <3>3
    <3>7. r * (Rate * TicksPerSecond) >= One
      <4>. DEFINE p == Rate * TicksPerSecond
      <4>1. p \in Nat /\ p >= One
        BY <1>0
      <4>. HIDE DEF r, p
      <4>2. r * p >= p
        BY <3>3, <4>1
      <4>3. r * p \in Nat
        BY <3>3, <4>1
      <4>4. r * p >= One
        BY <1>0, <4>1, <4>2, <4>3
      <4>. QED  BY <4>4 DEF p
    <3>8. k \in promised => n + Rate * due[k] >= One
      BY <1>3 DEF Enough
    <3>9. due'[k] = told \/ (k \in promised /\ due'[k] = due[k])
      BY <3>5 DEF Least
    <3>10. Available(buckets'[k]) = n
      BY <3>2, <3>4
    <3>11. n + Rate * told >= One
      <4>1. Rate * told \in Nat /\ Rate * told >= One
        <5>. HIDE DEF told, r
        <5>. QED  BY <3>6, <3>7, <1>0
      <4>. HIDE DEF n, told
      <4>. QED  BY <4>1, <3>2, <1>0
    <3>12. Available(buckets'[k]) + Rate * due'[k] >= One
      <4>. HIDE DEF n, told
      <4>. QED  BY <3>8, <3>9, <3>10, <3>11
    <3>. QED  BY <3>12, <2>1 DEF Enough
  <2>2. CASE j # k
    <3>1. buckets'[j] = buckets[j] /\ due'[j] = due[j] /\ (j \in promised' <=> j \in promised)
      BY <1>3, <2>2 DEF Deny, LimiterInv, LimiterTypeOK
    <3>. QED  BY <1>3, <3>1 DEF Enough
  <2>. QED  BY <2>1, <2>2
<1>4. ASSUME Inv, Tick, NEW k \in Keys PROVE Enough(k)'
  <2>. SUFFICES ASSUME k \in promised
                PROVE  Available(buckets'[k]) + Rate * due'[k] >= One
    BY <1>4 DEF Enough, Tick
  <2>1. /\ buckets[k] \in [tokens : 0 .. Full, idle : Nat] /\ due[k] \in Nat
        /\ due'[k] = Excess(due[k], 1)
    BY <1>4 DEF LimiterInv, LimiterTypeOK, Tick
  <2>2. Available(buckets[k]) \in 0 .. Full
    BY <2>1, AvailableFacts
  <2>3. Available(buckets'[k]) = Least(Full, Available(buckets[k]) + Rate)
    <3>1. CASE Available(buckets[k]) = Full
      <4>1. buckets'[k] = buckets[k]
        BY <1>4, <3>1 DEF Tick
      <4>. QED  BY <4>1, <3>1, <1>0 DEF Least
    <3>2. CASE Available(buckets[k]) # Full
      <4>1. buckets'[k] = [buckets[k] EXCEPT !.idle = @ + 1]
        BY <1>4, <3>2 DEF Tick
      <4>. QED  BY <4>1, <3>2, <2>1, AvailableFacts
    <3>. QED  BY <3>1, <3>2
  <2>4. Available(buckets[k]) + Rate * due[k] >= One
    BY <1>4 DEF Enough
  <2>5. CASE due[k] = 0
    <3>1. due'[k] = 0 /\ Rate * 0 = 0
      BY <2>1, <2>5, <1>0 DEF Excess
    <3>2. Available(buckets[k]) >= One
      BY <2>2, <2>4, <2>5, <3>1, <1>0
    <3>. QED  BY <2>2, <2>3, <3>1, <3>2, <1>0 DEF Least
  <2>6. CASE due[k] # 0
    <3>1. due'[k] = due[k] - 1 /\ Rate * (due[k] - 1) = Rate * due[k] - Rate
      BY <2>1, <2>6, <1>0 DEF Excess
    <3>2. Rate * due[k] \in Nat /\ Rate * (due[k] - 1) \in Nat /\ Full >= One
      <4>1. due[k] - 1 \in Nat /\ Full >= One
        BY <2>1, <2>6, FullNat
      <4>2. \A n \in Nat : Rate * n \in Nat
        BY <1>0
      <4>. QED  BY <4>1, <4>2, <2>1
    <3>3. CASE Full < Available(buckets[k]) + Rate
      BY <2>3, <3>1, <3>2, <3>3, <1>0 DEF Least
    <3>4. CASE ~(Full < Available(buckets[k]) + Rate)
      BY <2>2, <2>3, <2>4, <3>1, <3>2, <3>4, <1>0 DEF Least
    <3>. QED  BY <3>3, <3>4
  <2>. QED  BY <2>5, <2>6
<1>5. Inv /\ [LimiterNext]_limiterVars => Inv'
  <2>. SUFFICES ASSUME Inv, [LimiterNext]_limiterVars PROVE Inv'
    OBVIOUS
  <2>1. CASE UNCHANGED limiterVars
    BY <2>1 DEF limiterVars, LimiterInv, LimiterTypeOK, Conforms, Enough
  <2>. QED  BY <2>1, <1>2, <1>3, <1>4, AllowKeeps, DenyKeeps, TickKeeps DEF LimiterNext
<1>6. Inv => RetryAfterSuffices
  <2>. SUFFICES ASSUME Inv, NEW k \in promised, due[k] = 0 PROVE Allows(buckets[k])
    BY DEF RetryAfterSuffices
  <2>1. k \in Keys /\ Rate * due[k] = 0
    BY <1>0 DEF LimiterInv, LimiterTypeOK
  <2>2. Available(buckets[k]) \in 0 .. Full
    BY <2>1, AvailableFacts DEF LimiterInv, LimiterTypeOK
  <2>3. Available(buckets[k]) + Rate * due[k] >= One
    BY <2>1 DEF Enough
  <2>. QED  BY <2>1, <2>2, <2>3, <1>0 DEF Allows
<1>. HIDE DEF Inv
<1>. QED  BY <1>1, <1>5, <1>6, PTL DEF LimiterSpec

-----------------------------------------------------------------------------
(* The gateway                                                             *)

\* Whatever a request presents is metered under some key of the limiter.
LEMMA MeteredIsKey == \A key \in Credentials : MeteredAs(key) \in Keys
BY KeysAssumption DEF Credentials, MeteredAs

\* Every step of the gateway asks the limiter once, lets its clock run, or
\* leaves it alone.
LEMMA StepIsLimited == [Next]_vars => [LimiterNext]_limiterVars
<1>. SUFFICES ASSUME [Next]_vars PROVE [LimiterNext]_limiterVars
  OBVIOUS
<1>1. ASSUME NEW c \in Clients, Arrival(c) PROVE [LimiterNext]_limiterVars
  <2>1. PICK key \in Credentials :
           \/ Unauthorised(c, key) \/ RateLimited(c, key)
           \/ DeclaredTooLarge(c, key) \/ PassedOn(c, key)
    BY <1>1 DEF Arrival
  <2>2. MeteredAs(key) \in Keys
    BY MeteredIsKey
  <2>3. CASE Unauthorised(c, key)
    BY <2>3 DEF Unauthorised
  <2>4. CASE RateLimited(c, key)
    BY <2>2, <2>4 DEF RateLimited, LimiterNext
  <2>5. CASE DeclaredTooLarge(c, key) \/ PassedOn(c, key)
    BY <2>2, <2>5 DEF DeclaredTooLarge, PassedOn, LimiterNext
  <2>. QED BY <2>1, <2>3, <2>4, <2>5
<1>2. ASSUME NEW c \in Clients, Unreadable(c) \/ Disconnect(c) \/ Dispatch(c)
      PROVE  [LimiterNext]_limiterVars
  BY <1>2 DEF Unreadable, BodyTooLarge, NotJson, NotAMessage, TurnBack, Disconnect, Dispatch, Handle, LogFails, Replied, EngineDown,
              EngineRefuses, Respond
<1>3. ASSUME NEW c \in Clients, NEW text \in Texts, Blocked(c, text) \/ Inbound(c, text)
      PROVE  [LimiterNext]_limiterVars
  BY <1>3 DEF Blocked, TurnBack, Inbound
<1>4. CASE ClockTicks
  BY <1>4 DEF ClockTicks, LimiterNext
<1>5. CASE WindowElapses \/ BackendFlips \/ DatabaseFlips
  BY <1>5 DEF WindowElapses, BackendFlips, DatabaseFlips
<1>6. CASE UNCHANGED vars
  BY <1>6 DEF vars
<1>. QED BY <1>1, <1>2, <1>3, <1>4, <1>5, <1>6 DEF Next, Unreadable

\* The gateway implements the rate limiter's own specification.
THEOREM GatewayImplementsLimiter == Spec => LimiterSpec
<1>1. Init => LimiterInit
  BY DEF Init
<1>. QED BY <1>1, StepIsLimited, PTL DEF Spec, LimiterSpec

\* However requests of all channels, refusals and ticks of the clock interleave,
\* the requests the gateway passes on for a key stay within burst and rate.
THEOREM GatewayRateIsBounded == Spec => []RateBound
BY GatewayImplementsLimiter, RateIsBounded, PTL

\* A client told to come back later is let in when it does, at one request a
\* second or more, unless its key was used meanwhile.
THEOREM GatewayRetryAfterIsEnough ==
    ASSUME Rate * TicksPerSecond >= One
    PROVE  Spec => []RetryAfterSuffices
BY GatewayImplementsLimiter, RetryAfterIsEnough, PTL

\* With auth on, however many requests come with unknown keys or with none,
\* the limiter's table never grows past the configured keys.
THEOREM UnknownKeysAreNotMetered == Spec => []OnlyKnownKeysAreMetered
<1>1. Init => OnlyKnownKeysAreMetered
  BY DEF Init, LimiterInit, OnlyKnownKeysAreMetered
<1>2. OnlyKnownKeysAreMetered /\ [Next]_vars => OnlyKnownKeysAreMetered'
  <2>. SUFFICES ASSUME AuthEnabled, metered \subseteq ApiKeys, [Next]_vars
                PROVE  metered' \subseteq ApiKeys
    BY DEF OnlyKnownKeysAreMetered
  <2>1. ASSUME NEW c \in Clients, Arrival(c) PROVE metered' \subseteq ApiKeys
    <3>1. PICK key \in Credentials :
             \/ Unauthorised(c, key) \/ RateLimited(c, key)
             \/ DeclaredTooLarge(c, key) \/ PassedOn(c, key)
      BY <2>1 DEF Arrival
    <3>2. Authorised(key) => MeteredAs(key) \in ApiKeys
      BY KeysAssumption DEF Authorised, MeteredAs
    <3>3. CASE Unauthorised(c, key)
      BY <3>3 DEF Unauthorised, limiterVars
    <3>4. CASE RateLimited(c, key)
      BY <3>2, <3>4 DEF RateLimited, Deny
    <3>5. CASE DeclaredTooLarge(c, key) \/ PassedOn(c, key)
      BY <3>2, <3>5 DEF DeclaredTooLarge, PassedOn, Allow
    <3>. QED BY <3>1, <3>3, <3>4, <3>5
  <2>2. ASSUME NEW c \in Clients, Unreadable(c) \/ Disconnect(c) \/ Dispatch(c)
        PROVE  UNCHANGED metered
    BY <2>2 DEF Unreadable, BodyTooLarge, NotJson, NotAMessage, TurnBack, Disconnect,
                Dispatch, Handle, LogFails, Replied, EngineDown, EngineRefuses, Respond,
                limiterVars
  <2>3. ASSUME NEW c \in Clients, NEW text \in Texts, Blocked(c, text) \/ Inbound(c, text)
        PROVE  UNCHANGED metered
    BY <2>3 DEF Blocked, TurnBack, Inbound, limiterVars
  <2>4. CASE ClockTicks
    BY <2>4 DEF ClockTicks, Tick
  <2>5. CASE WindowElapses \/ BackendFlips \/ DatabaseFlips
    BY <2>5 DEF WindowElapses, BackendFlips, DatabaseFlips, limiterVars
  <2>6. CASE UNCHANGED vars
    BY <2>6 DEF vars, limiterVars
  <2>. QED BY <2>1, <2>2, <2>3, <2>4, <2>5, <2>6 DEF Next, Unreadable
<1>. QED BY <1>1, <1>2, PTL DEF Spec

-----------------------------------------------------------------------------
(* The interaction log.  The invariant follows one exchange through its    *)
(* stages: s, m, l and a are the client's stage, message, log and answer.  *)

Clean(text) == "pii" \notin text /\ ~Blocks(text)
Refusal == {400, 401, 413, 422, 429, WsRefused}

Consistent(s, m, l, a) ==
    /\ s \in Stage /\ m \in Texts /\ l \in Seq(Texts \cup {Reply}) /\ a \in Status
    /\ s = "log_in" => l = <<>> /\ Clean(m)
    /\ s \in {"handler", "log_out"} => l = <<m>> /\ Clean(m)
    /\ s \in {"idle", "receiving"} /\ a = 200 => Len(l) = 2 /\ l[2] = Reply
    /\ s \in {"idle", "receiving"} /\ a \in Refusal => l = <<>>
    /\ Len(l) > 0 => Clean(l[1])
    /\ Len(l) <= 2

LogInv ==
    /\ stage \in [Clients -> Stage]
    /\ message \in [Clients -> Texts]
    /\ logged \in [Clients -> Seq(Texts \cup {Reply})]
    /\ answer \in [Clients -> Status]
    /\ \A c \in Clients : Consistent(stage[c], message[c], logged[c], answer[c])

\* A step that gives client c's exchange the values s, m, l and a.
Becomes(c, s, m, l, a) ==
    /\ stage' = [stage EXCEPT ![c] = s]
    /\ message' = [message EXCEPT ![c] = m]
    /\ logged' = [logged EXCEPT ![c] = l]
    /\ answer' = [answer EXCEPT ![c] = a]

\* A step that moves one exchange to a consistent state leaves all consistent.
LEMMA OneExchange ==
    ASSUME LogInv, NEW c \in Clients, NEW s, NEW m, NEW l, NEW a,
           Becomes(c, s, m, l, a), Consistent(s, m, l, a)
    PROVE  LogInv'
<1>1. s \in Stage /\ m \in Texts /\ l \in Seq(Texts \cup {Reply}) /\ a \in Status
  BY DEF Consistent
<1>2. /\ stage' \in [Clients -> Stage] /\ message' \in [Clients -> Texts]
      /\ logged' \in [Clients -> Seq(Texts \cup {Reply})] /\ answer' \in [Clients -> Status]
  BY <1>1 DEF LogInv, Becomes
<1>3. ASSUME NEW d \in Clients
      PROVE  Consistent(stage'[d], message'[d], logged'[d], answer'[d])
  <2>1. CASE d = c
    BY <2>1 DEF LogInv, Becomes
  <2>2. CASE d # c
    <3>1. /\ stage'[d] = stage[d] /\ message'[d] = message[d]
          /\ logged'[d] = logged[d] /\ answer'[d] = answer[d]
      BY <2>2 DEF LogInv, Becomes
    <3>. QED BY <3>1 DEF LogInv
  <2>. QED BY <2>1, <2>2
<1>. QED BY <1>2, <1>3 DEF LogInv

\* The client's log becomes l.
Records(c, l) == logged' = [logged EXCEPT ![c] = l]

\* What an exchange may look like right after it has ended with a status and
\* the log l: a refusal left nothing behind, a reply left both rows.
Closes(l, status) ==
    /\ l \in Seq(Texts \cup {Reply})
    /\ status \in {400, 413, 422} => l = <<>>
    /\ status = 200 => Len(l) = 2 /\ l[2] = Reply
    /\ Len(l) > 0 => Clean(l[1])
    /\ Len(l) <= 2

\* An exchange ends with the status and the rows that belong together.
LEMMA ConcludeKeeps ==
    ASSUME LogInv, NEW c \in Clients, NEW status \in {200, 400, 413, 422, 500, 503}, NEW l,
           Conclude(c, status), Records(c, l), Closes(l, status)
    PROVE  LogInv'
<1>0. {} \in Texts
  BY DEF Texts
<1>1. PICK s \in {"idle", "receiving"}, a \in {status, Closed} : Becomes(c, s, {}, l, a)
  BY DEF Conclude, EndSocket, EndRequest, Records, Becomes
<1>2. Consistent(s, {}, l, a)
  BY <1>0, <1>1 DEF Closes, Consistent, Stage, Status, Refusal, Closed, WsRefused
<1>. QED BY <1>1, <1>2, OneExchange

\* An exchange of which nothing has been stored.
LEMMA Unread == <<>> \in Seq(Texts \cup {Reply}) /\ Len(<<>>) = 0
OBVIOUS

\* No client has sent anything.
LEMMA LogInvInit == Init => LogInv
<1>1. {} \in Texts
  BY DEF Texts
<1>. QED BY <1>1, Unread DEF Init, LogInv, Consistent, Stage, Status, Refusal, WsRefused

\* SecurityMiddleware: a request is refused, unread, or passed on.
LEMMA ArrivalKeeps == ASSUME LogInv, NEW c \in Clients, Arrival(c) PROVE LogInv'
<1>1. PICK key \in Credentials :
         \/ Unauthorised(c, key) \/ RateLimited(c, key)
         \/ DeclaredTooLarge(c, key) \/ PassedOn(c, key)
  BY DEF Arrival
<1>2. stage[c] = "idle" /\ message[c] \in Texts
  BY <1>1 DEF LogInv, Unauthorised, RateLimited, DeclaredTooLarge, PassedOn, Arrives
<1>3. PICK s \in {"idle", "receiving"}, a \in Status \ {200} :
         Becomes(c, s, message[c], <<>>, a)
  <2>1. CASE PassedOn(c, key)
    <3>1. Becomes(c, "receiving", message[c], <<>>, 0)
      BY <2>1, <1>2 DEF PassedOn, Becomes, LogInv
    <3>. QED BY <3>1 DEF Status
  <2>2. CASE Unauthorised(c, key) \/ RateLimited(c, key) \/ DeclaredTooLarge(c, key)
    <3>1. PICK status \in {401, 413, 429} : Turn(c, status)
      BY <2>2 DEF Unauthorised, RateLimited, DeclaredTooLarge
    <3>2. Becomes(c, "idle", message[c], <<>>, IF c \in Sockets THEN WsRefused ELSE status)
      BY <3>1, <1>2 DEF Turn, Becomes, LogInv
    <3>. QED BY <3>2 DEF WsRefused, Status
  <2>. QED BY <1>1, <2>1, <2>2
<1>4. Consistent(s, message[c], <<>>, a)
  BY <1>2, <1>3, Unread DEF Consistent, Stage
<1>. QED BY <1>3, <1>4, OneExchange

\* A body or frame is read: it is refused, blocked, or screened and observed.
LEMMA ReceiveKeeps ==
    ASSUME LogInv, NEW c \in Clients,
           \/ Unreadable(c) \/ Disconnect(c)
           \/ \E text \in Texts : Blocked(c, text) \/ Inbound(c, text)
    PROVE  LogInv'
<1>0. Closes(<<>>, 400) /\ Closes(<<>>, 413) /\ Closes(<<>>, 422) /\ Closes(<<>>, 500)
  BY Unread DEF Closes
<1>1. CASE Unreadable(c)
  <2>1. PICK status \in {413, 422, 500} : TurnBack(c, status)
    BY <1>1 DEF Unreadable, BodyTooLarge, NotJson, NotAMessage
  <2>2. Conclude(c, status) /\ Records(c, <<>>)
    BY <2>1 DEF TurnBack, Records
  <2>3. Closes(<<>>, status)
    BY <1>0, <2>1
  <2>. QED BY <2>1, <2>2, <2>3, ConcludeKeeps
<1>2. CASE Disconnect(c)
  <2>1. message[c] \in Texts /\ Becomes(c, "idle", message[c], <<>>, Closed)
    BY <1>2 DEF Disconnect, Becomes, LogInv
  <2>2. Consistent("idle", message[c], <<>>, Closed)
    BY <2>1, Unread DEF Consistent, Stage, Status, Closed, WsRefused, Refusal
  <2>. QED BY <2>1, <2>2, OneExchange
<1>3. ASSUME NEW text \in Texts, Blocked(c, text) PROVE LogInv'
  <2>1. Conclude(c, 400) /\ Records(c, <<>>)
    BY <1>3 DEF Blocked, TurnBack, Records
  <2>. QED BY <1>0, <2>1, ConcludeKeeps
<1>4. ASSUME NEW text \in Texts, Inbound(c, text) PROVE LogInv'
  <2>1. Screen(text) \in Texts /\ Clean(Screen(text))
    BY <1>4 DEF Inbound, Screen, Clean, Blocks, Texts
  <2>2. Becomes(c, "log_in", Screen(text), <<>>, 0)
    BY <1>4 DEF Inbound, Becomes
  <2>3. Consistent("log_in", Screen(text), <<>>, 0)
    BY <2>1, Unread DEF Consistent, Stage, Status
  <2>. QED BY <2>2, <2>3, OneExchange
<1>. QED BY <1>1, <1>2, <1>3, <1>4

\* The handler and the two observers, each of which may fail.
LEMMA DispatchKeeps == ASSUME LogInv, NEW c \in Clients, Dispatch(c) PROVE LogInv'
<1>. DEFINE m == message[c]
            l == logged[c]
            Rows == Texts \cup {Reply}
<1>0. /\ Consistent(stage[c], m, l, answer[c]) /\ m \in Texts /\ l \in Seq(Rows)
      /\ logged = [logged EXCEPT ![c] = l] /\ message = [message EXCEPT ![c] = m]
      /\ answer = [answer EXCEPT ![c] = answer[c]] /\ answer[c] \in Status
  BY DEF LogInv
<1>1. CASE Handle(c)
  <2>1. l = <<>> /\ Clean(m) /\ stage[c] = "log_in"
    BY <1>0, <1>1 DEF Handle, Consistent
  <2>2. /\ Append(l, m) = <<m>> /\ <<m>> \in Seq(Rows)
        /\ Len(<<m>>) = 1 /\ <<m>>[1] = m
    BY <1>0, <2>1
  <2>3. Records(c, <<m>>)
    BY <1>1, <2>1, <2>2 DEF Handle, Records
  <2>4. CASE Conclude(c, 503)
    <3>1. Closes(<<m>>, 503)
      BY <2>1, <2>2 DEF Closes
    <3>. QED BY <2>3, <2>4, <3>1, ConcludeKeeps
  <2>5. CASE stage' = [stage EXCEPT ![c] = "handler"] /\ UNCHANGED <<message, answer>>
    <3>1. Becomes(c, "handler", m, <<m>>, answer[c])
      BY <1>0, <2>3, <2>5 DEF Becomes, Records
    <3>2. Consistent("handler", m, <<m>>, answer[c])
      BY <1>0, <2>1, <2>2 DEF Consistent, Stage
    <3>. QED BY <3>1, <3>2, OneExchange
  <2>. QED BY <1>1, <2>4, <2>5 DEF Handle
<1>2. CASE LogFails(c) \/ EngineDown(c) \/ EngineRefuses(c)
  <2>1. PICK status \in {500, 503} : Conclude(c, status)
    BY <1>2 DEF LogFails, EngineDown, EngineRefuses
  <2>2. Records(c, l)
    BY <1>0, <1>2 DEF LogFails, EngineDown, EngineRefuses, Records
  <2>3. Closes(l, status)
    BY <1>0 DEF Closes, Consistent
  <2>. QED BY <2>1, <2>2, <2>3, ConcludeKeeps
<1>3. CASE Replied(c)
  <2>1. l = <<m>> /\ Clean(m)
    BY <1>0, <1>3 DEF Replied, Consistent
  <2>2. Becomes(c, "log_out", m, l, answer[c])
    BY <1>0, <1>3 DEF Replied, Becomes
  <2>3. Consistent("log_out", m, l, answer[c])
    BY <1>0, <2>1 DEF Consistent, Stage
  <2>. QED BY <2>2, <2>3, OneExchange
<1>4. CASE Respond(c)
  <2>1. l = <<m>> /\ Clean(m)
    BY <1>0, <1>4 DEF Respond, Consistent
  <2>2. /\ Append(l, Reply) \in Seq(Rows) /\ Len(Append(l, Reply)) = 2
        /\ Append(l, Reply)[1] = m /\ Append(l, Reply)[2] = Reply
    BY <1>0, <2>1
  <2>3. Closes(Append(l, Reply), 200)
    BY <2>1, <2>2 DEF Closes
  <2>4. Records(c, Append(l, Reply)) /\ Conclude(c, 200)
    BY <1>4 DEF Respond, Records
  <2>. QED BY <2>3, <2>4, ConcludeKeeps
<1>. QED BY <1>1, <1>2, <1>3, <1>4 DEF Dispatch

\* Every step keeps the exchanges consistent.
LEMMA AlwaysLogInv == Spec => []LogInv
<1>1. LogInv /\ [Next]_vars => LogInv'
  <2>. SUFFICES ASSUME LogInv, [Next]_vars PROVE LogInv'
    OBVIOUS
  <2>1. CASE UNCHANGED gateVars
    BY <2>1 DEF gateVars, LogInv
  <2>2. CASE ClockTicks \/ WindowElapses \/ BackendFlips \/ DatabaseFlips \/ UNCHANGED vars
    <3>1. UNCHANGED gateVars
      BY <2>2 DEF ClockTicks, WindowElapses, BackendFlips, DatabaseFlips, vars
    <3>. QED BY <2>1, <3>1
  <2>. QED BY <2>2, ArrivalKeeps, ReceiveKeeps, DispatchKeeps DEF Next, Unreadable
<1>. QED BY <1>1, LogInvInit, PTL DEF Spec

\* Whatever is refused, blocked, unreadable or fails half-way, and however the
\* exchanges of many clients interleave, the interaction log agrees with what
\* each client was told.
THEOREM LogAgreesWithAnswers == Spec => []AnsweredIsLogged
<1>1. LogInv => AnsweredIsLogged
  BY DEF LogInv, Consistent, AnsweredIsLogged, Settled, Refusal, Clean
<1>. QED BY <1>1, AlwaysLogInv, PTL

-----------------------------------------------------------------------------
(* Types                                                                   *)

\* What the code does to a breaker leaves a breaker.
LEMMA BreakerTypes ==
    ASSUME NEW b \in Breakers
    PROVE  /\ MaybeHalfOpen(b) \in Breakers /\ Admit(b) \in Breakers
           /\ RecordSuccess(b) \in Breakers /\ RecordFailure(b) \in Breakers
<1>0. /\ b.failures \in FailureCount /\ 0 \in FailureCount
      /\ b.failures < FailureThreshold => b.failures + 1 \in FailureCount
  BY ThresholdAssumption DEF Breakers, FailureCount
<1>1. MaybeHalfOpen(b) \in Breakers
  BY DEF MaybeHalfOpen, Breakers, BreakerState
<1>2. Admit(b) \in Breakers
  BY DEF Admit, Breakers
<1>3. RecordSuccess(b) \in Breakers
  BY <1>0 DEF RecordSuccess, Breakers, BreakerState
<1>4. RecordFailure(b) \in Breakers
  <2>. DEFINE n == IF b.failures < FailureThreshold THEN b.failures + 1 ELSE b.failures
              o == b.state = "half_open" \/ n >= FailureThreshold
              st == IF o THEN "open" ELSE b.state
              el == IF o THEN FALSE ELSE b.elapsed
  <2>1. n \in FailureCount /\ st \in BreakerState /\ el \in BOOLEAN
    BY <1>0 DEF Breakers, BreakerState
  <2>2. RecordFailure(b) = [state |-> st, failures |-> n, elapsed |-> el, probing |-> FALSE]
    BY DEF RecordFailure
  <2>. HIDE DEF st, el, n, o
  <2>. QED  BY <2>1, <2>2 DEF Breakers
<1>. QED  BY <1>1, <1>2, <1>3, <1>4

Counters == breaker \in Breakers /\ refused \in 0 .. MaxRefused

\* The breaker and the count of refused requests.
LEMMA AlwaysCounters == Spec => []Counters
<1>1. Init => Counters
  BY ThresholdAssumption, RefusedAssumption
     DEF Init, Counters, NewBreaker, Breakers, BreakerState, FailureCount
<1>2. Counters /\ [Next]_vars => Counters'
  <2>. SUFFICES ASSUME Counters, [Next]_vars PROVE Counters'
    OBVIOUS
  <2>1. /\ breaker \in Breakers /\ refused \in 0 .. MaxRefused
        /\ MaybeHalfOpen(breaker) \in Breakers /\ Admit(MaybeHalfOpen(breaker)) \in Breakers
        /\ RecordSuccess(breaker) \in Breakers /\ RecordFailure(breaker) \in Breakers
    BY BreakerTypes DEF Counters
  <2>2. CASE UNCHANGED <<breaker, refused>>
    BY <2>1, <2>2 DEF Counters
  <2>3. ASSUME NEW c \in Clients, Arrival(c) \/ Disconnect(c) \/ Unreadable(c)
        PROVE  UNCHANGED <<breaker, refused>>
    BY <2>3 DEF Arrival, Unauthorised, RateLimited, DeclaredTooLarge, PassedOn, Turn, Disconnect,
                Unreadable, BodyTooLarge, NotJson, NotAMessage, TurnBack
  <2>4. ASSUME NEW c \in Clients, NEW text \in Texts, Blocked(c, text) \/ Inbound(c, text)
        PROVE  UNCHANGED <<breaker, refused>>
    BY <2>4 DEF Blocked, TurnBack, Inbound
  <2>5. ASSUME NEW c \in Clients, Dispatch(c)
        PROVE  Counters'
    BY <2>1, <2>5, RefusedAssumption
       DEF Dispatch, Handle, LogFails, Replied, EngineDown, EngineRefuses, Respond, Counters
  <2>6. CASE WindowElapses
    BY <2>1, <2>6 DEF WindowElapses, Breakers, Counters
  <2>7. CASE ClockTicks \/ BackendFlips \/ DatabaseFlips \/ UNCHANGED vars
    BY <2>2, <2>7 DEF ClockTicks, BackendFlips, DatabaseFlips, vars
  <2>. QED BY <2>2, <2>3, <2>4, <2>5, <2>6, <2>7 DEF Next, Unreadable
<1>. QED BY <1>1, <1>2, PTL DEF Spec

\* The gateway's exchanges, log, breaker and limiter keep their types: an
\* exchange never leaves more than its two rows in the interaction log.
THEOREM GatewayTypeCorrect == Spec => []TypeOK
<1>1. LogInv /\ Counters /\ LimiterInv => TypeOK
  BY DEF LogInv, Consistent, Counters, LimiterInv, TypeOK
<1>. QED BY <1>1, AlwaysLogInv, AlwaysCounters, AlwaysLimiterInv, GatewayImplementsLimiter, PTL
=============================================================================
