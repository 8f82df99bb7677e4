------------------------------- MODULE Gateway -------------------------------
(***************************************************************************)
(* The gateway in production mode (router.py, security.py, middleware.py,  *)
(* observability.py, app.py): what happens to a request from the API key   *)
(* to the answer.                                                          *)
(*                                                                         *)
(* A client is an HTTP client (POST /v1/messages or /discord/webhook) or a *)
(* WebSocket; it has one exchange under way at a time.  An exchange is     *)
(* suspended while the body or the next frame is read ("receiving"), in    *)
(* each of the two awaited observer calls ("log_in", "log_out") and in the *)
(* engine call ("handler"); everything in between is one step.  The engine *)
(* call is CircuitBreaker.call over the backend; its semaphore and retries *)
(* are in EngineCall.  The backend is its own service (engine_managed is   *)
(* off), so there is no supervisor to ask for readiness.                   *)
(***************************************************************************)
EXTENDS Integers, Sequences, RateLimiter, CircuitBreaker

CONSTANTS
    HttpClients,
    Sockets,
    ApiKeys,           \* settings.api_keys
    AuthEnabled,       \* settings.auth_enabled
    NoKey,             \* a request without a key
    Anonymous,         \* the key such a request is metered under
    BlockOnInjection,  \* GuardrailPolicy.block_on_injection
    MaxRefused,        \* bound: requests the backend answers with a 4xx
    Gated              \* the load balancer sends traffic only while Ready

Clients == HttpClients \cup Sockets

\* validate_security: with auth on and no keys the app refuses to start.
ValidSecurity == AuthEnabled => ApiKeys # {}

ASSUME FailClosed == ValidSecurity
ASSUME KeysAssumption == /\ ApiKeys \subseteq Keys /\ Anonymous \in Keys
                         /\ NoKey \notin Keys
ASSUME RefusedAssumption == MaxRefused \in Nat

VARIABLES
    stage,    \* where the exchange of each client is suspended
    message,  \* what dispatch carries: the features of the inbound text
    logged,   \* what the observers have stored of the current exchange
    answer,   \* the status the client saw last, 0 while it waits for one
    breaker,
    up,       \* the serving backend answers
    dbUp,     \* the interaction buffer's database answers
    refused   \* requests the backend answered with a 4xx

gateVars == <<stage, message, logged, answer>>
vars == <<gateVars, breaker, up, dbUp, refused, limiterVars>>

Stage == {"idle", "receiving", "log_in", "handler", "log_out"}

\* Text is what PromptGuard tells apart in it.
Texts == SUBSET {"injection", "pii"}
Reply == "reply"

\* Statuses: 0 before the first answer; 1000 is a closed socket, 4401 one that
\* was refused.
Closed == 1000
WsRefused == 4401
Status == {0, 200, 400, 401, 413, 422, 429, 500, 503, Closed, WsRefused}

\* GET /health/ready.
Ready == dbUp /\ breaker.state # "open"

-----------------------------------------------------------------------------
Init ==
    /\ stage = [c \in Clients |-> "idle"]
    /\ message = [c \in Clients |-> {}]
    /\ logged = [c \in Clients |-> <<>>]
    /\ answer = [c \in Clients |-> 0]
    /\ breaker = NewBreaker
    /\ up = TRUE
    /\ dbUp = TRUE
    /\ refused = 0
    /\ LimiterInit

\* A socket lives on after an answer or a guardrail's error frame; every other
\* end of an exchange closes it.
EndSocket(c, status) ==
    IF status \in {200, 400}
      THEN /\ stage' = [stage EXCEPT ![c] = "receiving"]
           /\ answer' = [answer EXCEPT ![c] = status]
      ELSE /\ stage' = [stage EXCEPT ![c] = "idle"]
           /\ answer' = [answer EXCEPT ![c] = Closed]

EndRequest(c, status) ==
    /\ stage' = [stage EXCEPT ![c] = "idle"]
    /\ answer' = [answer EXCEPT ![c] = status]

Conclude(c, status) ==
    /\ IF c \in Sockets THEN EndSocket(c, status) ELSE EndRequest(c, status)
    /\ message' = [message EXCEPT ![c] = {}]

-----------------------------------------------------------------------------
(* SecurityMiddleware, outermost: the key, the bucket, the declared length *)

Authorised(key) == ~AuthEnabled \/ key \in ApiKeys

MeteredAs(key) == IF key = NoKey THEN Anonymous ELSE key

\* The SecurityMiddleware answers by itself: nothing further in runs.
Turn(c, status) ==
    /\ answer' = [answer EXCEPT ![c] = IF c \in Sockets THEN WsRefused ELSE status]
    /\ logged' = [logged EXCEPT ![c] = <<>>]
    /\ UNCHANGED <<stage, message, breaker, up, dbUp, refused>>

Arrives(c) == stage[c] = "idle" /\ (Gated => Ready)

Unauthorised(c, key) ==
    /\ Arrives(c)
    /\ ~Authorised(key)
    /\ Turn(c, 401)
    /\ UNCHANGED limiterVars

RateLimited(c, key) ==
    /\ Arrives(c)
    /\ Authorised(key)
    /\ Deny(MeteredAs(key))
    /\ Turn(c, 429)

\* Content-Length above the cap; the token is spent all the same.
DeclaredTooLarge(c, key) ==
    /\ c \in HttpClients
    /\ Arrives(c)
    /\ Authorised(key)
    /\ Allow(MeteredAs(key))
    /\ Turn(c, 413)

\* The request goes on to the routes; a socket is accepted and charged once.
PassedOn(c, key) ==
    /\ Arrives(c)
    /\ Authorised(key)
    /\ Allow(MeteredAs(key))
    /\ stage' = [stage EXCEPT ![c] = "receiving"]
    /\ logged' = [logged EXCEPT ![c] = <<>>]
    /\ answer' = [answer EXCEPT ![c] = 0]
    /\ UNCHANGED <<message, breaker, up, dbUp, refused>>

-----------------------------------------------------------------------------
(* The routes                                                              *)

\* The exchange ends before dispatch has told anybody of it.
TurnBack(c, status) ==
    /\ stage[c] = "receiving"
    /\ Conclude(c, status)
    /\ logged' = [logged EXCEPT ![c] = <<>>]
    /\ UNCHANGED <<breaker, up, dbUp, refused, limiterVars>>

\* The body passes the cap while it is read; a socket's frames have no cap.
BodyTooLarge(c) == c \in HttpClients /\ TurnBack(c, 413)

\* The body or the frame is not a JSON object.
NotJson(c) == TurnBack(c, 422)

\* to_omni raises: a content that is no string, an author that is no object.
NotAMessage(c) == TurnBack(c, 500)

Unreadable(c) == BodyTooLarge(c) \/ NotJson(c) \/ NotAMessage(c)

Disconnect(c) ==
    /\ c \in Sockets
    /\ stage[c] = "receiving"
    /\ stage' = [stage EXCEPT ![c] = "idle"]
    /\ answer' = [answer EXCEPT ![c] = Closed]
    /\ logged' = [logged EXCEPT ![c] = <<>>]
    /\ UNCHANGED <<message, breaker, up, dbUp, refused, limiterVars>>

\* PromptGuard.check: the text with its PII redacted.
Screen(text) == text \ {"pii"}

Blocks(text) == "injection" \in text /\ BlockOnInjection

\* dispatch: the interceptor raises GuardrailViolation before any observer.
Blocked(c, text) ==
    /\ Blocks(text)
    /\ TurnBack(c, 400)

\* Mutant of Inbound: the observers are told before the interceptors run.
InboundEarly(c, text) ==
    /\ stage[c] = "receiving"
    /\ ~Blocks(text)
    /\ message' = [message EXCEPT ![c] = Screen(text)]
    /\ stage' = [stage EXCEPT ![c] = "log_in"]
    /\ logged' = [logged EXCEPT ![c] = <<text>>]
    /\ answer' = [answer EXCEPT ![c] = 0]
    /\ UNCHANGED <<breaker, up, dbUp, refused, limiterVars>>

\* dispatch up to the inbound observers.
Inbound(c, text) ==
    /\ stage[c] = "receiving"
    /\ ~Blocks(text)
    /\ message' = [message EXCEPT ![c] = Screen(text)]
    /\ stage' = [stage EXCEPT ![c] = "log_in"]
    /\ logged' = [logged EXCEPT ![c] = <<>>]
    /\ answer' = [answer EXCEPT ![c] = 0]
    /\ UNCHANGED <<breaker, up, dbUp, refused, limiterVars>>

\* The inbound row is stored and the handler runs up to its engine call, which
\* the breaker lets through or fails fast (EngineUnavailable, 503).
Handle(c) ==
    /\ stage[c] = "log_in"
    /\ dbUp
    /\ logged' = [logged EXCEPT ![c] = Append(@, message[c])]
    /\ LET b == MaybeHalfOpen(breaker)
       IN  IF Rejects(b)
             THEN breaker' = b /\ Conclude(c, 503)
             ELSE /\ breaker' = Admit(b)
                  /\ stage' = [stage EXCEPT ![c] = "handler"]
                  /\ UNCHANGED <<message, answer>>
    /\ UNCHANGED <<up, dbUp, refused, limiterVars>>

\* Mutant of LogFails: a failure to store the reply is not passed on.
LogFailsInboundOnly(c) ==
    /\ stage[c] = "log_in"
    /\ ~dbUp
    /\ Conclude(c, 500)
    /\ UNCHANGED <<logged, breaker, up, dbUp, refused, limiterVars>>

\* InteractionBuffer.log raises, before the handler or after it: the request
\* fails with it.
LogFails(c) ==
    /\ stage[c] \in {"log_in", "log_out"}
    /\ ~dbUp
    /\ Conclude(c, 500)
    /\ UNCHANGED <<logged, breaker, up, dbUp, refused, limiterVars>>

Replied(c) ==
    /\ stage[c] = "handler"
    /\ up
    /\ breaker' = RecordSuccess(breaker)
    /\ stage' = [stage EXCEPT ![c] = "log_out"]
    /\ UNCHANGED <<message, logged, answer, up, dbUp, refused, limiterVars>>

EngineDown(c) ==
    /\ stage[c] = "handler"
    /\ ~up
    /\ breaker' = RecordFailure(breaker)
    /\ Conclude(c, 503)
    /\ UNCHANGED <<logged, up, dbUp, refused, limiterVars>>

\* The backend answers with a 4xx, which the breaker counts as a failure; the
\* exception handlers know no HTTPStatusError.
EngineRefuses(c) ==
    /\ stage[c] = "handler"
    /\ up
    /\ refused < MaxRefused
    /\ refused' = refused + 1
    /\ breaker' = RecordFailure(breaker)
    /\ Conclude(c, 500)
    /\ UNCHANGED <<logged, up, dbUp, limiterVars>>

\* The reply is stored and, encoded by from_omni, sent.
Respond(c) ==
    /\ stage[c] = "log_out"
    /\ dbUp
    /\ logged' = [logged EXCEPT ![c] = Append(@, Reply)]
    /\ Conclude(c, 200)
    /\ UNCHANGED <<breaker, up, dbUp, refused, limiterVars>>

-----------------------------------------------------------------------------
(* The surroundings                                                        *)

ClockTicks == Tick /\ UNCHANGED <<gateVars, breaker, up, dbUp, refused>>

\* reset_timeout seconds have passed since opened_at.
WindowElapses ==
    /\ breaker.state = "open" /\ ~breaker.elapsed
    /\ breaker' = [breaker EXCEPT !.elapsed = TRUE]
    /\ UNCHANGED <<gateVars, up, dbUp, refused, limiterVars>>

BackendFlips == up' = ~up /\ UNCHANGED <<gateVars, breaker, dbUp, refused, limiterVars>>

DatabaseFlips == dbUp' = ~dbUp /\ UNCHANGED <<gateVars, breaker, up, refused, limiterVars>>

Credentials == (Keys \ {Anonymous}) \cup {NoKey}

Arrival(c) ==
    \E key \in Credentials : \/ Unauthorised(c, key) \/ RateLimited(c, key)
                             \/ DeclaredTooLarge(c, key) \/ PassedOn(c, key)

Dispatch(c) ==
    \/ Handle(c) \/ LogFails(c) \/ Replied(c) \/ EngineDown(c)
    \/ EngineRefuses(c) \/ Respond(c)

Next ==
    \/ \E c \in Clients : \/ Arrival(c) \/ Disconnect(c)
                          \/ BodyTooLarge(c) \/ NotJson(c) \/ NotAMessage(c)
                          \/ \E text \in Texts : Blocked(c, text) \/ Inbound(c, text)
                          \/ Dispatch(c)
    \/ ClockTicks \/ WindowElapses \/ BackendFlips \/ DatabaseFlips

Spec == Init /\ [][Next]_vars

\* The event loop resumes every coroutine, the database and the engine answer
\* or time out, and the clock runs.
Fairness ==
    /\ \A c \in Clients : WF_vars(Dispatch(c))
    /\ WF_vars(WindowElapses) /\ WF_vars(ClockTicks)

\* HTTP clients with a valid key that come back for ever, and every now and
\* then send a message that is neither blocked nor malformed.
Traffic ==
    \A c \in HttpClients :
        /\ \A key \in ApiKeys : SF_vars(PassedOn(c, key))
        /\ SF_vars(Inbound(c, {}))

FairSpec == Spec /\ Fairness /\ Traffic

-----------------------------------------------------------------------------
(* Properties                                                              *)

TypeOK ==
    /\ stage \in [Clients -> Stage]
    /\ message \in [Clients -> Texts]
    /\ answer \in [Clients -> Status]
    /\ breaker \in Breakers
    /\ \A c \in Clients : Len(logged[c]) <= 2
    /\ refused \in 0 .. MaxRefused
    /\ LimiterTypeOK

\* With auth on, the limiter keeps buckets for configured keys only: requests
\* with unknown keys, however many, neither use up a bucket nor grow the table.
OnlyKnownKeysAreMetered == AuthEnabled => metered \subseteq ApiKeys

Settled(c) == stage[c] \in {"idle", "receiving"}

\* The log agrees with what clients were told.  A client gets a reply only when
\* both sides of the exchange are stored, the reply after the message: observers
\* are awaited in the request path, not fire-and-forget as add_observer says,
\* and one that fails takes the exchange with it.  A request that was refused,
\* blocked or unreadable leaves nothing in the log, and no text is stored before
\* it was screened.
AnsweredIsLogged ==
    \A c \in Clients :
        /\ Settled(c) /\ answer[c] = 200 => Len(logged[c]) = 2 /\ logged[c][2] = Reply
        /\ answer[c] \in {400, 401, 413, 422, 429, WsRefused} /\ Settled(c) => logged[c] = <<>>
        /\ Len(logged[c]) > 0 => /\ "pii" \notin logged[c][1]
                                 /\ ~Blocks(logged[c][1])

\* Every message that is dispatched is answered, or its socket closed.
EveryMessageAnswered ==
    \A c \in Clients : stage[c] \in {"log_in", "handler", "log_out"} ~> Settled(c)

\* Once backend and database are up for good and clients keep calling, the
\* readiness probe succeeds again and keeps succeeding.
ReadyAgain == <>[](up /\ dbUp) => <>[]Ready
=============================================================================
