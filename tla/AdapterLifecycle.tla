-------------------------- MODULE AdapterLifecycle --------------------------
(***************************************************************************)
(* The LoRA lifecycle of ModelEngine over a managed backend: load, unload, *)
(* activate, rollback and reapply, run by several asyncio tasks, together  *)
(* with the EngineSupervisor that restarts a crashed server and re-applies *)
(* the active adapter (engine.py, resilience.py, backends.py).             *)
(*                                                                         *)
(* A POST to the server is the only await inside a LoRA operation.  It ends *)
(* well, or it raises, and a POST that raises may still have taken effect  *)
(* on the server (the answer was lost).                                    *)
(***************************************************************************)
EXTENDS LoRARegistry

CONSTANTS
    Ops,          \* tasks of operators and of the learner that call the engine
    Sup,          \* the supervisor's task
    MaxRestarts,  \* config.supervisor_max_restarts
    SlowBoot,     \* whether a server may need longer than ready_timeout to boot
    LostAnswers   \* whether a POST that raises may have taken effect

ASSUME TasksAssumption == IsFiniteSet(Ops) /\ Sup \notin Ops
ASSUME RestartsAssumption == MaxRestarts \in Nat
ASSUME EnvironmentAssumption == SlowBoot \in BOOLEAN /\ LostAnswers \in BOOLEAN

Tasks == Ops \cup {Sup}

VARIABLES
    reg,       \* engine.lora
    task,      \* the LoRA operation each task is in
    proc,      \* adapter.process, as poll() and the health endpoint see it
    server,    \* the adapters the server process really holds
    phase,     \* where the application is between engine.start and engine.stop
    watch,     \* where the supervisor's _watch loop is suspended
    restarts,  \* supervisor.restarts
    failed     \* supervisor.failed

vars == <<reg, task, proc, server, phase, watch, restarts, failed>>

Idle == [pc |-> "idle", name |-> NoLora, victim |-> NoLora, activate |-> FALSE]

TaskStates ==
    [pc : {"idle", "evicting", "loading", "unloading", "reapplying"},
     name : Names \cup {NoLora}, victim : Names \cup {NoLora}, activate : BOOLEAN]

Alive == proc \in {"booting", "ready"}

Init ==
    /\ reg = EmptyRegistry
    /\ task = [t \in Tasks |-> Idle]
    /\ proc = "none"
    /\ server = {}
    /\ phase = "new"
    /\ watch = "off"
    /\ restarts = 0
    /\ failed = FALSE

-----------------------------------------------------------------------------
(* LoRA operations                                                         *)

\* load_lora_adapter up to its first await: pick a victim, then POST either
\* its unload or the load itself.
BeginLoad(t, n, activate) ==
    LET victim == EvictionCandidate(reg)
    IN  task' = [task EXCEPT ![t] =
            [pc |-> IF victim = NoLora THEN "loading" ELSE "evicting",
             name |-> n, victim |-> victim, activate |-> activate]]

Load(t, n, activate) ==
    /\ phase = "serving"
    /\ task[t] = Idle
    /\ BeginLoad(t, n, activate)
    /\ UNCHANGED <<reg, proc, server, phase, watch, restarts, failed>>

Unload(t, n) ==
    /\ phase = "serving"
    /\ task[t] = Idle
    /\ task' = [task EXCEPT ![t] = [Idle EXCEPT !.pc = "unloading", !.name = n]]
    /\ UNCHANGED <<reg, proc, server, phase, watch, restarts, failed>>

ReapplyActive(t) ==
    /\ phase = "serving"
    /\ task[t] = Idle
    /\ reg.active # NoLora
    /\ task' = [task EXCEPT ![t] = [Idle EXCEPT !.pc = "reapplying", !.name = reg.active]]
    /\ UNCHANGED <<reg, proc, server, phase, watch, restarts, failed>>

\* activate_lora and rollback_lora never suspend.
ActivateLora(n) ==
    /\ phase = "serving"
    /\ n \in Loaded(reg)
    /\ reg' = Activate(reg, n)
    /\ UNCHANGED <<task, proc, server, phase, watch, restarts, failed>>

RollbackLora ==
    /\ phase = "serving"
    /\ reg' = Rollback(reg)
    /\ UNCHANGED <<task, proc, server, phase, watch, restarts, failed>>

\* The supervisor goes back to its sleep when its load is over.
WatchAfter(t) == IF t = Sup THEN "sleeping" ELSE watch

\* The victim's unload succeeded: forget it and POST the load.
Evicted(t) ==
    /\ task[t].pc = "evicting"
    /\ proc = "ready"
    /\ server' = server \ {task[t].victim}
    /\ reg' = Unregister(reg, task[t].victim)
    /\ task' = [task EXCEPT ![t].pc = "loading", ![t].victim = NoLora]
    /\ UNCHANGED <<proc, phase, watch, restarts, failed>>

LoadDone(t) ==
    /\ task[t].pc = "loading"
    /\ proc = "ready"
    /\ server' = server \cup {task[t].name}
    /\ LET r == Register(reg, task[t].name)
       IN  reg' = IF task[t].activate THEN Activate(r, task[t].name) ELSE r
    /\ task' = [task EXCEPT ![t] = Idle]
    /\ watch' = WatchAfter(t)
    /\ UNCHANGED <<proc, phase, restarts, failed>>

UnloadDone(t) ==
    /\ task[t].pc = "unloading"
    /\ proc = "ready"
    /\ server' = server \ {task[t].name}
    /\ reg' = Unregister(reg, task[t].name)
    /\ task' = [task EXCEPT ![t] = Idle]
    /\ UNCHANGED <<proc, phase, watch, restarts, failed>>

ReapplyDone(t) ==
    /\ task[t].pc = "reapplying"
    /\ proc = "ready"
    /\ server' = server \cup {task[t].name}
    /\ task' = [task EXCEPT ![t] = Idle]
    /\ UNCHANGED <<reg, proc, phase, watch, restarts, failed>>

\* What the server holds after a POST whose caller sees an exception.
Effect(t) ==
    CASE task[t].pc = "evicting"  -> server \ {task[t].victim}
      [] task[t].pc = "unloading" -> server \ {task[t].name}
      [] OTHER                    -> server \cup {task[t].name}

\* Mutant of PostRaises: the watch loop ends without recording the failure.
PostRaisesSilently(t) ==
    /\ task[t].pc # "idle"
    /\ server' \in {server} \cup (IF proc = "ready" /\ LostAnswers THEN {Effect(t)} ELSE {})
    /\ task' = [task EXCEPT ![t] = Idle]
    /\ watch' = IF t = Sup THEN "off" ELSE watch
    /\ UNCHANGED <<reg, proc, phase, restarts, failed>>

\* The POST raises: the operation ends and the registry stays as it is.  In
\* the supervisor the exception ends _watch, which records the failure.
PostRaises(t) ==
    /\ task[t].pc # "idle"
    /\ server' \in {server} \cup (IF proc = "ready" /\ LostAnswers THEN {Effect(t)} ELSE {})
    /\ task' = [task EXCEPT ![t] = Idle]
    /\ watch' = IF t = Sup THEN "off" ELSE watch
    /\ failed' = (failed \/ t = Sup)
    /\ UNCHANGED <<reg, proc, phase, restarts>>

-----------------------------------------------------------------------------
(* The server process                                                      *)

Crash ==
    /\ Alive
    /\ proc' = "dead"
    /\ server' = {}
    /\ UNCHANGED <<reg, task, phase, watch, restarts, failed>>

Boot ==
    /\ proc = "booting"
    /\ proc' = "ready"
    /\ UNCHANGED <<reg, task, server, phase, watch, restarts, failed>>

-----------------------------------------------------------------------------
(* ModelEngine.start(supervise=True) and stop()                            *)

Start ==
    /\ phase = "new"
    /\ proc' = "booting"
    /\ server' = {}
    /\ phase' = "starting"
    /\ UNCHANGED <<reg, task, watch, restarts, failed>>

\* wait_ready may give up on a dead server, and on a slow one.
GivesUp == proc = "dead" \/ (SlowBoot /\ proc = "booting")

Started ==
    /\ phase = "starting"
    /\ proc = "ready"
    /\ phase' = "serving"
    /\ watch' = "sleeping"
    /\ UNCHANGED <<reg, task, proc, server, restarts, failed>>

StartFails ==
    /\ phase = "starting"
    /\ GivesUp
    /\ proc' = "none"
    /\ phase' = "new"
    /\ UNCHANGED <<reg, task, server, watch, restarts, failed>>

\* Mutant of StopSupervisor: the supervisor is left running.
StopSupervisorForgets ==
    /\ phase = "serving"
    /\ phase' = "stopping"
    /\ UNCHANGED <<reg, task, proc, server, watch, restarts, failed>>

\* supervisor.stop cancels _watch wherever it is suspended, a POST included.
StopSupervisor ==
    /\ phase = "serving"
    /\ phase' = "stopping"
    /\ watch' = "off"
    /\ task' = [task EXCEPT ![Sup] = Idle]
    /\ UNCHANGED <<reg, proc, server, restarts, failed>>

\* adapter.stop kills the process group.
StopBackend ==
    /\ phase = "stopping"
    /\ proc' = "none"
    /\ server' = {}
    /\ phase' = "stopped"
    /\ UNCHANGED <<reg, task, watch, restarts, failed>>

\* A new gateway process, after a stop, with a persistent registry, which is
\* read back as it was written; everything else starts afresh.
GatewayRestart ==
    /\ phase = "stopped"
    /\ task' = [t \in Tasks |-> Idle]
    /\ proc' = "none"
    /\ server' = {}
    /\ phase' = "new"
    /\ watch' = "off"
    /\ restarts' = 0
    /\ failed' = FALSE
    /\ UNCHANGED reg

-----------------------------------------------------------------------------
(* EngineSupervisor._watch and _restart                                    *)

\* Mutant of Watch: one restart too many.
WatchOffByOne ==
    /\ watch = "sleeping"
    /\ ~Alive
    /\ IF restarts > MaxRestarts
         THEN watch' = "off" /\ failed' = TRUE /\ UNCHANGED restarts
         ELSE watch' = "backoff" /\ restarts' = restarts + 1 /\ UNCHANGED failed
    /\ UNCHANGED <<reg, task, proc, server, phase>>

\* The check after each sleep: a dead process is restarted or given up.
Watch ==
    /\ watch = "sleeping"
    /\ ~Alive
    /\ IF restarts >= MaxRestarts
         THEN watch' = "off" /\ failed' = TRUE /\ UNCHANGED restarts
         ELSE watch' = "backoff" /\ restarts' = restarts + 1 /\ UNCHANGED failed
    /\ UNCHANGED <<reg, task, proc, server, phase>>

Respawn ==
    /\ watch = "backoff"
    /\ proc' = "booting"
    /\ watch' = "waiting"
    /\ UNCHANGED <<reg, task, server, phase, restarts, failed>>

\* adapter.start raises ProcessError: _watch records it and ends.
RespawnFails ==
    /\ watch = "backoff"
    /\ watch' = "off"
    /\ failed' = TRUE
    /\ UNCHANGED <<reg, task, proc, server, phase, restarts>>

\* Mutant of RestartReady: the fresh server keeps the base model.
RestartReadyForgets ==
    /\ watch = "waiting"
    /\ proc = "ready"
    /\ watch' = "sleeping"
    /\ UNCHANGED <<reg, task, proc, server, phase, restarts, failed>>

\* The restarted server answers: re-apply the active adapter, if any.
RestartReady ==
    /\ watch = "waiting"
    /\ proc = "ready"
    /\ IF reg.active = NoLora
         THEN watch' = "sleeping" /\ UNCHANGED task
         ELSE watch' = "reloading" /\ BeginLoad(Sup, reg.active, TRUE)
    /\ UNCHANGED <<reg, proc, server, phase, restarts, failed>>

\* wait_ready returned False.
RestartTimesOut ==
    /\ watch = "waiting"
    /\ GivesUp
    /\ watch' = "sleeping"
    /\ UNCHANGED <<reg, task, proc, server, phase, restarts, failed>>

Supervise == Watch \/ Respawn \/ RespawnFails \/ RestartReady \/ RestartTimesOut

Post(t) == Evicted(t) \/ LoadDone(t) \/ UnloadDone(t) \/ ReapplyDone(t) \/ PostRaises(t)

Next ==
    \/ \E t \in Ops : \/ \E n \in Names, a \in BOOLEAN : Load(t, n, a)
                      \/ \E n \in Names : Unload(t, n)
                      \/ ReapplyActive(t)
    \/ \E n \in Names : ActivateLora(n)
    \/ RollbackLora
    \/ \E t \in Tasks : \/ Evicted(t) \/ LoadDone(t) \/ UnloadDone(t)
                        \/ ReapplyDone(t) \/ PostRaises(t)
    \/ Crash \/ Boot
    \/ Start \/ Started \/ StartFails \/ StopSupervisor \/ StopBackend \/ GatewayRestart
    \/ Watch \/ Respawn \/ RespawnFails \/ RestartReady \/ RestartTimesOut

Spec == Init /\ [][Next]_vars

\* Sleeps end, an HTTP call ends because it has a timeout, a server that was
\* spawned boots or dies, and engine.stop runs to its end once begun.
Fairness ==
    /\ WF_vars(Supervise)
    /\ \A t \in Tasks : WF_vars(Post(t))
    /\ WF_vars(Boot \/ (proc = "booting" /\ Crash))
    /\ WF_vars(StopBackend)

FairSpec == Spec /\ Fairness

-----------------------------------------------------------------------------
(* Properties                                                              *)

TypeOK ==
    /\ reg \in Registries
    /\ task \in [Tasks -> TaskStates]
    /\ proc \in {"none", "booting", "ready", "dead"}
    /\ server \subseteq Names
    /\ phase \in {"new", "starting", "serving", "stopping", "stopped"}
    /\ watch \in {"off", "sleeping", "backoff", "waiting", "reloading"}
    /\ restarts \in 0 .. MaxRestarts
    /\ failed \in BOOLEAN

\* The active adapter and the rollback target are always in the registry's
\* table, and never the same adapter, however loads, evictions, unloads,
\* activations and rollbacks interleave: active_lora_path and rollback_lora
\* never meet a KeyError.
RegistryCoherent ==
    /\ IsInjective(reg.loaded)
    /\ {reg.active, reg.previous} \subseteq Loaded(reg) \cup {NoLora}
    /\ reg.active = reg.previous => reg.active = NoLora

\* engine.stop is final: no supervisor is left to bring the server back, so no
\* process outlives it.
StopIsFinal == phase = "stopped" => proc = "none" /\ watch = "off"

\* "a dead backend is loud, never silent": a dead server is replaced, or the
\* supervisor's failure flag, which readiness reports, is raised.
DeadIsLoud ==
    (phase = "serving" /\ proc = "dead") ~> (proc = "ready" \/ failed \/ phase # "serving")

\* "the supervisor restarts it and re-applies the active adapter once the
\* server is healthy - a restart never silently reverts you to the base model".
ReappliedAfterCrash ==
    (phase = "serving" /\ proc = "dead")
       ~> (reg.active \in server \cup {NoLora} \/ failed \/ phase # "serving")
=============================================================================
