----------------------- MODULE AdapterLifecycleProofs -----------------------
(***************************************************************************)
(* Theorems about AdapterLifecycle, for any tasks, adapters, slots and     *)
(* restart budget, whether or not answers are lost and servers boot late:  *)
(* the invariants that the run adapter_supervised checks on a small one.   *)
(*                                                                         *)
(* The registry stays coherent although a victim chosen before an await is *)
(* removed after it, when it may be active or gone, because every          *)
(* operation of the registry leaves a coherent one for ANY name it gets.   *)
(* A stop is final because only a serving engine has a supervisor, in its  *)
(* loop or inside a load.                                                  *)
(***************************************************************************)
EXTENDS AdapterLifecycle, LoRARegistryProofs

\* What a task has in hand: a POST in flight names an adapter, and an
\* eviction names its victim.
TaskOK(y) ==
    /\ y \in TaskStates
    /\ y.pc # "idle" => y.name \in Names
    /\ y.pc = "evicting" => y.victim \in Names

\* The supervisor runs only while the engine serves.
SupervisorOK(ph, w, y) == ph # "serving" => w = "off" /\ y.pc = "idle"

Types ==
    /\ proc \in {"none", "booting", "ready", "dead"}
    /\ server \subseteq Names
    /\ phase \in {"new", "starting", "serving", "stopping", "stopped"}
    /\ watch \in {"off", "sleeping", "backoff", "waiting", "reloading"}
    /\ restarts \in 0 .. MaxRestarts
    /\ failed \in BOOLEAN

TasksOK ==
    /\ task \in [Tasks -> TaskStates]
    /\ \A t \in Tasks : TaskOK(task[t])

IndInv ==
    /\ Coherent(reg)
    /\ TasksOK
    /\ Types
    /\ SupervisorOK(phase, watch, task[Sup])
    /\ phase = "stopped" => proc = "none"

\* The inductive invariant contains the three that the run checks.
LEMMA IndInvImplies == IndInv => TypeOK /\ RegistryCoherent /\ StopIsFinal
BY DEF IndInv, TypeOK, RegistryCoherent, StopIsFinal, Coherent, TasksOK, Types, SupervisorOK

\* A task between two operations.
LEMMA IdleFacts == TaskOK(Idle) /\ Idle.pc = "idle"
BY DEF Idle, TaskOK, TaskStates

\* The application before engine.start.
LEMMA InitIndInv == Init => IndInv
<1>. SUFFICES ASSUME Init PROVE IndInv
  OBVIOUS
<1>1. Coherent(reg)
  BY EmptyFacts DEF Init
<1>2. Sup \in Tasks /\ Idle \in TaskStates
  BY IdleFacts DEF Tasks, TaskOK
<1>3. TasksOK /\ SupervisorOK(phase, watch, task[Sup])
  BY <1>2, IdleFacts DEF Init, TasksOK, SupervisorOK
<1>4. Types /\ (phase = "stopped" => proc = "none")
  <2>1. 0 \in 0 .. MaxRestarts
    BY RestartsAssumption
  <2>. QED  BY <2>1, Zenon DEF Init, Types
<1>. QED  BY <1>1, <1>3, <1>4 DEF IndInv

\* One task moves on to y, and the others stay where they are.
LEMMA TaskMoves ==
    ASSUME TasksOK, NEW t \in Tasks, NEW y, TaskOK(y), task' = [task EXCEPT ![t] = y]
    PROVE  /\ TasksOK'
           /\ task'[t] = y
           /\ t # Sup => task'[Sup] = task[Sup]
BY DEF TasksOK, TaskOK, Tasks

\* load_lora_adapter up to its first await: the task has a name, and a victim
\* if it evicts.
LEMMA BeginLoadMoves ==
    ASSUME Coherent(reg), TasksOK, NEW t \in Tasks, NEW n \in Names, NEW a \in BOOLEAN,
           BeginLoad(t, n, a)
    PROVE  TasksOK' /\ (t # Sup => task'[Sup] = task[Sup])
<1>. DEFINE v == EvictionCandidate(reg)
            y == [pc |-> IF v = NoLora THEN "loading" ELSE "evicting",
                  name |-> n, victim |-> v, activate |-> a]
<1>1. v \in Names \cup {NoLora}
  BY EvictionFacts
<1>2. task' = [task EXCEPT ![t] = y]
  BY DEF BeginLoad
<1>. HIDE DEF v
<1>3. TaskOK(y)
  BY <1>1 DEF TaskOK, TaskStates
<1>. HIDE DEF y
<1>. QED  BY <1>2, <1>3, TaskMoves

\* Every step preserves the inductive invariant, action by action.
LEMMA NextIndInv == IndInv /\ [Next]_vars => IndInv'
<1>. SUFFICES ASSUME IndInv, [Next]_vars PROVE IndInv'
  OBVIOUS
<1>. USE TasksAssumption
<1>0. /\ Coherent(reg) /\ TasksOK /\ Types /\ SupervisorOK(phase, watch, task[Sup])
      /\ phase = "stopped" => proc = "none"
      /\ \A t \in Tasks : TaskOK(task[t])
      /\ Sup \in Tasks
  BY DEF IndInv, TasksOK, Tasks
\* An operator's task or the learner's issues a POST.
<1>1. ASSUME NEW t \in Ops, NEW n \in Names, NEW a \in BOOLEAN, Load(t, n, a)
      PROVE  IndInv'
  <2>1. t \in Tasks /\ t # Sup
    BY DEF Tasks
  <2>2. TasksOK' /\ task'[Sup] = task[Sup]
    BY <1>0, <1>1, <2>1, BeginLoadMoves DEF Load
  <2>. QED  BY <1>0, <1>1, <2>2 DEF IndInv, Load, Types, SupervisorOK
<1>2. ASSUME NEW t \in Ops, NEW n \in Names, Unload(t, n)
      PROVE  IndInv'
  <2>. DEFINE y == [Idle EXCEPT !.pc = "unloading", !.name = n]
  <2>1. t \in Tasks /\ t # Sup
    BY DEF Tasks
  <2>2. TaskOK(y)
    BY DEF TaskOK, TaskStates, Idle
  <2>3. task' = [task EXCEPT ![t] = y]
    BY <1>2 DEF Unload
  <2>. HIDE DEF y
  <2>4. TasksOK' /\ task'[Sup] = task[Sup]
    BY <1>0, <2>1, <2>2, <2>3, TaskMoves
  <2>. QED  BY <1>0, <1>2, <2>4 DEF IndInv, Unload, Types, SupervisorOK
<1>3. ASSUME NEW t \in Ops, ReapplyActive(t)
      PROVE  IndInv'
  <2>. DEFINE y == [Idle EXCEPT !.pc = "reapplying", !.name = reg.active]
  <2>1. t \in Tasks /\ t # Sup
    BY DEF Tasks
  <2>2. TaskOK(y)
    BY <1>0, <1>3 DEF TaskOK, TaskStates, Idle, ReapplyActive, Coherent, Registries
  <2>3. task' = [task EXCEPT ![t] = y]
    BY <1>3 DEF ReapplyActive
  <2>. HIDE DEF y
  <2>4. TasksOK' /\ task'[Sup] = task[Sup]
    BY <1>0, <2>1, <2>2, <2>3, TaskMoves
  <2>. QED  BY <1>0, <1>3, <2>4 DEF IndInv, ReapplyActive, Types, SupervisorOK
\* The operations that never suspend.
<1>4. ASSUME NEW n \in Names, ActivateLora(n)
      PROVE  IndInv'
  <2>1. Coherent(reg')
    BY <1>0, <1>4, ActivateFacts DEF ActivateLora
  <2>. QED  BY <1>0, <1>4, <2>1 DEF IndInv, ActivateLora, Types, TasksOK, SupervisorOK
<1>5. CASE RollbackLora
  <2>1. Coherent(reg')
    BY <1>0, <1>5, RollbackFacts DEF RollbackLora
  <2>. QED  BY <1>0, <1>5, <2>1 DEF IndInv, RollbackLora, Types, TasksOK, SupervisorOK
\* A POST ends.
<1>6. ASSUME NEW t \in Tasks, Evicted(t)
      PROVE  IndInv'
  <2>. DEFINE y == [task[t] EXCEPT !.pc = "loading", !.victim = NoLora]
  <2>1. TaskOK(y)
    BY <1>0, <1>6 DEF Evicted, TaskOK, TaskStates
  <2>2. task' = [task EXCEPT ![t] = y]
    BY <1>0, <1>6 DEF Evicted, TasksOK, TaskStates
  <2>. HIDE DEF y
  <2>3. TasksOK' /\ (t # Sup => task'[Sup] = task[Sup])
    BY <1>0, <2>1, <2>2, TaskMoves
  <2>4. Coherent(reg') /\ server' \subseteq Names
    BY <1>0, <1>6, UnregisterFacts DEF Evicted, Types
  <2>5. t = Sup => phase = "serving"
    BY <1>0, <1>6 DEF Evicted, SupervisorOK
  <2>. QED  BY <1>0, <1>6, <2>3, <2>4, <2>5 DEF IndInv, Evicted, Types, SupervisorOK
<1>7. ASSUME NEW t \in Tasks, LoadDone(t)
      PROVE  IndInv'
  <2>1. TasksOK' /\ (t # Sup => task'[Sup] = task[Sup])
    BY <1>0, <1>7, IdleFacts, TaskMoves DEF LoadDone
  <2>2. task[t].name \in Names
    BY <1>0, <1>7 DEF LoadDone, TaskOK
  <2>3. Coherent(reg')
    <3>1. Coherent(Register(reg, task[t].name))
      BY <1>0, <2>2, RegisterFacts
    <3>2. Coherent(Activate(Register(reg, task[t].name), task[t].name))
      BY <3>1, <2>2, ActivateFacts
    <3>. QED  BY <1>7, <3>1, <3>2 DEF LoadDone
  <2>4. server' \subseteq Names
    BY <1>0, <1>7, <2>2 DEF LoadDone, Types
  <2>5. t = Sup => phase = "serving"
    BY <1>0, <1>7 DEF LoadDone, SupervisorOK
  <2>. QED  BY <1>0, <1>7, <2>1, <2>3, <2>4, <2>5
            DEF IndInv, LoadDone, Types, SupervisorOK, WatchAfter
<1>8. ASSUME NEW t \in Tasks, UnloadDone(t)
      PROVE  IndInv'
  <2>1. TasksOK' /\ task'[t] = Idle /\ (t # Sup => task'[Sup] = task[Sup])
    BY <1>0, <1>8, IdleFacts, TaskMoves DEF UnloadDone
  <2>2. Coherent(reg') /\ server' \subseteq Names
    BY <1>0, <1>8, UnregisterFacts DEF UnloadDone, Types
  <2>. QED  BY <1>0, <1>8, <2>1, <2>2, IdleFacts DEF IndInv, UnloadDone, Types, SupervisorOK
<1>9. ASSUME NEW t \in Tasks, ReapplyDone(t)
      PROVE  IndInv'
  <2>1. TasksOK' /\ task'[t] = Idle /\ (t # Sup => task'[Sup] = task[Sup])
    BY <1>0, <1>9, IdleFacts, TaskMoves DEF ReapplyDone
  <2>2. server' \subseteq Names
    BY <1>0, <1>9 DEF ReapplyDone, Types, TaskOK
  <2>. QED  BY <1>0, <1>9, <2>1, <2>2, IdleFacts DEF IndInv, ReapplyDone, Types, SupervisorOK
<1>10. ASSUME NEW t \in Tasks, PostRaises(t)
       PROVE  IndInv'
  <2>1. TasksOK' /\ task'[t] = Idle /\ (t # Sup => task'[Sup] = task[Sup])
    BY <1>0, <1>10, IdleFacts, TaskMoves DEF PostRaises
  <2>2. server' \subseteq Names
    <3>1. Effect(t) \subseteq Names
      BY <1>0, <1>10 DEF PostRaises, Effect, Types, TaskOK
    <3>. QED  BY <1>0, <1>10, <3>1 DEF PostRaises, Types
  <2>. QED  BY <1>0, <1>10, <2>1, <2>2, IdleFacts DEF IndInv, PostRaises, Types, SupervisorOK
\* The server, and the engine's start and stop.
<1>11. CASE Crash \/ Boot \/ Start \/ Started \/ StartFails \/ StopBackend
  BY <1>0, <1>11 DEF IndInv, Crash, Boot, Start, Started, StartFails, StopBackend, Alive,
                     Types, TasksOK, SupervisorOK
<1>12. CASE StopSupervisor
  <2>1. TasksOK' /\ task'[Sup] = Idle
    BY <1>0, <1>12, IdleFacts, TaskMoves DEF StopSupervisor
  <2>. QED  BY <1>0, <1>12, <2>1, IdleFacts DEF IndInv, StopSupervisor, Types, SupervisorOK
<1>13. CASE GatewayRestart
  <2>1. TasksOK' /\ task'[Sup] = Idle
    <3>1. Idle \in TaskStates
      BY IdleFacts DEF TaskOK
    <3>. QED  BY <1>0, <1>13, <3>1, IdleFacts DEF GatewayRestart, TasksOK
  <2>2. Types' /\ Coherent(reg')
    <3>1. 0 \in 0 .. MaxRestarts
      BY RestartsAssumption
    <3>. QED  BY <1>0, <1>13, <3>1, Zenon DEF GatewayRestart, Types
  <2>. QED  BY <1>13, <2>1, <2>2, IdleFacts DEF IndInv, GatewayRestart, SupervisorOK
\* The supervisor's loop, which runs only while the engine serves.
<1>14. CASE Watch \/ Respawn \/ RespawnFails \/ RestartTimesOut
  <2>1. phase = "serving" /\ phase' = phase /\ reg' = reg /\ task' = task
    BY <1>0, <1>14 DEF Watch, Respawn, RespawnFails, RestartTimesOut, SupervisorOK
  <2>2. Types'
    <3>1. restarts' \in 0 .. MaxRestarts
      BY <1>0, <1>14, RestartsAssumption DEF Watch, Respawn, RespawnFails, RestartTimesOut, Types
    <3>. QED  BY <1>0, <1>14, <3>1, Zenon DEF Watch, Respawn, RespawnFails, RestartTimesOut, Types
  <2>. QED  BY <1>0, <2>1, <2>2 DEF IndInv, TasksOK, SupervisorOK
<1>15. CASE RestartReady
  <2>1. phase = "serving"
    BY <1>0, <1>15 DEF RestartReady, SupervisorOK
  <2>2. TasksOK'
    <3>1. CASE reg.active = NoLora
      BY <1>0, <1>15, <3>1 DEF RestartReady, TasksOK
    <3>2. CASE reg.active # NoLora
      <4>1. reg.active \in Names /\ BeginLoad(Sup, reg.active, TRUE)
        BY <1>0, <1>15, <3>2 DEF RestartReady, Coherent, Registries
      <4>. QED  BY <1>0, <4>1, BeginLoadMoves
    <3>. QED  BY <3>1, <3>2
  <2>. QED  BY <1>0, <1>15, <2>1, <2>2 DEF IndInv, RestartReady, Types, SupervisorOK
<1>16. CASE UNCHANGED vars
  BY <1>0, <1>16 DEF IndInv, vars, Types, TasksOK, SupervisorOK
<1>. QED
  BY <1>1, <1>2, <1>3, <1>4, <1>5, <1>6, <1>7, <1>8, <1>9, <1>10, <1>11, <1>12, <1>13, <1>14,
     <1>15, <1>16 DEF Next

\* The inductive invariant holds throughout.
LEMMA SpecIndInv == Spec => []IndInv
<1>1. Init => IndInv
  BY InitIndInv
<1>2. IndInv /\ [Next]_vars => IndInv'
  BY NextIndInv
<1>. QED  BY <1>1, <1>2, PTL DEF Spec

\* The engine, its registry, its server and its supervisor keep their types:
\* the restarts counted by EngineSupervisor never exceed the budget.
THEOREM LifecycleTypeCorrect == Spec => []TypeOK
<1>1. IndInv => TypeOK
  BY IndInvImplies
<1>. QED  BY <1>1, SpecIndInv, PTL

\* The active adapter and the rollback target are loaded and differ, however
\* many loads, evictions, unloads, activations and rollbacks interleave at
\* their awaits.
THEOREM RegistryStaysCoherent == Spec => []RegistryCoherent
<1>1. IndInv => RegistryCoherent
  BY IndInvImplies
<1>. QED  BY <1>1, SpecIndInv, PTL

\* After ModelEngine.stop no supervisor is left to bring the server back.
THEOREM NothingOutlivesStop == Spec => []StopIsFinal
<1>1. IndInv => StopIsFinal
  BY IndInvImplies
<1>. QED  BY <1>1, SpecIndInv, PTL
=============================================================================
