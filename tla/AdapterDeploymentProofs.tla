---------------------- MODULE AdapterDeploymentProofs -----------------------
(***************************************************************************)
(* Theorems about AdapterDeployment, for any learners, chats, adapters,    *)
(* slots, golden cases and tolerance: what the run deployment checks on a  *)
(* small instance.                                                         *)
(*                                                                         *)
(* The invariants of the gate are proved together: an adapter in use stays *)
(* on the server because a victim is never in use, which is so while only  *)
(* the holder of the lock changes the list of loaded adapters, and a       *)
(* rollback brings nothing new into use.  On top of them, what is on the   *)
(* server is registered or was leaked, so the room the registry leaves is  *)
(* room on the server.                                                     *)
(***************************************************************************)
EXTENDS AdapterDeployment, LoRARegistryProofs

\* Only the holder of the lock is in a cycle.
Serialised == \A t \in Learners : cycle[t].pc # "idle" => lock = t

\* What a cycle y knows at each of its awaits about a registry r, the
\* adapters s on the server and the gate's bar b.
CycleOK(y, r, s, b) ==
    /\ y.passes <= y.case
    /\ y.pc = "idle" => y = Idle
    /\ y.pc # "idle" => y.name \in Names
    /\ y.pc \in {"evicting", "loading"} => y.name \notin Loaded(r)
    /\ y.pc = "evicting" => y.victim \in Loaded(r) \ InUse(r)
    /\ y.pc = "loading" => Len(r.loaded) < Slots
    /\ y.pc \in {"baseline", "scoring", "unloading"} => y.name \in Loaded(r) \ InUse(r)
    /\ y.pc \in {"baseline", "scoring"} => y.name \in s
    /\ y.pc = "baseline" => b = NoBar
    /\ y.pc = "scoring" => b # NoBar

RegistryOK(r, s) ==
    /\ Coherent(r)
    /\ InUse(r) \subseteq s
    /\ Len(r.loaded) <= Slots

GateOK(r, b, sc) ==
    /\ \A n \in InUse(r) : sc[n] # NoBar /\ sc[n] + Tolerance >= b
    /\ b = NoBar => \A n \in Names : sc[n] = NoBar

\* A chat in flight names the active adapter, or after one change its
\* predecessor.
ChatOK(q, r) ==
    /\ q.pc = "idle" => q = Quiet
    /\ q.pc = "queued" /\ q.swaps = 0 => q.model = r.active
    /\ q.pc = "queued" /\ q.swaps = 1 => q.model = r.previous

\* TypeOK without the registry, whose type is part of Coherent.
CycleStates ==
    [pc : {"idle", "evicting", "loading", "baseline", "scoring", "unloading"},
     name : Names \cup {NoLora}, victim : Names \cup {NoLora},
     case : 0 .. Cases - 1, passes : 0 .. Cases - 1]
ChatStates == [pc : {"idle", "queued"}, model : Names \cup {NoLora}, swaps : 0 .. 2]

Types ==
    /\ server \subseteq Names
    /\ lock \in Learners \cup {Free}
    /\ cycle \in [Learners -> CycleStates]
    /\ baseline \in NoBar .. Cases
    /\ score \in [Names -> NoBar .. Cases]
    /\ chat \in [Chats -> ChatStates]

IndInv ==
    /\ Types
    /\ Serialised
    /\ RegistryOK(reg, server)
    /\ GateOK(reg, baseline, score)
    /\ \A t \in Learners : CycleOK(cycle[t], reg, server, baseline)
    /\ \A c \in Chats : ChatOK(chat[c], reg)

\* What the server holds is registered or was left there by a load that raised.
Accounted == leaked \subseteq Names /\ server \ leaked \subseteq Loaded(reg)

\* The inductive invariant contains four of the five that the run checks.
LEMMA IndInvImplies ==
    IndInv /\ Accounted => TypeOK /\ OnlyGatedIsServed /\ InUseIsLoaded /\ ChatSurvivesSwap
<1>. SUFFICES ASSUME IndInv, Accounted
              PROVE  TypeOK /\ OnlyGatedIsServed /\ InUseIsLoaded /\ ChatSurvivesSwap
  OBVIOUS
<1>1. TypeOK
  BY DEF IndInv, Types, TypeOK, CycleStates, ChatStates, RegistryOK, Coherent, Accounted
<1>3. OnlyGatedIsServed
  BY DEF IndInv, GateOK, OnlyGatedIsServed, InUse
<1>4. InUseIsLoaded
  BY DEF IndInv, RegistryOK, CycleOK, InUseIsLoaded, InUse
<1>5. ChatSurvivesSwap
  BY DEF IndInv, Types, ChatStates, RegistryOK, ChatOK, ChatSurvivesSwap, InUse
<1>. QED  BY <1>1, <1>3, <1>4, <1>5

\* A learner between two cycles knows nothing and so is never wrong.
LEMMA IdleFacts == Idle \in CycleStates /\ Idle.pc = "idle"
                   /\ \A r, s, b : CycleOK(Idle, r, s, b)
BY GateAssumption DEF Idle, CycleStates, CycleOK

\* The verdict on the bar is in, and the candidate's suite begins.
LEMMA RestartFacts ==
    ASSUME NEW y \in CycleStates, NEW i, NEW j, NEW z,
           z = [[y EXCEPT !.case = i, !.passes = j] EXCEPT !.pc = "scoring", !.case = 0, !.passes = 0]
    PROVE  /\ z \in CycleStates /\ z.pc = "scoring" /\ z.name = y.name
           /\ z.case = 0 /\ z.passes = 0
<1>1. 0 \in 0 .. Cases - 1
  BY GateAssumption
<1>. QED  BY <1>1 DEF CycleStates

\* A client with no chat in flight.
LEMMA QuietFacts == Quiet \in ChatStates /\ \A r : ChatOK(Quiet, r)
BY DEF Quiet, ChatStates, ChatOK

\* Nothing is loaded, served or scored.
LEMMA InitIndInv == Init => IndInv
<1>. SUFFICES ASSUME Init PROVE IndInv
  OBVIOUS
<1>1. Types
  BY GateAssumption, IdleFacts, QuietFacts DEF Init, Types, NoBar
<1>2. RegistryOK(reg, server) /\ GateOK(reg, baseline, score)
  BY EmptyFacts, SlotsAssumption DEF Init, RegistryOK, GateOK, Slots
<1>3. Serialised /\ \A t \in Learners : CycleOK(cycle[t], reg, server, baseline)
  BY IdleFacts DEF Init, Serialised
<1>4. \A c \in Chats : ChatOK(chat[c], reg)
  BY QuietFacts DEF Init
<1>. QED  BY <1>1, <1>2, <1>3, <1>4 DEF IndInv

\* While t has the lock, or takes it, nobody else is in a cycle.
LEMMA OthersIdle ==
    ASSUME IndInv, NEW t \in Learners, cycle[t].pc # "idle" \/ lock = Free
    PROVE  \A u \in Learners \ {t} : cycle[u] = Idle
BY LockAssumption DEF IndInv, Serialised, CycleOK

\* t moves on to y: only y has to fit the new registry, server and bar.
LEMMA CycleMoves ==
    ASSUME IndInv, NEW t \in Learners, cycle[t].pc # "idle" \/ lock = Free,
           NEW y \in CycleStates, cycle' = [cycle EXCEPT ![t] = y],
           CycleOK(y, reg', server', baseline'), y.pc # "idle" => lock' = t
    PROVE  /\ cycle' \in [Learners -> CycleStates]
           /\ Serialised'
           /\ \A u \in Learners : CycleOK(cycle'[u], reg', server', baseline')
<1>1. cycle \in [Learners -> CycleStates]
  BY DEF IndInv, Types
<1>2. cycle' \in [Learners -> CycleStates] /\ cycle'[t] = y
  BY <1>1
<1>3. \A u \in Learners \ {t} : cycle'[u] = Idle
  BY <1>1, OthersIdle
<1>. QED  BY <1>2, <1>3, IdleFacts DEF Serialised

\* Chats while the registry becomes r, in which the active adapter is the same
\* or has become the predecessor.
LEMMA ChatsFollow ==
    ASSUME IndInv, NEW r, SetRegistry(r),
           r.active = reg.active => r.previous = reg.previous,
           r.active # reg.active => r.previous = reg.active
    PROVE  /\ chat' \in [Chats -> ChatStates]
           /\ \A c \in Chats : ChatOK(chat'[c], r)
<1>1. chat \in [Chats -> ChatStates] /\ \A c \in Chats : ChatOK(chat[c], reg)
  BY DEF IndInv, Types
<1>2. CASE r.active = reg.active
  BY <1>1, <1>2 DEF SetRegistry, ChatOK
<1>3. CASE r.active # reg.active
  <2>. DEFINE n(c) == IF chat[c].pc = "queued" /\ chat[c].swaps < 2
                        THEN [chat[c] EXCEPT !.swaps = @ + 1] ELSE chat[c]
  <2>1. chat' = [c \in Chats |-> n(c)]
    BY <1>3 DEF SetRegistry
  <2>2. ASSUME NEW c \in Chats PROVE n(c) \in ChatStates /\ ChatOK(n(c), r)
    <3>1. chat[c] \in ChatStates /\ ChatOK(chat[c], reg)
      BY <1>1
    <3>2. CASE chat[c].pc = "queued" /\ chat[c].swaps < 2
      <4>1. /\ n(c) \in ChatStates /\ n(c).pc = "queued" /\ n(c).model = chat[c].model
            /\ n(c).swaps = chat[c].swaps + 1 /\ chat[c].swaps \in {0, 1}
        BY <3>1, <3>2 DEF ChatStates
      <4>. QED  BY <3>1, <3>2, <4>1, <1>3 DEF ChatOK
    <3>3. CASE ~(chat[c].pc = "queued" /\ chat[c].swaps < 2)
      BY <3>1, <3>3 DEF ChatStates, ChatOK
    <3>. QED  BY <3>2, <3>3
  <2>. QED  BY <2>1, <2>2
<1>. QED  BY <1>2, <1>3

-----------------------------------------------------------------------------
(* One lemma per action.                                                   *)

\* What is in use is loaded.
LEMMA InUseLoaded == ASSUME NEW r, Coherent(r) PROVE InUse(r) \subseteq Loaded(r) /\ InUse(r) \subseteq Names
BY DEF Coherent, InUse, Registries

\* load_lora_adapter up to its first await: the victim is loaded and not in use.
LEMMA ShadowLoadInd ==
    ASSUME IndInv, NEW t \in Learners, NEW n \in Names, ShadowLoad(t, n)
    PROVE  IndInv'
<1>. DEFINE v == EvictionCandidate(reg)
            y == [Idle EXCEPT !.pc = IF v = NoLora THEN "loading" ELSE "evicting",
                              !.name = n, !.victim = v]
<1>1. /\ lock = Free /\ lock' = t
      /\ n \notin Loaded(reg)
      /\ cycle' = [cycle EXCEPT ![t] = y]
      /\ score' = [score EXCEPT ![n] = NoBar]
      /\ UNCHANGED <<reg, server, baseline, chat>>
  BY DEF ShadowLoad, Acquire, IsNew
<1>2. Coherent(reg) /\ Len(reg.loaded) \in Nat
  BY LenProperties DEF IndInv, RegistryOK, Coherent, Registries
<1>3. /\ v \in Names \cup {NoLora}
      /\ v # NoLora => v \in Loaded(reg) \ InUse(reg)
      /\ v = NoLora => Len(reg.loaded) < MaxLoras \/ Len(reg.loaded) <= 2
  BY <1>2, EvictionFacts
<1>4. v = NoLora => Len(reg.loaded) < Slots
  BY <1>2, <1>3, SlotsAssumption DEF Slots
<1>. HIDE DEF v
<1>5. y \in CycleStates /\ CycleOK(y, reg, server, baseline) /\ y.pc # "idle"
  <2>1. Idle \in CycleStates /\ Idle.case = 0 /\ Idle.passes = 0
    BY IdleFacts DEF Idle
  <2>. DEFINE p == IF v = NoLora THEN "loading" ELSE "evicting"
  <2>2. p \in {"loading", "evicting"} /\ (v = NoLora <=> p = "loading")
    OBVIOUS
  <2>3. y = [Idle EXCEPT !.pc = p, !.name = n, !.victim = v]
    OBVIOUS
  <2>. HIDE DEF p, y
  <2>4. /\ y \in CycleStates /\ y.pc = p /\ y.name = n /\ y.victim = v
        /\ y.case = 0 /\ y.passes = 0
    BY <2>1, <2>2, <2>3, <1>3 DEF CycleStates
  <2>5. CycleOK(y, reg, server, baseline)
    BY <1>1, <1>3, <1>4, <2>2, <2>4 DEF CycleOK
  <2>. QED  BY <2>2, <2>4, <2>5
<1>. HIDE DEF y
<1>6. CycleOK(y, reg', server', baseline')
  BY <1>1, <1>5
<1>7. /\ cycle' \in [Learners -> CycleStates] /\ Serialised'
      /\ \A u \in Learners : CycleOK(cycle'[u], reg', server', baseline')
  BY <1>1, <1>5, <1>6, CycleMoves
<1>8. n \notin InUse(reg)
  BY <1>1, <1>2, InUseLoaded
<1>9. GateOK(reg', baseline', score')
  BY <1>1, <1>8, <1>2, InUseLoaded DEF IndInv, Types, GateOK
<1>10. Types'
  BY <1>1, <1>7, GateAssumption DEF IndInv, Types, NoBar
<1>. QED  BY <1>1, <1>7, <1>9, <1>10 DEF IndInv

\* The registry loses n, which nobody uses, and the server with it.
LEMMA RemoveUnused ==
    ASSUME IndInv, NEW n \in Names, n \notin InUse(reg),
           server' = server \ {n}, SetRegistry(Unregister(reg, n)),
           UNCHANGED <<baseline, score>>
    PROVE  /\ RegistryOK(reg', server') /\ GateOK(reg', baseline', score')
           /\ chat' \in [Chats -> ChatStates] /\ \A c \in Chats : ChatOK(chat'[c], reg')
           /\ Loaded(reg') = Loaded(reg) \ {n}
           /\ Len(reg'.loaded) = IF n \in Loaded(reg) THEN Len(reg.loaded) - 1 ELSE Len(reg.loaded)
           /\ Len(reg.loaded) \in Nat
<1>. DEFINE r == Unregister(reg, n)
<1>1. Coherent(reg) /\ Len(reg.loaded) \in Nat
  BY LenProperties DEF IndInv, RegistryOK, Coherent, Registries
<1>2. reg' = r
  BY DEF SetRegistry
<1>3. /\ Coherent(r) /\ Loaded(r) = Loaded(reg) \ {n}
      /\ r.active = reg.active /\ r.previous = reg.previous
      /\ Len(r.loaded) = IF n \in Loaded(reg) THEN Len(reg.loaded) - 1 ELSE Len(reg.loaded)
  BY <1>1, UnregisterFacts
<1>. HIDE DEF r
<1>4. InUse(r) = InUse(reg)
  BY <1>3 DEF InUse
<1>5. chat' \in [Chats -> ChatStates] /\ \A c \in Chats : ChatOK(chat'[c], r)
  BY <1>3, ChatsFollow DEF r
<1>6. RegistryOK(r, server')
  <2>1. Len(r.loaded) <= Len(reg.loaded) /\ Len(r.loaded) \in Nat
    BY <1>1, <1>3, LenProperties DEF Coherent, Registries
  <2>. QED  BY <1>1, <1>3, <1>4, <2>1, SlotsAssumption DEF IndInv, RegistryOK, Slots
<1>. QED  BY <1>1, <1>2, <1>3, <1>4, <1>5, <1>6 DEF IndInv, GateOK

\* The victim, still unused because the lock is held, leaves server and registry.
LEMMA EvictedInd ==
    ASSUME IndInv, NEW t \in Learners, Evicted(t)
    PROVE  IndInv'
<1>. DEFINE v == cycle[t].victim
            y == [cycle[t] EXCEPT !.pc = "loading", !.victim = NoLora]
<1>1. /\ cycle[t].pc = "evicting" /\ server' = server \ {v}
      /\ SetRegistry(Unregister(reg, v))
      /\ cycle' = [cycle EXCEPT ![t].pc = "loading", ![t].victim = NoLora]
      /\ UNCHANGED <<lock, baseline, score>>
  BY DEF Evicted
<1>2. /\ cycle[t] \in CycleStates /\ cycle \in [Learners -> CycleStates]
      /\ CycleOK(cycle[t], reg, server, baseline) /\ lock = t
  BY <1>1 DEF IndInv, Types, Serialised
<1>3. cycle' = [cycle EXCEPT ![t] = y]
  BY <1>1, <1>2
<1>4. v \in Names /\ v \in Loaded(reg) /\ v \notin InUse(reg)
  BY <1>1, <1>2, NamesAssumption DEF CycleOK, CycleStates, IndInv, RegistryOK, Coherent, Registries, Loaded, ToSet
<1>5. /\ RegistryOK(reg', server') /\ GateOK(reg', baseline', score')
      /\ chat' \in [Chats -> ChatStates] /\ \A c \in Chats : ChatOK(chat'[c], reg')
      /\ Loaded(reg') = Loaded(reg) \ {v}
      /\ Len(reg'.loaded) = Len(reg.loaded) - 1 /\ Len(reg.loaded) \in Nat
  BY <1>1, <1>4, RemoveUnused
<1>6. /\ y \in CycleStates /\ y.pc = "loading" /\ y.name = cycle[t].name
      /\ y.case = cycle[t].case /\ y.passes = cycle[t].passes
  BY <1>2 DEF CycleStates
<1>7. y.name \in Names /\ y.name \notin Loaded(reg) /\ y.passes <= y.case
  BY <1>1, <1>2, <1>6 DEF CycleOK
<1>8. Len(reg'.loaded) < Slots
  BY <1>5, SlotsAssumption DEF IndInv, RegistryOK, Slots
<1>. HIDE DEF y, v
<1>9. CycleOK(y, reg', server', baseline')
  BY <1>5, <1>6, <1>7, <1>8 DEF CycleOK
<1>10. /\ cycle' \in [Learners -> CycleStates] /\ Serialised'
       /\ \A u \in Learners : CycleOK(cycle'[u], reg', server', baseline')
  BY <1>1, <1>2, <1>3, <1>6, <1>9, CycleMoves
<1>11. Types'
  BY <1>1, <1>5, <1>10 DEF IndInv, Types
<1>. QED  BY <1>5, <1>10, <1>11 DEF IndInv

\* The candidate is on the server and registered, not active.
LEMMA LoadDoneInd ==
    ASSUME IndInv, NEW t \in Learners, LoadDone(t)
    PROVE  IndInv'
<1>. DEFINE n == cycle[t].name
            r == Register(reg, n)
            y == [cycle[t] EXCEPT !.pc = IF baseline = NoBar THEN "baseline" ELSE "scoring"]
<1>1. /\ cycle[t].pc = "loading" /\ server' = server \cup {n} /\ SetRegistry(r) /\ reg' = r
      /\ cycle' = [cycle EXCEPT ![t].pc = IF baseline = NoBar THEN "baseline" ELSE "scoring"]
      /\ UNCHANGED <<lock, baseline, score>>
  BY DEF LoadDone, SetRegistry
<1>2. /\ cycle[t] \in CycleStates /\ cycle \in [Learners -> CycleStates]
      /\ CycleOK(cycle[t], reg, server, baseline) /\ lock = t
  BY <1>1 DEF IndInv, Types, Serialised
<1>3. cycle' = [cycle EXCEPT ![t] = y]
  BY <1>1, <1>2
<1>4. /\ n \in Names /\ n \notin Loaded(reg) /\ Len(reg.loaded) < Slots
      /\ cycle[t].passes <= cycle[t].case
  BY <1>1, <1>2 DEF CycleOK
<1>5. Coherent(reg) /\ Len(reg.loaded) \in Nat /\ InUse(reg) \subseteq Loaded(reg)
  BY LenProperties, InUseLoaded DEF IndInv, RegistryOK, Coherent, Registries
<1>6. /\ Coherent(r) /\ Loaded(r) = Loaded(reg) \cup {n}
      /\ r.active = reg.active /\ r.previous = reg.previous
      /\ Len(r.loaded) = Len(reg.loaded) + 1
  BY <1>4, <1>5, RegisterFacts
<1>7. chat' \in [Chats -> ChatStates] /\ \A c \in Chats : ChatOK(chat'[c], r)
  BY <1>1, <1>6, ChatsFollow
<1>8. /\ y \in CycleStates /\ y.name = n /\ y.case = cycle[t].case /\ y.passes = cycle[t].passes
      /\ y.pc = IF baseline = NoBar THEN "baseline" ELSE "scoring"
  BY <1>2 DEF CycleStates
<1>. HIDE DEF r, y, n
<1>9. InUse(r) = InUse(reg) /\ n \notin InUse(r)
  BY <1>4, <1>5, <1>6 DEF InUse
<1>10. RegistryOK(r, server')
  BY <1>1, <1>4, <1>5, <1>6, <1>9, SlotsAssumption DEF IndInv, RegistryOK, Slots
<1>11. GateOK(r, baseline', score')
  BY <1>1, <1>9 DEF IndInv, GateOK
<1>12. CycleOK(y, reg', server', baseline')
  BY <1>1, <1>4, <1>6, <1>8, <1>9 DEF CycleOK
<1>13. /\ cycle' \in [Learners -> CycleStates] /\ Serialised'
       /\ \A u \in Learners : CycleOK(cycle'[u], reg', server', baseline')
  BY <1>1, <1>2, <1>3, <1>8, <1>12, CycleMoves
<1>14. Types'
  BY <1>1, <1>4, <1>7, <1>13 DEF IndInv, Types
<1>. QED  BY <1>1, <1>7, <1>10, <1>11, <1>13, <1>14 DEF IndInv

\* Counting one more case.
LEMMA ScoredFacts ==
    ASSUME IndInv, NEW t \in Learners, NEW passed \in BOOLEAN
    PROVE  /\ Scored(t, passed).case = cycle[t].case + 1
           /\ Scored(t, passed).passes \in 0 .. Scored(t, passed).case
           /\ Scored(t, passed).case \in 1 .. Cases
           /\ Scored(t, passed).pc = cycle[t].pc /\ Scored(t, passed).name = cycle[t].name
           /\ Scored(t, passed).victim = cycle[t].victim
           /\ Scored(t, passed).case < Cases => Scored(t, passed) \in CycleStates
<1>. DEFINE k == IF passed THEN cycle[t].passes + 1 ELSE cycle[t].passes
<1>1. /\ cycle[t] \in CycleStates /\ cycle[t].passes <= cycle[t].case
  BY DEF IndInv, Types, CycleOK
<1>2. Scored(t, passed) = [cycle[t] EXCEPT !.case = cycle[t].case + 1, !.passes = k]
  BY <1>1 DEF Scored, CycleStates
<1>3. /\ cycle[t].case \in 0 .. Cases - 1 /\ cycle[t].passes \in 0 .. Cases - 1 /\ Cases \in Nat
  BY <1>1, GateAssumption DEF CycleStates
<1>4. k \in 0 .. cycle[t].case + 1
  BY <1>1, <1>3
<1>. HIDE DEF k
<1>5. /\ Scored(t, passed).case = cycle[t].case + 1 /\ Scored(t, passed).passes = k
      /\ Scored(t, passed).pc = cycle[t].pc /\ Scored(t, passed).name = cycle[t].name
      /\ Scored(t, passed).victim = cycle[t].victim
  BY <1>1, <1>2 DEF CycleStates
<1>6. cycle[t].case + 1 < Cases => cycle[t].case + 1 \in 0 .. Cases - 1 /\ k \in 0 .. Cases - 1
  BY <1>3, <1>4
<1>7. cycle[t].case + 1 < Cases => Scored(t, passed) \in CycleStates
  BY <1>1, <1>2, <1>6 DEF CycleStates
<1>. QED  BY <1>3, <1>4, <1>5, <1>7

\* A step that only moves t's cycle to y, and may set the bar.
LEMMA CycleOnly ==
    ASSUME IndInv, NEW t \in Learners, cycle[t].pc # "idle", NEW y \in CycleStates,
           cycle' = [cycle EXCEPT ![t] = y], CycleOK(y, reg, server, baseline'),
           y.pc # "idle", UNCHANGED <<reg, server, lock, chat>>,
           baseline' \in NoBar .. Cases, score' \in [Names -> NoBar .. Cases],
           GateOK(reg, baseline', score')
    PROVE  IndInv'
<1>1. lock' = t
  BY DEF IndInv, Serialised
<1>2. /\ cycle' \in [Learners -> CycleStates] /\ Serialised'
      /\ \A u \in Learners : CycleOK(cycle'[u], reg', server', baseline')
  BY <1>1, CycleMoves
<1>3. Types'
  BY <1>2 DEF IndInv, Types
<1>. QED  BY <1>2, <1>3 DEF IndInv

\* establish_baseline: the last golden case sets the bar.
LEMMA ScoreBaselineInd ==
    ASSUME IndInv, NEW t \in Learners, NEW passed \in BOOLEAN, ScoreBaseline(t, passed)
    PROVE  IndInv'
<1>. DEFINE s == Scored(t, passed)
            y == [s EXCEPT !.pc = "scoring", !.case = 0, !.passes = 0]
<1>1. cycle[t].pc = "baseline" /\ UNCHANGED <<reg, server, lock, score, chat>>
  BY DEF ScoreBaseline
<1>2. /\ s.case = cycle[t].case + 1 /\ s.passes \in 0 .. s.case /\ s.case \in 1 .. Cases
      /\ s.pc = "baseline" /\ s.name = cycle[t].name /\ s.victim = cycle[t].victim
      /\ s.case < Cases => s \in CycleStates
  BY <1>1, ScoredFacts
<1>3. /\ cycle[t] \in CycleStates /\ CycleOK(cycle[t], reg, server, baseline)
      /\ cycle[t].name \in Names /\ cycle[t].name \in Loaded(reg) \ InUse(reg)
      /\ cycle[t].name \in server /\ baseline = NoBar
      /\ score \in [Names -> NoBar .. Cases] /\ baseline \in NoBar .. Cases
      /\ GateOK(reg, baseline, score) /\ InUse(reg) = {}
  BY <1>1, InUseLoaded DEF IndInv, Types, CycleOK, GateOK, RegistryOK
<1>4. CASE s.case < Cases
  <2>1. cycle' = [cycle EXCEPT ![t] = s] /\ baseline' = baseline
    BY <1>4 DEF ScoreBaseline
  <2>. HIDE DEF s
  <2>2. CycleOK(s, reg, server, baseline')
    BY <1>2, <1>3, <2>1 DEF CycleOK
  <2>. QED  BY <1>1, <1>2, <1>3, <1>4, <2>1, <2>2, CycleOnly
<1>5. CASE ~(s.case < Cases)
  <2>1. cycle' = [cycle EXCEPT ![t] = y] /\ baseline' = s.passes
    BY <1>5 DEF ScoreBaseline
  <2>2. PICK i, k : s = [cycle[t] EXCEPT !.case = i, !.passes = k]
    BY DEF Scored
  <2>3. /\ y \in CycleStates /\ y.pc = "scoring" /\ y.name = cycle[t].name
        /\ y.case = 0 /\ y.passes = 0
    BY <2>2, <1>3, RestartFacts
  <2>. HIDE DEF s, y
  <2>4. baseline' \in NoBar .. Cases /\ baseline' # NoBar
    BY <1>2, <2>1, GateAssumption DEF NoBar
  <2>5. CycleOK(y, reg, server, baseline')
    BY <1>3, <2>3, <2>4 DEF CycleOK
  <2>6. GateOK(reg, baseline', score')
    BY <1>3, <2>4 DEF GateOK
  <2>. QED  BY <1>1, <1>3, <2>1, <2>3, <2>4, <2>5, <2>6, CycleOnly
<1>. QED  BY <1>4, <1>5

\* A golden case of the candidate that is not the last.
LEMMA ScoreCandidateInd ==
    ASSUME IndInv, NEW t \in Learners, NEW passed \in BOOLEAN, ScoreCandidate(t, passed)
    PROVE  IndInv'
<1>. DEFINE s == Scored(t, passed)
<1>1. /\ cycle[t].pc = "scoring" /\ cycle[t].case + 1 < Cases
      /\ cycle' = [cycle EXCEPT ![t] = s]
      /\ UNCHANGED <<reg, server, lock, baseline, score, chat>>
  BY DEF ScoreCandidate
<1>2. /\ s.case = cycle[t].case + 1 /\ s.passes \in 0 .. s.case /\ s.case \in 1 .. Cases
      /\ s.pc = "scoring" /\ s.name = cycle[t].name /\ s \in CycleStates
  BY <1>1, ScoredFacts
<1>. HIDE DEF s
<1>3. CycleOK(s, reg, server, baseline')
  BY <1>1, <1>2 DEF IndInv, CycleOK
<1>4. /\ baseline' \in NoBar .. Cases /\ score' \in [Names -> NoBar .. Cases]
      /\ GateOK(reg, baseline', score')
  BY <1>1 DEF IndInv, Types
<1>. QED  BY <1>1, <1>2, <1>3, <1>4, CycleOnly

\* The candidate's verdict: its score is recorded, and nothing in use is
\* judged again.
LEMMA LastCaseFacts ==
    ASSUME IndInv, NEW t \in Learners, NEW passed \in BOOLEAN, LastCase(t, passed)
    PROVE  /\ cycle[t].pc = "scoring" /\ lock = t
           /\ cycle[t].name \in Names /\ cycle[t].name \in Loaded(reg) \ InUse(reg)
           /\ cycle[t].name \in server /\ baseline # NoBar
           /\ Scored(t, passed).passes \in 0 .. Cases
           /\ score' \in [Names -> NoBar .. Cases]
           /\ score'[cycle[t].name] = Scored(t, passed).passes
           /\ \A n \in Names \ {cycle[t].name} : score'[n] = score[n]
<1>. DEFINE k == Scored(t, passed).passes
            n == cycle[t].name
<1>1. cycle[t].pc = "scoring" /\ score' = [score EXCEPT ![n] = k]
  BY DEF LastCase
<1>2. k \in 0 .. Cases
  <2>1. k \in 0 .. Scored(t, passed).case /\ Scored(t, passed).case \in 1 .. Cases
    BY ScoredFacts
  <2>. HIDE DEF k
  <2>. QED  BY <2>1, GateAssumption
<1>3. /\ lock = t /\ n \in Names /\ n \in Loaded(reg) \ InUse(reg)
      /\ n \in server /\ baseline # NoBar /\ score \in [Names -> NoBar .. Cases]
  BY <1>1 DEF IndInv, Types, Serialised, CycleOK
<1>4. k \in NoBar .. Cases
  BY <1>2, GateAssumption DEF NoBar
<1>. HIDE DEF k, n
<1>5. /\ score' \in [Names -> NoBar .. Cases] /\ score'[n] = k
      /\ \A m \in Names \ {n} : score'[m] = score[m]
  BY <1>1, <1>3, <1>4
<1>. QED  BY <1>1, <1>2, <1>3, <1>5 DEF k, n

\* The candidate cleared the bar and goes live: the active adapter becomes the
\* rollback target, and both have been scored.
LEMMA AcceptInd ==
    ASSUME IndInv, NEW t \in Learners, NEW passed \in BOOLEAN, Accept(t, passed)
    PROVE  IndInv'
<1>. DEFINE n == cycle[t].name
            r == Activate(reg, n)
            k == Scored(t, passed).passes
<1>1. /\ LastCase(t, passed) /\ k + Tolerance >= baseline
      /\ SetRegistry(r) /\ reg' = r
      /\ cycle' = [cycle EXCEPT ![t] = Idle] /\ lock' = Free /\ UNCHANGED <<server, baseline>>
  BY DEF Accept, Clears, SetRegistry
<1>2. /\ cycle[t].pc = "scoring" /\ lock = t
      /\ n \in Names /\ n \in Loaded(reg) \ InUse(reg)
      /\ n \in server /\ baseline # NoBar
      /\ k \in 0 .. Cases
      /\ score' \in [Names -> NoBar .. Cases] /\ score'[n] = k
      /\ \A m \in Names \ {n} : score'[m] = score[m]
  BY <1>1, LastCaseFacts
<1>3. /\ Coherent(reg) /\ InUse(reg) \subseteq Names /\ InUse(reg) \subseteq server
      /\ Len(reg.loaded) <= Slots /\ GateOK(reg, baseline, score)
  BY InUseLoaded DEF IndInv, RegistryOK
<1>4. n # reg.active
  BY <1>2, NamesAssumption DEF InUse
<1>5. /\ Coherent(r) /\ r.loaded = reg.loaded
      /\ r.active = n /\ r.previous = reg.active
  BY <1>2, <1>3, <1>4, ActivateFacts
<1>. HIDE DEF r, k, n
<1>6. chat' \in [Chats -> ChatStates] /\ \A c \in Chats : ChatOK(chat'[c], r)
  BY <1>1, <1>4, <1>5, ChatsFollow
<1>7. InUse(r) \subseteq InUse(reg) \cup {n} /\ n \in InUse(r)
  BY <1>2, <1>5, NamesAssumption DEF InUse
<1>8. RegistryOK(r, server')
  BY <1>1, <1>2, <1>3, <1>5, <1>7 DEF RegistryOK
<1>9. GateOK(r, baseline', score')
  <2>1. k # NoBar
    BY <1>2 DEF NoBar
  <2>. QED  BY <2>1, <1>1, <1>2, <1>3, <1>7 DEF GateOK
<1>10. /\ cycle' \in [Learners -> CycleStates] /\ Serialised'
       /\ \A u \in Learners : CycleOK(cycle'[u], reg', server', baseline')
  BY <1>1, <1>2, IdleFacts, CycleMoves
<1>11. Types'
  BY <1>1, <1>2, <1>6, <1>10 DEF IndInv, Types
<1>. QED  BY <1>1, <1>6, <1>8, <1>9, <1>10, <1>11 DEF IndInv

\* The candidate fell short and is to be unloaded.
LEMMA RejectInd ==
    ASSUME IndInv, NEW t \in Learners, NEW passed \in BOOLEAN, Reject(t, passed)
    PROVE  IndInv'
<1>. DEFINE n == cycle[t].name
            y == [Idle EXCEPT !.pc = "unloading", !.name = n]
<1>1. /\ LastCase(t, passed) /\ cycle' = [cycle EXCEPT ![t] = y]
      /\ UNCHANGED <<reg, server, lock, baseline, chat>>
  BY DEF Reject
<1>2. /\ cycle[t].pc = "scoring" /\ lock = t
      /\ n \in Names /\ n \in Loaded(reg) \ InUse(reg) /\ baseline # NoBar
      /\ score' \in [Names -> NoBar .. Cases]
      /\ \A m \in Names \ {n} : score'[m] = score[m]
  BY <1>1, LastCaseFacts
<1>3. InUse(reg) \subseteq Names
  BY InUseLoaded DEF IndInv, RegistryOK
<1>. HIDE DEF n
<1>4. y \in CycleStates /\ CycleOK(y, reg, server, baseline') /\ y.pc = "unloading"
  <2>1. /\ Idle \in CycleStates /\ Idle.case = 0 /\ Idle.passes = 0
        /\ Idle.victim = NoLora /\ n \in Names \cup {NoLora}
    BY <1>2, IdleFacts DEF Idle
  <2>2. y = [Idle EXCEPT !.pc = "unloading", !.name = n]
    OBVIOUS
  <2>. HIDE DEF y
  <2>3. /\ y \in CycleStates /\ y.pc = "unloading" /\ y.name = n
        /\ y.case = 0 /\ y.passes = 0
    BY <2>1, <2>2 DEF CycleStates
  <2>. QED  BY <1>2, <2>3 DEF CycleOK
<1>. HIDE DEF y
<1>5. GateOK(reg, baseline', score')
  BY <1>1, <1>2, <1>3 DEF IndInv, GateOK
<1>6. baseline' \in NoBar .. Cases
  BY <1>1 DEF IndInv, Types
<1>. QED  BY <1>1, <1>2, <1>4, <1>5, <1>6, CycleOnly

\* The rejected candidate leaves server and registry.
LEMMA UnloadedInd ==
    ASSUME IndInv, NEW t \in Learners, Unloaded(t)
    PROVE  IndInv'
<1>. DEFINE n == cycle[t].name
<1>1. /\ cycle[t].pc = "unloading" /\ server' = server \ {n} /\ SetRegistry(Unregister(reg, n))
      /\ cycle' = [cycle EXCEPT ![t] = Idle] /\ lock' = Free /\ UNCHANGED <<baseline, score>>
  BY DEF Unloaded
<1>2. n \in Names /\ n \notin InUse(reg)
  BY <1>1 DEF IndInv, CycleOK
<1>3. /\ RegistryOK(reg', server') /\ GateOK(reg', baseline', score')
      /\ chat' \in [Chats -> ChatStates] /\ \A c \in Chats : ChatOK(chat'[c], reg')
  BY <1>1, <1>2, RemoveUnused
<1>4. /\ cycle' \in [Learners -> CycleStates] /\ Serialised'
      /\ \A u \in Learners : CycleOK(cycle'[u], reg', server', baseline')
  BY <1>1, IdleFacts, CycleMoves
<1>5. Types'
  BY <1>1, <1>3, <1>4 DEF IndInv, Types
<1>. QED  BY <1>3, <1>4, <1>5 DEF IndInv

\* A step fails, with or without its effect on the server: what is in use is
\* not what the step was about.
LEMMA RaisesInd ==
    ASSUME IndInv, NEW t \in Learners, Raises(t)
    PROVE  IndInv'
<1>1. /\ cycle[t] # Idle /\ server' \in Effects(t)
      /\ cycle' = [cycle EXCEPT ![t] = Idle] /\ lock' = Free
      /\ UNCHANGED <<reg, baseline, score, chat>>
  BY DEF Raises
<1>2. /\ cycle[t].pc # "idle" /\ CycleOK(cycle[t], reg, server, baseline)
      /\ cycle[t] \in CycleStates /\ cycle[t].name \in Names
  BY <1>1 DEF IndInv, Types, CycleOK
<1>3. server' \subseteq Names /\ InUse(reg) \subseteq server'
  <2>1. server \subseteq Names /\ InUse(reg) \subseteq server
    BY DEF IndInv, Types, RegistryOK
  <2>2. \/ server' = server
        \/ cycle[t].pc = "evicting" /\ server' = server \ {cycle[t].victim}
        \/ cycle[t].pc = "loading" /\ server' = server \cup {cycle[t].name}
        \/ cycle[t].pc = "unloading" /\ server' = server \ {cycle[t].name}
    BY <1>1 DEF Effects
  <2>. QED  BY <1>2, <2>1, <2>2 DEF CycleOK
<1>4. /\ cycle' \in [Learners -> CycleStates] /\ Serialised'
      /\ \A u \in Learners : CycleOK(cycle'[u], reg', server', baseline')
  BY <1>1, <1>2, IdleFacts, CycleMoves
<1>5. RegistryOK(reg', server')
  BY <1>1, <1>3 DEF IndInv, RegistryOK
<1>6. Types'
  BY <1>1, <1>3, <1>4 DEF IndInv, Types
<1>. QED  BY <1>1, <1>4, <1>5, <1>6 DEF IndInv

\* Rollback swaps two adapters that have both been gated.
LEMMA RollbackInd == ASSUME IndInv, RollbackLora PROVE IndInv'
<1>. DEFINE r == Rollback(reg)
<1>1. SetRegistry(r) /\ reg' = r /\ UNCHANGED <<server, lock, cycle, baseline, score>>
  BY DEF RollbackLora, SetRegistry
<1>2. /\ Coherent(r) /\ r.loaded = reg.loaded /\ InUse(r) = InUse(reg)
      /\ r.active = reg.previous /\ r.previous = reg.active
      /\ r.active = reg.active => r = reg
  BY RollbackFacts DEF IndInv, RegistryOK
<1>. HIDE DEF r
<1>3. chat' \in [Chats -> ChatStates] /\ \A c \in Chats : ChatOK(chat'[c], r)
  BY <1>1, <1>2, ChatsFollow
<1>4. RegistryOK(r, server') /\ GateOK(r, baseline', score')
  BY <1>1, <1>2 DEF IndInv, RegistryOK, GateOK
<1>5. Loaded(r) = Loaded(reg)
  BY <1>2 DEF Loaded
<1>6. ASSUME NEW t \in Learners PROVE CycleOK(cycle'[t], r, server', baseline')
  BY <1>1, <1>2, <1>5 DEF IndInv, CycleOK
<1>7. Types' /\ Serialised'
  BY <1>1, <1>3 DEF IndInv, Types, Serialised
<1>. QED  BY <1>1, <1>3, <1>4, <1>6, <1>7 DEF IndInv

\* A chat captures the active adapter, or is answered.
LEMMA ChatInd == ASSUME IndInv, NEW c \in Chats, Ask(c) \/ Answered(c) PROVE IndInv'
<1>. DEFINE q == IF Ask(c) THEN [pc |-> "queued", model |-> reg.active, swaps |-> 0] ELSE Quiet
<1>1. chat' = [chat EXCEPT ![c] = q] /\ UNCHANGED <<reg, server, lock, cycle, baseline, score>>
  BY DEF Ask, Answered
<1>2. q \in ChatStates /\ ChatOK(q, reg)
  BY QuietFacts DEF ChatStates, ChatOK, IndInv, RegistryOK, Coherent, Registries
<1>. HIDE DEF q
<1>3. chat' \in [Chats -> ChatStates] /\ \A d \in Chats : ChatOK(chat'[d], reg')
  BY <1>1, <1>2 DEF IndInv, Types
<1>4. Types' /\ Serialised'
  BY <1>1, <1>3 DEF IndInv, Types, Serialised
<1>. QED  BY <1>1, <1>3, <1>4 DEF IndInv

\* Every step preserves the invariant.
LEMMA NextIndInv == IndInv /\ [Next]_vars => IndInv'
<1>. SUFFICES ASSUME IndInv, [Next]_vars PROVE IndInv'
  OBVIOUS
<1>1. CASE UNCHANGED vars
  BY <1>1 DEF vars, IndInv, Types, Serialised
<1>. QED  BY <1>1, ShadowLoadInd, EvictedInd, LoadDoneInd, UnloadedInd, RaisesInd,
             ScoreBaselineInd, ScoreCandidateInd, AcceptInd, RejectInd, RollbackInd, ChatInd
          DEF Next

\* The invariant holds of every reachable state.
LEMMA AlwaysIndInv == Spec => []IndInv
BY InitIndInv, NextIndInv, PTL DEF Spec

-----------------------------------------------------------------------------
(* What the server holds is accounted for.                                 *)

\* A step that takes n from the server and from the registry.
LEMMA RemovalAccounted ==
    ASSUME IndInv, Accounted, NEW n, server' = server \ {n},
           SetRegistry(Unregister(reg, n)), UNCHANGED leaked
    PROVE  Accounted'
<1>1. Loaded(reg') = Loaded(reg) \ {n}
  BY UnregisterFacts DEF SetRegistry, IndInv, RegistryOK
<1>. QED  BY <1>1 DEF Accounted

\* Only a load that raises puts an adapter on the server that the registry
\* does not know, and that one is leaked.
LEMMA RaisesAccounted ==
    ASSUME IndInv, Accounted, NEW t \in Learners, Raises(t)
    PROVE  Accounted'
<1>1. /\ cycle[t] # Idle /\ server' \in Effects(t) /\ UNCHANGED reg
      /\ leaked' = IF cycle[t].pc = "loading" THEN leaked \cup (server' \ server) ELSE leaked
  BY DEF Raises
<1>2. CASE cycle[t].pc = "loading"
  <2>1. cycle[t].name \in Names
    BY <1>2 DEF IndInv, CycleOK
  <2>2. server' = server \/ server' = server \cup {cycle[t].name}
    BY <1>1, <1>2 DEF Effects
  <2>. QED  BY <1>1, <1>2, <2>1, <2>2 DEF Accounted
<1>3. CASE cycle[t].pc # "loading"
  <2>1. server' \subseteq server
    BY <1>1, <1>3 DEF Effects
  <2>. QED  BY <1>1, <1>3, <2>1 DEF Accounted
<1>. QED  BY <1>2, <1>3

\* Every step keeps account of what is on the server.
LEMMA NextAccounted == IndInv /\ Accounted /\ [Next]_vars => Accounted'
<1>. SUFFICES ASSUME IndInv, Accounted, [Next]_vars PROVE Accounted'
  OBVIOUS
<1>1. ASSUME NEW t \in Learners, Evicted(t) \/ Unloaded(t) PROVE Accounted'
  BY <1>1, RemovalAccounted DEF Evicted, Unloaded
<1>2. ASSUME NEW t \in Learners, LoadDone(t) PROVE Accounted'
  <2>1. cycle[t].name \in Names
    BY <1>2 DEF LoadDone, IndInv, CycleOK
  <2>2. Loaded(reg') = Loaded(reg) \cup {cycle[t].name}
    BY <1>2, <2>1, RegisterFacts DEF LoadDone, SetRegistry, IndInv, RegistryOK
  <2>. QED  BY <1>2, <2>2 DEF LoadDone, Accounted
<1>3. ASSUME NEW t \in Learners, NEW passed \in BOOLEAN, Accept(t, passed) PROVE Accounted'
  <2>1. cycle[t].name \in Names
    BY <1>3, LastCaseFacts DEF Accept
  <2>2. Loaded(reg') = Loaded(reg)
    BY <1>3, <2>1, ActivateFacts DEF Accept, SetRegistry, IndInv, RegistryOK, Loaded
  <2>. QED  BY <1>3, <2>2 DEF Accept, Accounted
<1>4. CASE RollbackLora
  <2>1. Loaded(reg') = Loaded(reg)
    BY <1>4, RollbackFacts DEF RollbackLora, SetRegistry, IndInv, RegistryOK, Loaded
  <2>. QED  BY <1>4, <2>1 DEF RollbackLora, Accounted
<1>5. CASE UNCHANGED <<reg, server, leaked>>
  BY <1>5 DEF Accounted
<1>6. ASSUME NEW t \in Learners, NEW n \in Names, ShadowLoad(t, n)
      PROVE  UNCHANGED <<reg, server, leaked>>
  BY <1>6 DEF ShadowLoad
<1>7. ASSUME NEW t \in Learners, NEW passed \in BOOLEAN,
             ScoreBaseline(t, passed) \/ ScoreCandidate(t, passed) \/ Reject(t, passed)
      PROVE  UNCHANGED <<reg, server, leaked>>
  BY <1>7 DEF ScoreBaseline, ScoreCandidate, Reject
<1>8. ASSUME NEW c \in Chats, Ask(c) \/ Answered(c)
      PROVE  UNCHANGED <<reg, server, leaked>>
  BY <1>8 DEF Ask, Answered
<1>9. UNCHANGED vars => UNCHANGED <<reg, server, leaked>>
  BY DEF vars
<1>. QED  BY <1>1, <1>2, <1>3, <1>4, <1>5, <1>6, <1>7, <1>8, <1>9, RaisesAccounted DEF Next

\* What is on the server is accounted for in every reachable state.
LEMMA AlwaysAccounted == Spec => []Accounted
<1>1. Init => Accounted
  BY DEF Init, Accounted
<1>. QED  BY <1>1, NextAccounted, AlwaysIndInv, PTL DEF Spec

\* A list holds no more adapters than it has entries.
LEMMA LoadedCount ==
    ASSUME NEW r, Coherent(r), NEW S, S \subseteq Loaded(r)
    PROVE  Cardinality(S) <= Len(r.loaded) /\ Cardinality(S) \in Nat /\ Len(r.loaded) \in Nat
<1>. DEFINE q == r.loaded
<1>1. Len(q) \in Nat /\ DOMAIN q = 1 .. Len(q) /\ q \in Seq(Names)
  BY LenProperties DEF Coherent, Registries
<1>2. q \in Surjection(1 .. Len(q), Loaded(r))
  <2>1. q \in [1 .. Len(q) -> Loaded(r)]
    BY <1>1 DEF Loaded, ToSet
  <2>2. \A n \in Loaded(r) : \E i \in 1 .. Len(q) : q[i] = n
    BY <1>1 DEF Loaded, ToSet
  <2>. QED  BY <2>1, <2>2 DEF Surjection
<1>3. IsFiniteSet(1 .. Len(q)) /\ Cardinality(1 .. Len(q)) = Len(q)
  BY <1>1, FS_Interval
<1>4. IsFiniteSet(Loaded(r)) /\ Cardinality(Loaded(r)) <= Len(q)
  BY <1>2, <1>3, FS_Surjection
<1>5. /\ IsFiniteSet(S) /\ Cardinality(S) <= Cardinality(Loaded(r))
      /\ Cardinality(S) \in Nat /\ Cardinality(Loaded(r)) \in Nat
  BY <1>4, FS_Subset, FS_CardinalityType
<1>. QED  BY <1>1, <1>4, <1>5

\* A load is posted when the registry has room, and so has the server but for
\* what was leaked.
LEMMA LoadsHaveRoom == IndInv /\ Accounted => StallsOnlyIfLeaked
<1>. SUFFICES ASSUME IndInv, Accounted, NEW t \in Learners, cycle[t].pc = "loading"
              PROVE  Cardinality(server \ leaked) < Slots
  BY DEF StallsOnlyIfLeaked
<1>1. Len(reg.loaded) < Slots
  BY DEF IndInv, CycleOK
<1>2. /\ Cardinality(server \ leaked) <= Len(reg.loaded)
      /\ Cardinality(server \ leaked) \in Nat /\ Len(reg.loaded) \in Nat
  BY LoadedCount DEF Accounted, IndInv, RegistryOK
<1>3. Slots \in Nat
  BY SlotsAssumption DEF Slots
<1>. QED  BY <1>1, <1>2, <1>3

-----------------------------------------------------------------------------
\* Type correctness of the deployment path.
THEOREM DeploymentTypeCorrect == Spec => []TypeOK
BY AlwaysIndInv, AlwaysAccounted, IndInvImplies, PTL

\* The learning loop does not stall on a full server, whatever is rejected,
\* rolled back or raises, but for adapters whose load took effect and raised:
\* without those the server has a slot for every load that is posted.
THEOREM LoadsFindASlot == Spec => []StallsOnlyIfLeaked
BY AlwaysIndInv, AlwaysAccounted, LoadsHaveRoom, PTL

\* No adapter that has not cleared the bar in its own evaluation is ever served
\* or can be rolled back to, however cycles, failures and rollbacks interleave.
THEOREM ServedAdaptersAreGated == Spec => []OnlyGatedIsServed
BY AlwaysIndInv, AlwaysAccounted, IndInvImplies, PTL

\* What is active, can be rolled back to or is being judged is on the server,
\* although POSTs fail with and without effect.
THEOREM UsedAdaptersAreLoaded == Spec => []InUseIsLoaded
BY AlwaysIndInv, AlwaysAccounted, IndInvImplies, PTL

\* A chat that named its adapter before it queued survives one swap.
THEOREM ChatsSurviveSwaps == Spec => []ChatSurvivesSwap
BY AlwaysIndInv, AlwaysAccounted, IndInvImplies, PTL

-----------------------------------------------------------------------------
(* The refinement of GatedServing.  The bar is set before anything has been *)
(* judged, so setting it clears nobody; what a cycle fetches, drops or      *)
(* judges is never in use, so each of its steps is about a spare adapter.   *)

Cleared == {n \in Names : score[n] # NoBar /\ score[n] + Tolerance >= baseline}

Unserved == UNCHANGED <<reg.active, reg.previous, server, Cleared>>

\* A name that is not in use is one GatedServing may do things to.
LEMMA SpareFacts == Gated!Spare = Names \ InUse(reg)
BY NamesAssumption DEF Gated!Spare, InUse

\* A cycle's adapter is taken in hand: it is not in use, and any verdict an
\* adapter of that name once had is void.
LEMMA ShadowLoadDisqualifies ==
    ASSUME IndInv, NEW t \in Learners, NEW n \in Names, ShadowLoad(t, n)
    PROVE  Gated!ServingNext
<1>1. /\ n \notin Loaded(reg) /\ score' = [score EXCEPT ![n] = NoBar]
      /\ UNCHANGED <<reg, server, baseline>>
  BY DEF ShadowLoad, IsNew
<1>2. n \in Gated!Spare
  BY <1>1, SpareFacts, InUseLoaded DEF IndInv, RegistryOK
<1>3. Cleared' = Cleared \ {n}
  BY <1>1 DEF Cleared, IndInv, Types
<1>4. Gated!Disqualify(n)
  BY <1>1, <1>3 DEF Gated!Disqualify, Cleared
<1>. QED  BY <1>2, <1>4 DEF Gated!ServingNext

\* An adapter nobody uses leaves the registry and the server.
LEMMA RemovalDrops ==
    ASSUME IndInv, NEW n \in Names \ InUse(reg), server' = server \ {n},
           SetRegistry(Unregister(reg, n)), UNCHANGED <<baseline, score>>
    PROVE  Gated!ServingNext
<1>1. reg'.active = reg.active /\ reg'.previous = reg.previous
  BY UnregisterFacts DEF SetRegistry, IndInv, RegistryOK
<1>2. Gated!Drop(n)
  BY <1>1 DEF Gated!Drop
<1>. QED  BY <1>2, SpareFacts DEF Gated!ServingNext

\* The candidate appears on the server beside what is served.
LEMMA LoadDoneFetches ==
    ASSUME IndInv, NEW t \in Learners, LoadDone(t)
    PROVE  Gated!ServingNext
<1>. DEFINE n == cycle[t].name
<1>1. /\ cycle[t].pc = "loading" /\ server' = server \cup {n}
      /\ reg' = Register(reg, n) /\ UNCHANGED <<baseline, score>>
  BY DEF LoadDone, SetRegistry
<1>2. n \in Names /\ n \notin Loaded(reg) /\ Coherent(reg)
  BY <1>1 DEF IndInv, CycleOK, RegistryOK
<1>3. reg'.active = reg.active /\ reg'.previous = reg.previous
  BY <1>1, <1>2, RegisterFacts
<1>4. n \in Gated!Spare
  BY <1>2, SpareFacts, InUseLoaded
<1>5. Gated!Fetch(n)
  BY <1>1, <1>3 DEF Gated!Fetch
<1>. QED  BY <1>4, <1>5 DEF Gated!ServingNext

\* Setting the bar judges nobody: there is no score yet.
LEMMA ScoreBaselineUnserved ==
    ASSUME IndInv, NEW t \in Learners, NEW passed \in BOOLEAN, ScoreBaseline(t, passed)
    PROVE  Unserved
<1>1. cycle[t].pc = "baseline" /\ UNCHANGED <<reg, server, score>>
  BY DEF ScoreBaseline
<1>2. baseline = NoBar
  BY <1>1 DEF IndInv, CycleOK
<1>3. Cleared = {} /\ Cleared' = {}
  BY <1>1, <1>2 DEF Cleared, IndInv, GateOK
<1>. QED  BY <1>1, <1>3 DEF Unserved

\* The candidate that cleared the bar takes over from the active adapter.
LEMMA AcceptGoesLive ==
    ASSUME IndInv, NEW t \in Learners, NEW passed \in BOOLEAN, Accept(t, passed),
           NEW n, n = cycle[t].name
    PROVE  Gated!ServingNext
<1>. DEFINE k == Scored(t, passed).passes
<1>1. /\ LastCase(t, passed) /\ k + Tolerance >= baseline
      /\ reg' = Activate(reg, n) /\ UNCHANGED <<server, baseline>>
  BY DEF Accept, Clears, SetRegistry
<1>2. /\ n \in Names /\ n \in Loaded(reg) \ InUse(reg) /\ n \in server
      /\ k # NoBar
      /\ score'[n] = k /\ \A m \in Names \ {n} : score'[m] = score[m]
  BY <1>1, LastCaseFacts DEF NoBar
<1>3. n # reg.active /\ Coherent(reg)
  BY <1>2, NamesAssumption DEF InUse, IndInv, RegistryOK
<1>4. reg'.active = n /\ reg'.previous = reg.active
  BY <1>1, <1>2, <1>3, ActivateFacts
<1>. HIDE DEF k
<1>5. Cleared' = Cleared \cup {n}
  BY <1>1, <1>2 DEF Cleared
<1>6. Gated!GoLive(n)
  BY <1>1, <1>2, <1>4, <1>5 DEF Gated!GoLive, Cleared
<1>7. n \in Gated!Spare
  BY <1>2, SpareFacts
<1>. QED  BY <1>6, <1>7 DEF Gated!ServingNext

\* A candidate that fell short is not cleared, whatever it was before.
LEMMA RejectDisqualifies ==
    ASSUME IndInv, NEW t \in Learners, NEW passed \in BOOLEAN, Reject(t, passed),
           NEW n, n = cycle[t].name
    PROVE  Gated!ServingNext
<1>. DEFINE k == Scored(t, passed).passes
<1>1. /\ LastCase(t, passed) /\ ~(k + Tolerance >= baseline)
      /\ UNCHANGED <<reg, server, baseline>>
  BY DEF Reject, Clears
<1>2. /\ n \in Names /\ n \in Loaded(reg) \ InUse(reg)
      /\ score'[n] = k /\ \A m \in Names \ {n} : score'[m] = score[m]
  BY <1>1, LastCaseFacts
<1>. HIDE DEF k
<1>3. Cleared' = Cleared \ {n}
  BY <1>1, <1>2 DEF Cleared
<1>4. Gated!Disqualify(n)
  BY <1>1, <1>3 DEF Gated!Disqualify, Cleared
<1>5. n \in Gated!Spare
  BY <1>2, SpareFacts
<1>. QED  BY <1>4, <1>5 DEF Gated!ServingNext

\* A POST that raises did nothing, dropped an unused adapter or fetched one.
LEMMA RaisesSparesTheServed ==
    ASSUME IndInv, NEW t \in Learners, Raises(t)
    PROVE  Gated!ServingNext \/ Unserved
<1>1. server' \in Effects(t) /\ UNCHANGED <<reg, baseline, score>> /\ cycle[t] # Idle
  BY DEF Raises
<1>2. /\ CycleOK(cycle[t], reg, server, baseline) /\ cycle[t].name \in Names
      /\ InUse(reg) \subseteq Loaded(reg) /\ Loaded(reg) \subseteq Names
  BY <1>1, InUseLoaded DEF IndInv, CycleOK, RegistryOK, Coherent, Registries, Loaded, ToSet
<1>3. Cleared' = Cleared
  BY <1>1 DEF Cleared
<1>4. CASE server' = server
  BY <1>1, <1>3, <1>4 DEF Unserved
<1>5. CASE cycle[t].pc = "evicting" /\ server' = server \ {cycle[t].victim}
  <2>1. cycle[t].victim \in Gated!Spare
    BY <1>2, <1>5, SpareFacts DEF CycleOK
  <2>2. Gated!Drop(cycle[t].victim)
    BY <1>1, <1>5 DEF Gated!Drop
  <2>. QED  BY <2>1, <2>2 DEF Gated!ServingNext
<1>6. CASE cycle[t].pc = "loading" /\ server' = server \cup {cycle[t].name}
  <2>1. cycle[t].name \in Gated!Spare
    BY <1>2, <1>6, SpareFacts DEF CycleOK
  <2>2. Gated!Fetch(cycle[t].name)
    BY <1>1, <1>6 DEF Gated!Fetch
  <2>. QED  BY <2>1, <2>2 DEF Gated!ServingNext
<1>7. CASE cycle[t].pc = "unloading" /\ server' = server \ {cycle[t].name}
  <2>1. cycle[t].name \in Gated!Spare
    BY <1>2, <1>7, SpareFacts DEF CycleOK
  <2>2. Gated!Drop(cycle[t].name)
    BY <1>1, <1>7 DEF Gated!Drop
  <2>. QED  BY <2>1, <2>2 DEF Gated!ServingNext
<1>. QED  BY <1>1, <1>4, <1>5, <1>6, <1>7 DEF Effects

\* The deployment path implements GatedServing: whatever cycles, evictions,
\* lost answers and rollbacks do, an adapter goes live only by clearing its
\* evaluation, what it replaces is one swap away, and a rollback can be rolled
\* forward.
THEOREM DeploymentImplementsGate == Spec => DeploymentIsGated
<1>1. Init => Gated!ServingInit
  <2>. SUFFICES ASSUME Init PROVE Gated!ServingInit
    OBVIOUS
  <2>1. Cleared = {}
    BY DEF Init, Cleared
  <2>. QED  BY <2>1 DEF Init, EmptyRegistry, Gated!ServingInit, Cleared
<1>2. ASSUME IndInv, [Next]_vars
      PROVE  [Gated!ServingNext]_(Gated!servingVars)
  <2>1. SUFFICES Gated!ServingNext \/ Unserved
    BY DEF Gated!servingVars, Unserved, Cleared
  <2>2. ASSUME NEW t \in Learners, NEW n \in Names, ShadowLoad(t, n) PROVE Gated!ServingNext
    BY <1>2, <2>2, ShadowLoadDisqualifies
  <2>3. ASSUME NEW t \in Learners, Evicted(t) PROVE Gated!ServingNext
    <3>1. cycle[t].victim \in Names \ InUse(reg)
      BY <1>2, <2>3 DEF Evicted, IndInv, CycleOK, RegistryOK, Coherent, Registries, Loaded, ToSet
    <3>. QED  BY <1>2, <2>3, <3>1, RemovalDrops DEF Evicted
  <2>4. ASSUME NEW t \in Learners, LoadDone(t) PROVE Gated!ServingNext
    BY <1>2, <2>4, LoadDoneFetches
  <2>5. ASSUME NEW t \in Learners, Unloaded(t) PROVE Gated!ServingNext
    <3>1. cycle[t].name \in Names \ InUse(reg)
      BY <1>2, <2>5 DEF Unloaded, IndInv, CycleOK
    <3>. QED  BY <1>2, <2>5, <3>1, RemovalDrops DEF Unloaded
  <2>6. ASSUME NEW t \in Learners, Raises(t) PROVE Gated!ServingNext \/ Unserved
    BY <1>2, <2>6, RaisesSparesTheServed
  <2>7. ASSUME NEW t \in Learners, NEW passed \in BOOLEAN, ScoreBaseline(t, passed)
        PROVE  Unserved
    BY <1>2, <2>7, ScoreBaselineUnserved
  <2>8. ASSUME NEW t \in Learners, NEW passed \in BOOLEAN, Accept(t, passed)
        PROVE  Gated!ServingNext
    BY <1>2, <2>8, AcceptGoesLive
  <2>9. ASSUME NEW t \in Learners, NEW passed \in BOOLEAN, Reject(t, passed)
        PROVE  Gated!ServingNext
    BY <1>2, <2>9, RejectDisqualifies
  <2>10. CASE RollbackLora
    <3>1. reg'.active = reg.previous /\ reg'.previous = reg.active
      BY <1>2, <2>10, RollbackFacts DEF RollbackLora, SetRegistry, IndInv, RegistryOK
    <3>2. Gated!Swap
      BY <2>10, <3>1 DEF RollbackLora, Gated!Swap
    <3>. QED  BY <3>2 DEF Gated!ServingNext
  <2>11. ASSUME NEW t \in Learners, NEW passed \in BOOLEAN, ScoreCandidate(t, passed)
         PROVE  Unserved
    BY <2>11 DEF ScoreCandidate, Unserved, Cleared
  <2>12. ASSUME NEW c \in Chats, Ask(c) \/ Answered(c) PROVE Unserved
    BY <2>12 DEF Ask, Answered, Unserved, Cleared
  <2>13. CASE UNCHANGED vars
    BY <2>13 DEF vars, Unserved, Cleared
  <2>. QED  BY <1>2, <2>2, <2>3, <2>4, <2>5, <2>6, <2>7, <2>8, <2>9, <2>10, <2>11, <2>12, <2>13 DEF Next
<1>. QED  BY <1>1, <1>2, AlwaysIndInv, PTL DEF Spec, DeploymentIsGated, Gated!ServingSpec
=============================================================================
