---------------------------- MODULE LoRARegistry ----------------------------
(***************************************************************************)
(* LoRARegistry (engine/lora.py): the engine's record of the adapters it   *)
(* has loaded, the active one and the one to roll back to.                 *)
(*                                                                         *)
(* A registry is a record.  `loaded` lists the adapters oldest first, by   *)
(* loaded_at; an adapter's path is a function of its name and is left out. *)
(* Every mutator ends in _persist, which writes the whole record before it *)
(* returns, so the file and the record never differ between two steps.     *)
(***************************************************************************)
EXTENDS Integers, Sequences, FiniteSets, SequencesExt

CONSTANTS
    Names,     \* adapter names
    NoLora,    \* None: the base model
    MaxLoras   \* config.max_loras, the server's adapter slots

ASSUME NamesAssumption == IsFiniteSet(Names) /\ NoLora \notin Names
ASSUME SlotsAssumption == MaxLoras \in Nat \ {0}

Registries == [loaded : Seq(Names), active : Names \cup {NoLora}, previous : Names \cup {NoLora}]

EmptyRegistry == [loaded |-> <<>>, active |-> NoLora, previous |-> NoLora]

Loaded(r) == ToSet(r.loaded)

Without(s, n) ==
    IF n \in ToSet(s) THEN RemoveAt(s, CHOOSE i \in DOMAIN s : s[i] = n) ELSE s

\* Loading a known name again renews its record, hence its age.
Register(r, n) == [r EXCEPT !.loaded = Append(Without(@, n), n)]

\* Raises KeyError, changing nothing, when the adapter is not loaded.
Activate(r, n) ==
    IF n \notin Loaded(r) THEN r
    ELSE [r EXCEPT !.active = n, !.previous = IF r.active # n THEN r.active ELSE @]

Deactivate(r) ==
    [r EXCEPT !.active = NoLora, !.previous = IF r.active # NoLora THEN r.active ELSE @]

\* Mutant of Unregister: the rollback target is forgotten.
UnregisterKeepsPrevious(r, n) ==
    [r EXCEPT !.loaded = Without(@, n), !.active = IF @ = n THEN NoLora ELSE @]

\* LoRARegistry.remove
Unregister(r, n) ==
    [loaded   |-> Without(r.loaded, n),
     active   |-> IF r.active = n THEN NoLora ELSE r.active,
     previous |-> IF r.previous = n THEN NoLora ELSE r.previous]

\* Mutant of Rollback: the adapter rolled back from is not remembered.
RollbackOneWay(r) ==
    IF r.previous = NoLora THEN Deactivate(r)
    ELSE [r EXCEPT !.active = r.previous, !.previous = NoLora]

\* ModelEngine.rollback_lora
Rollback(r) == IF r.previous = NoLora THEN Deactivate(r) ELSE Activate(r, r.previous)

\* Mutant of EvictionCandidate: evicts only when the slots are exceeded.
EvictionCandidateLate(r) ==
    LET candidates == {i \in DOMAIN r.loaded : r.loaded[i] \notin {r.active, r.previous}}
    IN  IF Len(r.loaded) <= MaxLoras \/ candidates = {} THEN NoLora
        ELSE r.loaded[Min(candidates)]

\* Mutant of EvictionCandidate: the rollback target is not protected.
EvictionCandidateNotActive(r) ==
    LET candidates == {i \in DOMAIN r.loaded : r.loaded[i] # r.active}
    IN  IF Len(r.loaded) < MaxLoras \/ candidates = {} THEN NoLora
        ELSE r.loaded[Min(candidates)]

\* The oldest adapter that is neither active nor the rollback target, once
\* the slots are full.
EvictionCandidate(r) ==
    LET candidates == {i \in DOMAIN r.loaded : r.loaded[i] \notin {r.active, r.previous}}
    IN  IF Len(r.loaded) < MaxLoras \/ candidates = {} THEN NoLora
        ELSE r.loaded[Min(candidates)]
=============================================================================
