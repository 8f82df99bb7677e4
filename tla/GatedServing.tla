---------------------------- MODULE GatedServing ----------------------------
(***************************************************************************)
(* What the deployment path promises to whoever is served, whatever gate,  *)
(* registry, evictions and lost answers do underneath: an adapter goes     *)
(* live only by clearing its evaluation while the server holds it, what it *)
(* replaces stays one swap away, a rollback is its own inverse ("rolling   *)
(* forward again is equally cheap"), and nothing in use is dropped or      *)
(* judged again.                                                           *)
(***************************************************************************)
CONSTANTS Adapters, Base

VARIABLES
    serving, fallback,   \* the active adapter and the one to roll back to, or Base
    held,                \* the adapters on the server
    cleared              \* the adapters that passed their last evaluation

servingVars == <<serving, fallback, held, cleared>>

ServingInit == serving = Base /\ fallback = Base /\ held = {} /\ cleared = {}

Spare == Adapters \ {serving, fallback}

Fetch(n) == held' = held \cup {n} /\ UNCHANGED <<serving, fallback, cleared>>

Drop(n) == held' = held \ {n} /\ UNCHANGED <<serving, fallback, cleared>>

\* A new evaluation begins, or ended below the bar.
Disqualify(n) == cleared' = cleared \ {n} /\ UNCHANGED <<serving, fallback, held>>

GoLive(n) ==
    /\ n \in held
    /\ serving' = n
    /\ fallback' = serving
    /\ cleared' = cleared \cup {n}
    /\ UNCHANGED held

Swap ==
    /\ serving' = fallback
    /\ fallback' = serving
    /\ UNCHANGED <<held, cleared>>

ServingNext ==
    \/ \E n \in Spare : Fetch(n) \/ Drop(n) \/ Disqualify(n) \/ GoLive(n)
    \/ Swap

ServingSpec == ServingInit /\ [][ServingNext]_servingVars
=============================================================================
