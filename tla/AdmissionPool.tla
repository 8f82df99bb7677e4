---------------------------- MODULE AdmissionPool ----------------------------
(***************************************************************************)
(* What ModelEngine._post promises its callers about admission, whatever   *)
(* semaphore, breaker and retry loop do underneath: at most Size callers   *)
(* are inside at once, the others wait in the order in which they came,    *)
(* nobody overtakes a waiting caller, nobody waits for an empty pool, and  *)
(* one caller leaving admits at most the two at the head of the queue.     *)
(***************************************************************************)
EXTENDS Integers, Sequences, FiniteSets

CONSTANTS Callers, Size

VARIABLES inside, waiting

poolVars == <<inside, waiting>>

PoolInit == inside = {} /\ waiting = <<>>

\* A caller walks in only past an empty queue.
Join(t) ==
    /\ t \notin inside
    /\ waiting = <<>>
    /\ Cardinality(inside) < Size
    /\ inside' = inside \cup {t}
    /\ UNCHANGED waiting

Wait(t) ==
    /\ t \notin inside
    /\ \A i \in DOMAIN waiting : waiting[i] # t
    /\ inside # {} \/ waiting # <<>>
    /\ waiting' = Append(waiting, t)
    /\ UNCHANGED inside

\* At most one caller leaves, and the first k in the queue take their turn.
Advance(leaving, k) ==
    /\ Cardinality(leaving) <= 1
    /\ k <= Len(waiting)
    /\ inside' = (inside \ leaving) \cup {waiting[i] : i \in 1 .. k}
    /\ waiting' = SubSeq(waiting, k + 1, Len(waiting))
    /\ Cardinality(inside') <= Size

\* A cancelled caller leaves the queue; the others keep their order.
GiveUp(i) ==
    /\ waiting' = SubSeq(waiting, 1, i - 1) \o SubSeq(waiting, i + 1, Len(waiting))
    /\ UNCHANGED inside

PoolNext ==
    \/ \E t \in Callers : Join(t) \/ Wait(t)
    \/ \E leaving \in SUBSET inside, k \in 0 .. 2 : Advance(leaving, k)
    \/ \E i \in DOMAIN waiting : GiveUp(i)

PoolSpec == PoolInit /\ [][PoolNext]_poolVars
=============================================================================
