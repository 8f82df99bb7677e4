------------------------- MODULE LoRARegistryProofs -------------------------
(***************************************************************************)
(* What the operations of LoRARegistry preserve, for any set of names and  *)
(* any number of slots.  Both modules that drive a registry rest on these. *)
(***************************************************************************)
EXTENDS LoRARegistry, FiniteSetTheorems, SequenceTheorems, WellFoundedInduction, TLAPS

\* A registry in which every name is known once, and what is active or can be
\* rolled back to is loaded.
Coherent(r) ==
    /\ r \in Registries
    /\ IsInjective(r.loaded)
    /\ {r.active, r.previous} \subseteq Loaded(r) \cup {NoLora}
    /\ r.active = r.previous => r.active = NoLora

InUse(r) == {r.active, r.previous} \ {NoLora}

\* A finite, non-empty set of numbers has a least element, which Min picks.
\* The numbers below a least one are a minimal set of this kind.
LEMMA MinFacts ==
    ASSUME NEW S \in SUBSET Int, IsFiniteSet(S), S # {}
    PROVE  Min(S) \in S
<1>. DEFINE Below(x) == {y \in S : y < x}
            T == {Below(x) : x \in S}
<1>1. T \subseteq FiniteSubsetsOf(S) /\ T # {}
  <2>1. \A x \in S : Below(x) \in SUBSET S
    OBVIOUS
  <2>2. \A B \in SUBSET S : IsFiniteSet(B)
    BY FS_Subset
  <2>. QED  BY <2>1, <2>2 DEF FiniteSubsetsOf
<1>2. PICK B \in T : \A C \in T : ~(<<C, B>> \in StrictSubsetOrdering(S))
  BY <1>1, FS_StrictSubsetOrderingWellFounded, WFMin
<1>3. PICK x \in S : B = Below(x)
  OBVIOUS
<1>4. ASSUME NEW y \in S, y < x
      PROVE  FALSE
  <2>0. x \in Int /\ y \in Int /\ \A z \in S : z \in Int
    OBVIOUS
  <2>3. \A z \in S : z < y => z < x
    BY <1>4, <2>0
  <2>4. ~(y < y)
    BY <2>0
  <2>1. Below(y) \subseteq Below(x) /\ y \in Below(x) /\ y \notin Below(y)
    BY <1>4, <2>3, <2>4, Zenon
  <2>2. <<Below(y), B>> \in StrictSubsetOrdering(S)
    BY <2>1, <1>3 DEF StrictSubsetOrdering
  <2>. QED  BY <2>2, <1>2
<1>5. \A y \in S : x <= y
  BY <1>4
<1>. QED  BY <1>5 DEF Min

\* Taking one adapter out of the list.
LEMMA RemoveFacts ==
    ASSUME NEW q \in Seq(Names), IsInjective(q), NEW i \in 1 .. Len(q)
    PROVE  /\ RemoveAt(q, i) \in Seq(Names)
           /\ IsInjective(RemoveAt(q, i))
           /\ ToSet(RemoveAt(q, i)) = ToSet(q) \ {q[i]}
           /\ Len(RemoveAt(q, i)) = Len(q) - 1
<1>. DEFINE n == Len(q)
            a == SubSeq(q, 1, i - 1)
            b == SubSeq(q, i + 1, n)
            r == RemoveAt(q, i)
<1>1. n \in Nat /\ DOMAIN q = 1 .. n /\ i \in 1 .. n /\ \A j \in 1 .. n : q[j] \in Names
  BY LenProperties, ElementOfSeq
<1>. HIDE DEF n
<1>2. /\ a \in Seq(Names) /\ Len(a) = i - 1
      /\ \A j \in 1 .. i - 1 : a[j] = q[j]
  BY <1>1, SubSeqProperties
<1>3. /\ b \in Seq(Names) /\ Len(b) = n - i
      /\ \A j \in 1 .. n - i : b[j] = q[j + i]
  <2>1. \A j \in i + 1 .. n : q[j] \in Names
    BY <1>1
  <2>2. /\ b \in Seq(Names)
        /\ Len(b) = IF i + 1 <= n THEN n - (i + 1) + 1 ELSE 0
        /\ \A j \in 1 .. n - (i + 1) + 1 : b[j] = q[(i + 1) + j - 1]
    BY <2>1, <1>1, SubSeqProperties
  <2>3. n - (i + 1) + 1 = n - i /\ \A j \in 1 .. n - i : (i + 1) + j - 1 = j + i
    BY <1>1
  <2>. HIDE DEF b
  <2>. QED  BY <2>2, <2>3, <1>1
<1>4. /\ r \in Seq(Names) /\ Len(r) = n - 1 /\ DOMAIN r = 1 .. n - 1
      /\ \A j \in 1 .. n - 1 : r[j] = IF j < i THEN q[j] ELSE q[j + 1]
  <2>1. r = a \o b
    BY DEF RemoveAt, n
  <2>. HIDE DEF r, a, b
  <2>2. /\ r \in Seq(Names) /\ Len(r) = Len(a) + Len(b)
        /\ \A j \in 1 .. Len(a) + Len(b) : r[j] = IF j <= Len(a) THEN a[j] ELSE b[j - Len(a)]
    BY <2>1, <1>2, <1>3, ConcatProperties
  <2>3. Len(r) = n - 1 /\ DOMAIN r = 1 .. n - 1
    BY <2>2, <1>1, <1>2, <1>3, LenProperties
  <2>4. ASSUME NEW j \in 1 .. n - 1
        PROVE  r[j] = IF j < i THEN q[j] ELSE q[j + 1]
    <3>1. CASE j < i
      <4>1. j \in 1 .. i - 1 /\ j <= Len(a) /\ j \in 1 .. Len(a) + Len(b)
        BY <3>1, <1>1, <1>2, <1>3
      <4>. QED  BY <4>1, <3>1, <2>2, <1>2
    <3>2. CASE ~(j < i)
      <4>1. j - Len(a) \in 1 .. n - i /\ (j - Len(a)) + i = j + 1 /\ ~(j <= Len(a))
        BY <3>2, <1>1, <1>2
      <4>. QED  BY <4>1, <3>2, <2>2, <1>1, <1>2, <1>3
    <3>. QED  BY <3>1, <3>2
  <2>. QED  BY <2>2, <2>3, <2>4
<1>. HIDE DEF r, a, b
<1>5. /\ \A j \in 1 .. n - 1 : j < i => r[j] = q[j] /\ j \in 1 .. n /\ j # i
      /\ \A j \in 1 .. n - 1 : ~(j < i) => r[j] = q[j + 1] /\ j + 1 \in 1 .. n /\ j + 1 # i
  BY <1>1, <1>4
<1>12. \A j, k \in 1 .. n : q[j] = q[k] => j = k
  BY <1>1 DEF IsInjective
<1>9. \A j, k \in 1 .. n - 1 : r[j] = r[k] => j = k
  <2>1. SUFFICES ASSUME NEW j \in 1 .. n - 1, NEW k \in 1 .. n - 1, r[j] = r[k]
                 PROVE  j = k
    OBVIOUS
  <2>2. CASE j < i /\ k < i
    BY <2>1, <2>2, <1>5, <1>12
  <2>3. CASE j < i /\ ~(k < i)
    <3>1. j = k + 1
      BY <2>1, <2>3, <1>5, <1>12
    <3>. QED  BY <3>1, <2>3, <1>1
  <2>4. CASE ~(j < i) /\ k < i
    <3>1. j + 1 = k
      BY <2>1, <2>4, <1>5, <1>12
    <3>. QED  BY <3>1, <2>4, <1>1
  <2>5. CASE ~(j < i) /\ ~(k < i)
    <3>1. j + 1 = k + 1
      BY <2>1, <2>5, <1>5, <1>12
    <3>. QED  BY <3>1, <1>1
  <2>. QED  BY <2>2, <2>3, <2>4, <2>5
<1>10. IsInjective(r)
  BY <1>9, <1>4 DEF IsInjective
<1>6. ASSUME NEW k \in 1 .. n, k # i
      PROVE  \E j \in 1 .. n - 1 : r[j] = q[k]
  <2>1. CASE k < i
    <3>1. k \in 1 .. n - 1
      BY <2>1, <1>1
    <3>. QED  BY <3>1, <2>1, <1>4
  <2>2. CASE k > i
    <3>1. k - 1 \in 1 .. n - 1 /\ ~(k - 1 < i) /\ (k - 1) + 1 = k
      BY <2>2, <1>1
    <3>. QED  BY <3>1, <1>4
  <2>. QED  BY <2>1, <2>2, <1>6, <1>1
<1>7. \A j \in 1 .. n - 1 : \E k \in 1 .. n : k # i /\ r[j] = q[k]
  BY <1>5
<1>8. ToSet(r) \subseteq ToSet(q) \ {q[i]}
  <2>1. ASSUME NEW x \in ToSet(r)
        PROVE  x \in ToSet(q) /\ x # q[i]
    <3>1. PICK j \in 1 .. n - 1 : x = r[j]
      BY <1>4 DEF ToSet
    <3>2. PICK k \in 1 .. n : k # i /\ r[j] = q[k]
      BY <1>7
    <3>. QED  BY <3>1, <3>2, <1>1, <1>12 DEF ToSet
  <2>. QED  BY <2>1
<1>11. ToSet(q) \ {q[i]} \subseteq ToSet(r)
  <2>1. ASSUME NEW x \in ToSet(q), x # q[i]
        PROVE  \E j \in 1 .. n - 1 : r[j] = x
    BY <2>1, <1>1, <1>6 DEF ToSet
  <2>. QED  BY <2>1, <1>4 DEF ToSet
<1>. QED  BY <1>4, <1>8, <1>10, <1>11 DEF r, n


\* Taking a name out of the list of loaded adapters, if it is there.
LEMMA WithoutFacts ==
    ASSUME NEW q \in Seq(Names), IsInjective(q), NEW n
    PROVE  /\ Without(q, n) \in Seq(Names)
           /\ IsInjective(Without(q, n))
           /\ ToSet(Without(q, n)) = ToSet(q) \ {n}
           /\ Len(Without(q, n)) = IF n \in ToSet(q) THEN Len(q) - 1 ELSE Len(q)
<1>1. CASE n \in ToSet(q)
  <2>. DEFINE i == CHOOSE j \in DOMAIN q : q[j] = n
  <2>1. i \in DOMAIN q /\ q[i] = n
    BY <1>1 DEF ToSet
  <2>2. i \in 1 .. Len(q)
    BY <2>1, LenProperties
  <2>3. Without(q, n) = RemoveAt(q, i)
    BY <1>1 DEF Without
  <2>. HIDE DEF i
  <2>. QED  BY <1>1, <2>1, <2>2, <2>3, RemoveFacts
<1>2. CASE n \notin ToSet(q)
  BY <1>2 DEF Without
<1>. QED  BY <1>1, <1>2

\* A new name goes to the end of the list, as the most recently loaded.
LEMMA AppendFacts ==
    ASSUME NEW q \in Seq(Names), IsInjective(q), NEW n \in Names, n \notin ToSet(q)
    PROVE  /\ Append(q, n) \in Seq(Names)
           /\ IsInjective(Append(q, n))
           /\ ToSet(Append(q, n)) = ToSet(q) \cup {n}
           /\ Len(Append(q, n)) = Len(q) + 1
<1>. DEFINE r == Append(q, n)
            k == Len(q)
<1>1. /\ k \in Nat /\ DOMAIN q = 1 .. k
      /\ r \in Seq(Names) /\ Len(r) = k + 1 /\ DOMAIN r = 1 .. k + 1
      /\ \A i \in 1 .. k : r[i] = q[i]
      /\ r[k + 1] = n
  BY AppendProperties, LenProperties
<1>. HIDE DEF r, k
<1>2. \A i \in 1 .. k + 1 : i \in 1 .. k \/ i = k + 1
  BY <1>1
<1>3. \A i \in 1 .. k : q[i] \in ToSet(q) /\ q[i] # n /\ i \in 1 .. k + 1
  BY <1>1 DEF ToSet
<1>4. IsInjective(r)
  BY <1>1, <1>2, <1>3 DEF IsInjective
<1>5. ToSet(r) = {r[i] : i \in 1 .. k + 1} /\ ToSet(q) = {q[i] : i \in 1 .. k}
  BY <1>1 DEF ToSet
<1>6. k + 1 \in 1 .. k + 1
  BY <1>1
<1>7. ToSet(r) = ToSet(q) \cup {n}
  BY <1>1, <1>2, <1>3, <1>5, <1>6
<1>. QED  BY <1>1, <1>4, <1>7 DEF r, k

-----------------------------------------------------------------------------
(* The operations of the registry.                                         *)

\* The registry of an engine that has loaded nothing.
LEMMA EmptyFacts == Coherent(EmptyRegistry) /\ Loaded(EmptyRegistry) = {} /\ InUse(EmptyRegistry) = {}
                    /\ Len(EmptyRegistry.loaded) = 0
BY DEF EmptyRegistry, Coherent, Registries, Loaded, InUse, ToSet, IsInjective

\* add: the newcomer is in the list once, whether it was there or not.
LEMMA RegisterFacts ==
    ASSUME NEW r, Coherent(r), NEW n \in Names
    PROVE  /\ Coherent(Register(r, n))
           /\ Loaded(Register(r, n)) = Loaded(r) \cup {n}
           /\ Register(r, n).active = r.active /\ Register(r, n).previous = r.previous
           /\ n \notin Loaded(r) => Len(Register(r, n).loaded) = Len(r.loaded) + 1
<1>. DEFINE q == Without(r.loaded, n)
<1>1. /\ q \in Seq(Names) /\ IsInjective(q) /\ ToSet(q) = Loaded(r) \ {n}
      /\ n \notin Loaded(r) => Len(q) = Len(r.loaded)
  BY WithoutFacts DEF Coherent, Registries, Loaded
<1>2. Register(r, n) = [r EXCEPT !.loaded = Append(q, n)]
  BY DEF Register
<1>. HIDE DEF q
<1>3. /\ Append(q, n) \in Seq(Names) /\ IsInjective(Append(q, n))
      /\ ToSet(Append(q, n)) = Loaded(r) \cup {n}
      /\ Len(Append(q, n)) = Len(q) + 1
  BY <1>1, AppendFacts
<1>4. /\ Register(r, n) \in Registries
      /\ Register(r, n).loaded = Append(q, n)
      /\ Register(r, n).active = r.active /\ Register(r, n).previous = r.previous
  BY <1>2, <1>3 DEF Coherent, Registries
<1>. QED  BY <1>1, <1>3, <1>4 DEF Coherent, Loaded

\* activate: the adapter that was active becomes the one to roll back to.
LEMMA ActivateFacts ==
    ASSUME NEW r, Coherent(r), NEW n \in Names
    PROVE  /\ Coherent(Activate(r, n))
           /\ Activate(r, n).loaded = r.loaded
           /\ n \in Loaded(r) /\ n # r.active =>
                 Activate(r, n).active = n /\ Activate(r, n).previous = r.active
<1>1. CASE n \notin Loaded(r)
  BY <1>1 DEF Activate
<1>2. CASE n \in Loaded(r)
  <2>. DEFINE p == IF r.active # n THEN r.active ELSE r.previous
  <2>1. Activate(r, n) = [r EXCEPT !.active = n, !.previous = p]
    BY <1>2 DEF Activate, Coherent, Registries
  <2>2. p \in Loaded(r) \cup {NoLora} /\ p \in Names \cup {NoLora} /\ p # n
    BY NamesAssumption DEF Coherent, Registries
  <2>3. r.active # n => p = r.active
    OBVIOUS
  <2>. HIDE DEF p
  <2>4. /\ Activate(r, n) \in Registries
        /\ Activate(r, n).loaded = r.loaded
        /\ Activate(r, n).active = n /\ Activate(r, n).previous = p
    BY <2>1, <2>2 DEF Coherent, Registries
  <2>. QED  BY <1>2, <2>2, <2>3, <2>4 DEF Coherent, Loaded
<1>. QED  BY <1>1, <1>2

\* rollback_lora exchanges what is active and what can be rolled back to, and
\* brings nothing else into use.
LEMMA RollbackFacts ==
    ASSUME NEW r, Coherent(r)
    PROVE  /\ Coherent(Rollback(r))
           /\ Rollback(r).loaded = r.loaded
           /\ InUse(Rollback(r)) = InUse(r)
           /\ Rollback(r).active = r.previous /\ Rollback(r).previous = r.active
           /\ Rollback(r).active = r.active => Rollback(r) = r
<1>. USE NamesAssumption
<1>1. CASE r.previous = NoLora
  <2>. DEFINE p == IF r.active # NoLora THEN r.active ELSE r.previous
  <2>1. Rollback(r) = [r EXCEPT !.active = NoLora, !.previous = p]
    BY <1>1 DEF Rollback, Deactivate, Coherent, Registries
  <2>2. p = r.active /\ p \in Names \cup {NoLora}
    BY <1>1 DEF Coherent, Registries
  <2>. HIDE DEF p
  <2>3. /\ Rollback(r) \in Registries /\ Rollback(r).loaded = r.loaded
        /\ Rollback(r).active = NoLora /\ Rollback(r).previous = r.active
    BY <2>1, <2>2 DEF Coherent, Registries
  <2>4. r.active = NoLora => Rollback(r) = r
    BY <2>1, <2>2, <1>1 DEF Coherent, Registries
  <2>. QED  BY <1>1, <2>3, <2>4 DEF Coherent, Loaded, InUse
<1>2. CASE r.previous # NoLora
  <2>1. Rollback(r) = Activate(r, r.previous)
    BY <1>2 DEF Rollback
  <2>2. r.previous \in Names /\ r.previous \in Loaded(r) /\ r.previous # r.active
    BY <1>2 DEF Coherent, Registries
  <2>3. /\ Coherent(Rollback(r)) /\ Rollback(r).loaded = r.loaded
        /\ Rollback(r).active = r.previous /\ Rollback(r).previous = r.active
    BY <2>1, <2>2, ActivateFacts
  <2>. QED  BY <2>2, <2>3 DEF InUse
<1>. QED  BY <1>1, <1>2

\* remove: what was in use and is not the one removed stays in use.
LEMMA UnregisterFacts ==
    ASSUME NEW r, Coherent(r), NEW n
    PROVE  /\ Coherent(Unregister(r, n))
           /\ Loaded(Unregister(r, n)) = Loaded(r) \ {n}
           /\ n \in Names \ InUse(r) => /\ Unregister(r, n).active = r.active
                                        /\ Unregister(r, n).previous = r.previous
           /\ Len(Unregister(r, n).loaded) =
                 IF n \in Loaded(r) THEN Len(r.loaded) - 1 ELSE Len(r.loaded)
<1>. DEFINE q == Without(r.loaded, n)
            a == IF r.active = n THEN NoLora ELSE r.active
            p == IF r.previous = n THEN NoLora ELSE r.previous
<1>1. /\ q \in Seq(Names) /\ IsInjective(q) /\ ToSet(q) = Loaded(r) \ {n}
      /\ Len(q) = IF n \in Loaded(r) THEN Len(r.loaded) - 1 ELSE Len(r.loaded)
  BY WithoutFacts DEF Coherent, Registries, Loaded
<1>2. Unregister(r, n) = [loaded |-> q, active |-> a, previous |-> p]
  BY DEF Unregister
<1>3. /\ a \in Names \cup {NoLora} /\ p \in Names \cup {NoLora}
      /\ {a, p} \subseteq (Loaded(r) \ {n}) \cup {NoLora}
      /\ a = p => a = NoLora
      /\ n \in Names \ InUse(r) => a = r.active /\ p = r.previous
  BY NamesAssumption DEF Coherent, Registries, InUse
<1>. HIDE DEF q, a, p
<1>. QED  BY <1>1, <1>2, <1>3 DEF Coherent, Registries, Loaded

\* The victim is loaded and not in use; where there is none, a slot is free or
\* everything that is loaded is in use.
LEMMA EvictionFacts ==
    ASSUME NEW r, Coherent(r), NEW v, v = EvictionCandidate(r)
    PROVE  /\ v \in Names \cup {NoLora}
           /\ v # NoLora => v \in Loaded(r) \ InUse(r)
           /\ v = NoLora => Len(r.loaded) < MaxLoras \/ Len(r.loaded) <= 2
<1>. DEFINE S == {i \in DOMAIN r.loaded : r.loaded[i] \notin {r.active, r.previous}}
<1>1. /\ r.loaded \in Seq(Names) /\ Len(r.loaded) \in Nat
      /\ DOMAIN r.loaded = 1 .. Len(r.loaded)
      /\ \A i \in 1 .. Len(r.loaded) : r.loaded[i] \in Names
      /\ IsInjective(r.loaded)
  BY LenProperties, ElementOfSeq DEF Coherent, Registries
<1>2. CASE Len(r.loaded) < MaxLoras
  BY <1>2 DEF EvictionCandidate
<1>3. CASE S = {}
  <2>1. v = NoLora
    BY <1>3 DEF EvictionCandidate
  <2>2. \A i \in 1 .. Len(r.loaded) : r.loaded[i] \in {r.active, r.previous}
    BY <1>1, <1>3
  <2>3. \A i, j \in 1 .. Len(r.loaded) : r.loaded[i] = r.loaded[j] => i = j
    BY <1>1 DEF IsInjective
  <2>4. Len(r.loaded) <= 2
    <3>1. SUFFICES ASSUME Len(r.loaded) >= 3 PROVE FALSE
      BY <1>1
    <3>2. 1 \in 1 .. Len(r.loaded) /\ 2 \in 1 .. Len(r.loaded) /\ 3 \in 1 .. Len(r.loaded)
      BY <1>1, <3>1
    <3>. QED  BY <3>2, <2>2, <2>3
  <2>. QED  BY <2>1, <2>4
<1>4. CASE S # {} /\ ~(Len(r.loaded) < MaxLoras)
  <2>1. v = r.loaded[Min(S)]
    BY <1>4 DEF EvictionCandidate
  <2>2. S \in SUBSET Int /\ S \subseteq 1 .. Len(r.loaded)
    BY <1>1
  <2>3. IsFiniteSet(S)
    <3>1. IsFiniteSet(1 .. Len(r.loaded))
      BY <1>1, FS_Interval
    <3>. HIDE DEF S
    <3>. QED  BY <2>2, <3>1, FS_Subset
  <2>4. Min(S) \in S
    BY <1>4, <2>2, <2>3, MinFacts
  <2>5. v \in Names /\ v \notin {r.active, r.previous} /\ v \in ToSet(r.loaded)
    BY <1>1, <2>1, <2>4 DEF ToSet
  <2>. QED  BY <2>5, NamesAssumption DEF Loaded, InUse
<1>. QED  BY <1>2, <1>3, <1>4

=============================================================================
