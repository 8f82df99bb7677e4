------------------------- MODULE TrainingDataProofs -------------------------
(***************************************************************************)
(* Proofs about TrainingData: what the scan of format_training_pairs       *)
(* computes, for every table of rows, and from it that every invariant of  *)
(* the module holds.                                                       *)
(***************************************************************************)
EXTENDS TrainingData, FiniteSetTheorems, WellFoundedInduction, TLAPS

-----------------------------------------------------------------------------
(* What format_training_pairs computes                                     *)

\* Row i is a message that still waits for a reply after rows m + 1 .. k of its
\* session s were scanned.
Waits(r, s, m, i, k) ==
    /\ i \in m + 1 .. k
    /\ r[i].session = s /\ r[i].role = "user"
    /\ \A j \in i + 1 .. k : r[j].session = s => r[j].role = "tool"

ContextOf(r, s, i, k) == {j \in i + 1 .. k : r[j].session = s /\ r[j].role = "tool"}

\* Row k is the reply that goes with the message in row i.
Answers(r, s, m, i, k) ==
    /\ Waits(r, s, m, i, k - 1)
    /\ r[k].session = s /\ r[k].role = "assistant"

PairAt(r, s, i, k) ==
    [prompt |-> i, context |-> ContextOf(r, s, i, k - 1),
     completion |-> k, feedback |-> r[k].feedback]

\* acc is the state of the scan of session s after rows m + 1 .. k.
ScanInv(s, m, k, acc) ==
    /\ acc \in [prompt : {0} \cup (m + 1 .. k), context : SUBSET Nat, pairs : SUBSET Pair]
    /\ \A i \in m + 1 .. k : acc.prompt = i <=> Waits(rows, s, m, i, k)
    /\ acc.prompt # 0 => acc.context = ContextOf(rows, s, acc.prompt, k)
    /\ \A i, j \in m + 1 .. k : Answers(rows, s, m, i, j) => PairAt(rows, s, i, j) \in acc.pairs
    /\ \A p \in acc.pairs : \E i, j \in m + 1 .. k :
           Answers(rows, s, m, i, j) /\ p = PairAt(rows, s, i, j)

\* Induction on the rows: a set of indices that holds m and the successor of
\* each of its members up to n holds them all.
LEMMA RangeInduction ==
    ASSUME NEW m \in Nat, NEW n \in Nat, NEW T, m \in T,
           \A k \in m .. n - 1 : k \in T => k + 1 \in T
    PROVE  \A k \in m .. n : k \in T
<1>. SUFFICES ASSUME NEW k \in m .. n, k \notin T
              PROVE  FALSE
  OBVIOUS
<1>. DEFINE S == {j \in m .. n : j \notin T}
<1>1. S \in SUBSET Nat /\ S # {}
  OBVIOUS
<1>. HIDE DEF S
<1>2. PICK j \in S : \A i \in S : ~(<<i, j>> \in OpToRel(<, Nat))
  BY <1>1, NatLessThanWellFounded, WFMin
<1>. USE DEF S
<1>3. j - 1 \in m .. n - 1 /\ (j - 1) + 1 = j
  OBVIOUS
<1>4. j - 1 \in T
  <2>1. j \in Nat /\ j - 1 \in Nat /\ j - 1 < j
    BY <1>3
  <2>2. <<j - 1, j>> \in OpToRel(<, Nat)
    BY <2>1 DEF OpToRel
  <2>3. j - 1 \notin S
    <3>. HIDE DEF S
    <3>. QED  BY <1>2, <2>2, Zenon
  <2>. QED  BY <1>3, <2>3
<1>. QED  BY <1>2, <1>3, <1>4

ScanStep(s, m, acc, k) ==
    IF k = m THEN Nothing ELSE IF rows[k].session = s THEN Scan(acc[k - 1], k) ELSE acc[k - 1]

\* The recursive function of Scanned is well defined: a scan of the rows exists.
LEMMA ScanExists ==
    ASSUME NEW s, NEW m \in Nat, NEW n \in Nat, m <= n
    PROVE  \E g : g = [k \in m .. n |-> ScanStep(s, m, g, k)]
<1>. DEFINE IsScan(g, l) == g = [k \in m .. l |-> ScanStep(s, m, g, k)]
            T == {l \in m .. n : \E g : IsScan(g, l)}
<1>1. m \in T
  <2>1. IsScan([k \in m .. m |-> Nothing], m)
    BY DEF ScanStep
  <2>. QED  BY <2>1
<1>2. ASSUME NEW l \in m .. n - 1, l \in T
      PROVE  l + 1 \in T
  <2>1. PICK g : IsScan(g, l)
    BY <1>2
  <2>. DEFINE h == [k \in m .. l + 1 |-> IF k = l + 1 THEN ScanStep(s, m, g, l + 1) ELSE g[k]]
  <2>2. \A k \in m .. l + 1 : h[k] = ScanStep(s, m, h, k)
    <3>1. ASSUME NEW k \in m .. l
          PROVE  h[k] = ScanStep(s, m, h, k)
      <4>1. h[k] = g[k] /\ g[k] = ScanStep(s, m, g, k)
        BY <2>1
      <4>2. k # m => h[k - 1] = g[k - 1]
        OBVIOUS
      <4>. QED  BY <4>1, <4>2 DEF ScanStep
    <3>2. h[l + 1] = ScanStep(s, m, h, l + 1)
      <4>1. h[l] = g[l] /\ (l + 1) - 1 = l
        OBVIOUS
      <4>. QED  BY <4>1 DEF ScanStep
    <3>. QED  BY <3>1, <3>2
  <2>3. IsScan(h, l + 1)
    <3>. HIDE DEF h
    <3>1. h = [k \in m .. l + 1 |-> h[k]]
      BY DEF h
    <3>. QED  BY <3>1, <2>2
  <2>4. l + 1 \in m .. n
    OBVIOUS
  <2>. HIDE DEF IsScan
  <2>. QED  BY <2>3, <2>4
<1>3. n \in T
  <2>. HIDE DEF T
  <2>1. \A k \in m .. n : k \in T
    BY <1>1, <1>2, RangeInduction
  <2>. QED  BY <2>1
<1>. QED  BY <1>3

\* Scanned is the last state of a scan.
LEMMA ScannedIsScan ==
    ASSUME NEW s, NEW m \in Nat, NEW n \in Nat, m <= n
    PROVE  \E g : /\ g = [k \in m .. n |-> ScanStep(s, m, g, k)]
                  /\ Scanned(s, m, n) = g[n]
<1>. DEFINE f == CHOOSE g : g = [k \in m .. n |-> ScanStep(s, m, g, k)]
<1>1. f = [k \in m .. n |-> ScanStep(s, m, f, k)]
  BY ScanExists, Zenon
<1>2. Scanned(s, m, n) = f[n]
  BY Zenon DEF Scanned, ScanStep
<1>. QED  BY <1>1, <1>2

\* One more row of the table keeps the scan's invariant.
LEMMA ScanKeepsInv ==
    ASSUME rows \in Seq(Row), NEW s, NEW m \in Nat, NEW k \in m + 1 .. Len(rows),
           NEW acc, ScanInv(s, m, k - 1, acc)
    PROVE  ScanInv(s, m, k, IF rows[k].session = s THEN Scan(acc, k) ELSE acc)
<1>1. /\ k \in Nat /\ k - 1 \in Nat /\ k - 1 \in m .. k
      /\ rows[k].role \in {"user", "tool", "assistant"}
      /\ rows[k].feedback \in Feedback
      /\ m + 1 .. k = (m + 1 .. k - 1) \cup {k} /\ k \notin m + 1 .. k - 1
  <2>1. k \in 1 .. Len(rows) /\ Len(rows) \in Nat
    OBVIOUS
  <2>2. rows[k] \in Row
    BY <2>1
  <2>3. rows[k].role \in {"user", "tool", "assistant"} /\ rows[k].feedback \in Feedback
    BY <2>2 DEF Row
  <2>4. k \in Nat /\ k - 1 \in Nat /\ k - 1 \in m .. k
    BY <2>1
  <2>5. m + 1 .. k = (m + 1 .. k - 1) \cup {k} /\ k \notin m + 1 .. k - 1
    BY <2>4
  <2>. QED  BY <2>3, <2>4, <2>5
<1>2. /\ acc \in [prompt : {0} \cup (m + 1 .. k - 1), context : SUBSET Nat, pairs : SUBSET Pair]
      /\ \A i \in m + 1 .. k - 1 : acc.prompt = i <=> Waits(rows, s, m, i, k - 1)
      /\ acc.prompt # 0 => acc.context = ContextOf(rows, s, acc.prompt, k - 1)
      /\ \A i, j \in m + 1 .. k - 1 :
            Answers(rows, s, m, i, j) => PairAt(rows, s, i, j) \in acc.pairs
      /\ \A p \in acc.pairs : \E i, j \in m + 1 .. k - 1 :
            Answers(rows, s, m, i, j) /\ p = PairAt(rows, s, i, j)
  BY DEF ScanInv
\* What row k does to the messages that wait.
<1>3. \A i \in m + 1 .. k - 1 :
         Waits(rows, s, m, i, k) <=>
            /\ Waits(rows, s, m, i, k - 1)
            /\ rows[k].session = s => rows[k].role = "tool"
  <2>1. ASSUME NEW i \in m + 1 .. k - 1
        PROVE  i + 1 .. k = (i + 1 .. k - 1) \cup {k}
    BY <1>1
  <2>2. ASSUME NEW i \in m + 1 .. k - 1
        PROVE  Waits(rows, s, m, i, k) <=>
                  Waits(rows, s, m, i, k - 1) /\ (rows[k].session = s => rows[k].role = "tool")
    <3>1. i \in m + 1 .. k
      BY <1>1
    <3>2. (\A j \in i + 1 .. k : rows[j].session = s => rows[j].role = "tool") <=>
             /\ \A j \in i + 1 .. k - 1 : rows[j].session = s => rows[j].role = "tool"
             /\ rows[k].session = s => rows[k].role = "tool"
      BY <2>1
    <3>. QED  BY <3>1, <3>2 DEF Waits
  <2>. QED  BY <2>2
<1>4. Waits(rows, s, m, k, k) <=> rows[k].session = s /\ rows[k].role = "user"
  <2>1. k + 1 .. k = {}
    BY <1>1
  <2>. QED  BY <1>1, <2>1 DEF Waits
<1>5. \A i \in m + 1 .. k - 1 :
         ContextOf(rows, s, i, k) =
            IF rows[k].session = s /\ rows[k].role = "tool"
              THEN ContextOf(rows, s, i, k - 1) \cup {k} ELSE ContextOf(rows, s, i, k - 1)
  <2>1. ASSUME NEW i \in m + 1 .. k - 1
        PROVE  i + 1 .. k = (i + 1 .. k - 1) \cup {k}
    BY <1>1
  <2>. QED  BY <1>1, <2>1 DEF ContextOf
<1>6. \A i \in m + 1 .. k : Answers(rows, s, m, i, k) =>
         i = acc.prompt /\ i \in m + 1 .. k - 1 /\ rows[k].session = s /\ rows[k].role = "assistant"
  BY <1>1, <1>2 DEF Answers, Waits
<1>7. \A i, j \in m + 1 .. k : Answers(rows, s, m, i, j) => i < j
  BY DEF Answers, Waits
<1>8. k \in Nat /\ m \notin m + 1 .. k /\ 0 \notin m + 1 .. k
  OBVIOUS
<1>10. CASE rows[k].session # s
  <2>1. ScanInv(s, m, k, acc)
    BY <1>1, <1>2, <1>3, <1>4, <1>5, <1>6, <1>7, <1>8, <1>10 DEF ScanInv
  <2>. QED  BY <1>10, <2>1
<1>11. CASE rows[k].session = s /\ rows[k].role = "user"
  <2>. DEFINE new == [acc EXCEPT !.prompt = k, !.context = {}]
  <2>1. Scan(acc, k) = new
    BY <1>11 DEF Scan
  <2>2. /\ new \in [prompt : {0} \cup (m + 1 .. k), context : SUBSET Nat, pairs : SUBSET Pair]
        /\ new.prompt = k /\ new.context = {} /\ new.pairs = acc.pairs
    BY <1>1, <1>2
  <2>3. ContextOf(rows, s, k, k) = {}
    BY <1>1 DEF ContextOf
  <2>. HIDE DEF new
  <2>4. ScanInv(s, m, k, new)
    BY <1>1, <1>2, <1>3, <1>4, <1>6, <1>7, <1>8, <1>11, <2>2, <2>3 DEF ScanInv
  <2>. QED  BY <1>11, <2>1, <2>4
<1>12. CASE rows[k].session = s /\ rows[k].role = "tool" /\ acc.prompt # 0
  <2>. DEFINE new == [acc EXCEPT !.context = @ \cup {k}]
  <2>1. Scan(acc, k) = new
    BY <1>12 DEF Scan
  <2>2. /\ new \in [prompt : {0} \cup (m + 1 .. k), context : SUBSET Nat, pairs : SUBSET Pair]
        /\ new.prompt = acc.prompt /\ new.context = acc.context \cup {k}
        /\ new.pairs = acc.pairs
    BY <1>1, <1>2
  <2>. HIDE DEF new
  <2>3. ScanInv(s, m, k, new)
    BY <1>1, <1>2, <1>3, <1>4, <1>5, <1>6, <1>7, <1>8, <1>12, <2>2 DEF ScanInv
  <2>. QED  BY <1>12, <2>1, <2>3
<1>13. CASE rows[k].session = s /\ rows[k].role = "assistant" /\ acc.prompt # 0
  <2>. DEFINE new == [Nothing EXCEPT !.pairs = acc.pairs \cup {PairOf(acc, k)}]
  <2>1. Scan(acc, k) = new
    BY <1>13 DEF Scan
  <2>2. acc.prompt \in m + 1 .. k - 1 /\ Answers(rows, s, m, acc.prompt, k)
    BY <1>2, <1>13 DEF Answers
  <2>3. PairOf(acc, k) = PairAt(rows, s, acc.prompt, k)
    BY <1>2, <1>13 DEF PairOf, PairAt
  <2>4. PairOf(acc, k) \in Pair
    BY <1>1, <1>2 DEF PairOf, Pair
  <2>5. /\ new \in [prompt : {0} \cup (m + 1 .. k), context : SUBSET Nat, pairs : SUBSET Pair]
        /\ new.prompt = 0 /\ new.pairs = acc.pairs \cup {PairOf(acc, k)}
    BY <1>1, <1>2, <2>4 DEF Nothing
  <2>. HIDE DEF new
  <2>6. /\ new \in [prompt : {0} \cup (m + 1 .. k), context : SUBSET Nat, pairs : SUBSET Pair]
        /\ \A i \in m + 1 .. k : new.prompt = i <=> Waits(rows, s, m, i, k)
        /\ new.prompt = 0
    BY <1>1, <1>2, <1>3, <1>4, <1>8, <1>13, <2>5
  <2>7. \A i, j \in m + 1 .. k : Answers(rows, s, m, i, j) => PairAt(rows, s, i, j) \in new.pairs
    BY <1>1, <1>2, <1>6, <1>7, <2>3, <2>5
  <2>8. \A p \in new.pairs : \E i, j \in m + 1 .. k :
           Answers(rows, s, m, i, j) /\ p = PairAt(rows, s, i, j)
    BY <1>1, <1>2, <2>2, <2>3, <2>5
  <2>9. ScanInv(s, m, k, new)
    BY <2>6, <2>7, <2>8 DEF ScanInv
  <2>. QED  BY <1>13, <2>1, <2>9
<1>14. CASE rows[k].session = s /\ rows[k].role # "user" /\ acc.prompt = 0
  <2>1. Scan(acc, k) = acc
    BY <1>1, <1>14 DEF Scan
  <2>2. ScanInv(s, m, k, acc)
    BY <1>1, <1>2, <1>3, <1>4, <1>6, <1>7, <1>8, <1>14 DEF ScanInv
  <2>. QED  BY <1>14, <2>1, <2>2
<1>. QED  BY <1>1, <1>10, <1>11, <1>12, <1>13, <1>14

\* What a scan of all n - m rows leaves.
LEMMA ScannedInv ==
    ASSUME rows \in Seq(Row), NEW s, NEW m \in Nat, NEW n \in m .. Len(rows)
    PROVE  ScanInv(s, m, n, Scanned(s, m, n))
<1>0. n \in Nat /\ m <= n
  OBVIOUS
<1>1. PICK g : /\ g = [k \in m .. n |-> ScanStep(s, m, g, k)]
               /\ Scanned(s, m, n) = g[n]
  BY <1>0, ScannedIsScan
<1>. DEFINE T == {k \in m .. n : ScanInv(s, m, k, g[k])}
<1>2. m \in T
  <2>1. g[m] = Nothing
    BY <1>0, <1>1 DEF ScanStep
  <2>2. Nothing \in [prompt : {0} \cup (m + 1 .. m), context : SUBSET Nat, pairs : SUBSET Pair]
    BY DEF Nothing
  <2>3. Nothing.prompt = 0 /\ Nothing.pairs = {} /\ m + 1 .. m = {}
    BY DEF Nothing
  <2>4. ScanInv(s, m, m, Nothing)
    <3>. HIDE DEF Nothing
    <3>. QED  BY <2>2, <2>3 DEF ScanInv
  <2>. QED  BY <1>0, <2>1, <2>4
<1>3. ASSUME NEW k \in m .. n - 1, k \in T
      PROVE  k + 1 \in T
  <2>1. /\ k + 1 \in m .. n /\ k + 1 \in m + 1 .. Len(rows) /\ (k + 1) - 1 = k /\ k + 1 # m
        /\ ScanInv(s, m, k, g[k])
    BY <1>3
  <2>2. g[k + 1] = IF rows[k + 1].session = s THEN Scan(g[k], k + 1) ELSE g[k]
    BY <1>1, <2>1 DEF ScanStep
  <2>3. ScanInv(s, m, k + 1, g[k + 1])
    BY <2>1, <2>2, ScanKeepsInv
  <2>. QED  BY <2>1, <2>3
<1>4. n \in T
  <2>. HIDE DEF T
  <2>1. \A k \in m .. n : k \in T
    BY <1>0, <1>2, <1>3, RangeInduction
  <2>. QED  BY <1>0, <2>1
<1>. QED  BY <1>1, <1>4

\* p pairs a reply among rows m + 1 .. n with the message that waited for it.
IsPair(r, m, n, p) ==
    \E s \in Sessions, i, j \in m + 1 .. n : Answers(r, s, m, i, j) /\ p = PairAt(r, s, i, j)

\* Whatever the rows are, format_training_pairs returns one pair for each reply
\* that has a message waiting for it in its session: the last message before
\* it, with exactly the tool outputs between the two as context.
THEOREM FormatTrainingPairsIsCorrect ==
    ASSUME rows \in Seq(Row), NEW m \in Nat, NEW n \in m .. Len(rows)
    PROVE  /\ FormatTrainingPairs(m, n) \subseteq Pair
           /\ \A p : p \in FormatTrainingPairs(m, n) <=> IsPair(rows, m, n, p)
<1>1. \A s \in Sessions : ScanInv(s, m, n, Scanned(s, m, n))
  BY ScannedInv
<1>2. \A s \in Sessions : Scanned(s, m, n).pairs \subseteq Pair
  BY <1>1 DEF ScanInv
<1>3. \A s \in Sessions : \A p :
         p \in Scanned(s, m, n).pairs <=>
            \E i, j \in m + 1 .. n : Answers(rows, s, m, i, j) /\ p = PairAt(rows, s, i, j)
  <2>1. ASSUME NEW s \in Sessions
        PROVE  /\ \A i, j \in m + 1 .. n : Answers(rows, s, m, i, j) =>
                     PairAt(rows, s, i, j) \in Scanned(s, m, n).pairs
               /\ \A p \in Scanned(s, m, n).pairs : \E i, j \in m + 1 .. n :
                     Answers(rows, s, m, i, j) /\ p = PairAt(rows, s, i, j)
    BY <1>1 DEF ScanInv
  <2>. QED  BY <2>1
<1>4. \A p : p \in FormatTrainingPairs(m, n) <=> \E s \in Sessions : p \in Scanned(s, m, n).pairs
  BY DEF FormatTrainingPairs
<1>5. FormatTrainingPairs(m, n) \subseteq Pair
  BY <1>2, <1>4
<1>6. ASSUME NEW p
      PROVE  p \in FormatTrainingPairs(m, n) <=> IsPair(rows, m, n, p)
  BY <1>3, <1>4 DEF IsPair
<1>. QED  BY <1>5, <1>6

-----------------------------------------------------------------------------
(* The inductive invariant                                                 *)

Cycles == [pc : {"idle", "curating", "training"}, upto : 0 .. Len(rows),
           pairs : SUBSET Pair, golden : 0 .. Golden]

Deployments(r) == [after : Nat, upto : 0 .. Len(r), pairs : SUBSET Pair]

\* An exchange's rows: one session, the user's row first and no other user row,
\* the assistant's row last, and none of either before the exchange got there.
RowsInv(st, r) ==
    /\ \A j \in 1 .. Len(r) :
         /\ st[r[j].ex] # None
         /\ st[r[j].ex] \in Sessions => r[j].role # "assistant" /\ r[j].session = st[r[j].ex]
         /\ \E i \in 1 .. j : r[i].role = "user" /\ r[i].ex = r[j].ex /\ r[i].session = r[j].session
         /\ \A i \in 1 .. Len(r) : i < j /\ r[i].ex = r[j].ex =>
               r[i].role # "assistant" /\ r[j].role # "user"
    /\ \A e \in Exchanges : st[e] \in Sessions =>
          \E i \in 1 .. Len(r) : r[i].role = "user" /\ r[i].ex = e

\* P are pairs of rows m + 1 .. n, among them all that the user approved; once
\* they are screened, none that the user rejected.
Batch(cur, r, m, n, P, screened) ==
    /\ m <= n
    /\ \A p \in P : IsPair(r, m, n, p)
    /\ \A s \in Sessions, i, j \in m + 1 .. n :
          Answers(r, s, m, i, j) /\ r[j].feedback = "positive" => PairAt(r, s, i, j) \in P
    /\ screened /\ cur => \A p \in P : p.feedback # "negative"

CycleInv(cur, r, mk, cy) ==
    cy.pc # "idle" => Batch(cur, r, mk, cy.upto, cy.pairs, cy.pc = "training")

\* The deployed cycles consumed rows 1 .. mark, each the rows after the others'.
DeployedInv(cur, r, mk, dep) ==
    /\ \A d \in DOMAIN dep :
         /\ dep[d].upto <= mk
         /\ Batch(cur, r, dep[d].after, dep[d].upto, dep[d].pairs, TRUE)
         /\ dep[d].after = 0 \/ \E c \in DOMAIN dep : dep[c].upto = dep[d].after
         /\ \A c \in DOMAIN dep : c < d => dep[c].upto <= dep[d].after
    /\ mk = 0 \/ \E c \in DOMAIN dep : dep[c].upto = mk
    /\ \A k \in 1 .. mk : \E d \in DOMAIN dep : k \in dep[d].after + 1 .. dep[d].upto

IndInv ==
    /\ TypeOK
    /\ RowsInv(stage, rows)
    /\ CycleInv(curator, rows, mark, cycle)
    /\ DeployedInv(curator, rows, mark, deployed)

-----------------------------------------------------------------------------
(* What follows from the inductive invariant                               *)

\* A pair's message comes before its reply, in one session, and all that the
\* session has between the two is tool outputs, which are the pair's context.
Exact(r, p) ==
    /\ p.prompt \in 1 .. Len(r) /\ p.completion \in 1 .. Len(r) /\ p.prompt < p.completion
    /\ r[p.prompt].role = "user" /\ r[p.completion].role = "assistant"
    /\ r[p.prompt].session = r[p.completion].session
    /\ p.context = {j \in p.prompt + 1 .. p.completion - 1 : r[j].session = r[p.prompt].session}
    /\ \A j \in p.context : r[j].role = "tool"
    /\ p.feedback = r[p.completion].feedback

\* Every pair that format_training_pairs returns is of this form, and its rows
\* are among those that were fetched.
LEMMA PairsAreOfThisForm ==
    ASSUME NEW r, Len(r) \in Nat, NEW m \in Nat, NEW n \in 0 .. Len(r),
           NEW p, IsPair(r, m, n, p)
    PROVE  /\ Exact(r, p) /\ p.prompt \in m + 1 .. n /\ p.completion \in m + 1 .. n
           /\ \A j \in Texts(p) : /\ j \in p.prompt .. p.completion
                                  /\ r[j].session = r[p.prompt].session
<1>1. PICK s \in Sessions, i \in m + 1 .. n, k \in m + 1 .. n :
         Answers(r, s, m, i, k) /\ p = PairAt(r, s, i, k)
  BY DEF IsPair
<1>2. /\ p.prompt = i /\ p.completion = k /\ p.feedback = r[k].feedback
      /\ p.context = ContextOf(r, s, i, k - 1)
  BY <1>1 DEF PairAt
<1>3. /\ i \in 1 .. Len(r) /\ k \in 1 .. Len(r) /\ i < k
      /\ r[i].role = "user" /\ r[k].role = "assistant"
      /\ r[i].session = s /\ r[k].session = s
      /\ \A j \in i + 1 .. k - 1 : r[j].session = s => r[j].role = "tool"
  BY <1>1 DEF Answers, Waits
<1>4. p.context = {j \in i + 1 .. k - 1 : r[j].session = s} /\ \A j \in p.context : r[j].role = "tool"
  BY <1>2, <1>3 DEF ContextOf
<1>5. Exact(r, p)
  BY <1>2, <1>3, <1>4 DEF Exact
<1>6. \A j \in Texts(p) : j \in i .. k /\ r[j].session = s
  BY <1>2, <1>3, <1>4 DEF Texts
<1>. QED  BY <1>2, <1>3, <1>5, <1>6

\* Two pairs of this form that share a text are the same two rows.
LEMMA SharedText ==
    ASSUME NEW r, Len(r) \in Nat, NEW p, NEW q, Exact(r, p), Exact(r, q),
           NEW j, j \in p.prompt .. p.completion, j \in q.prompt .. q.completion,
           r[p.prompt].session = r[q.prompt].session
    PROVE  p.prompt = q.prompt /\ p.completion = q.completion /\ p.context = q.context
<1>1. /\ p.prompt \in 1 .. Len(r) /\ p.completion \in 1 .. Len(r) /\ p.prompt < p.completion
      /\ r[p.prompt].role = "user" /\ r[p.completion].role = "assistant"
      /\ r[p.prompt].session = r[p.completion].session
      /\ p.context = {k \in p.prompt + 1 .. p.completion - 1 : r[k].session = r[p.prompt].session}
      /\ \A k \in p.context : r[k].role = "tool"
  BY DEF Exact
<1>2. /\ q.prompt \in 1 .. Len(r) /\ q.completion \in 1 .. Len(r) /\ q.prompt < q.completion
      /\ r[q.prompt].role = "user" /\ r[q.completion].role = "assistant"
      /\ r[q.prompt].session = r[q.completion].session
      /\ q.context = {k \in q.prompt + 1 .. q.completion - 1 : r[k].session = r[q.prompt].session}
      /\ \A k \in q.context : r[k].role = "tool"
  BY DEF Exact
<1>3. /\ q.prompt \notin p.context /\ p.prompt \notin q.context
      /\ q.completion \notin p.context /\ p.completion \notin q.context
      /\ q.prompt # p.completion /\ p.prompt # q.completion
  BY <1>1, <1>2
<1>4. p.prompt = q.prompt
  <2>1. CASE p.prompt < q.prompt
    <3>1. q.prompt \in p.prompt + 1 .. p.completion - 1
      BY <1>1, <1>2, <1>3, <2>1
    <3>. QED  BY <1>1, <1>3, <3>1
  <2>2. CASE q.prompt < p.prompt
    <3>1. p.prompt \in q.prompt + 1 .. q.completion - 1
      BY <1>1, <1>2, <1>3, <2>2
    <3>. QED  BY <1>2, <1>3, <3>1
  <2>. QED  BY <1>1, <1>2, <2>1, <2>2
<1>5. p.completion = q.completion
  <2>1. CASE p.completion < q.completion
    <3>1. p.completion \in q.prompt + 1 .. q.completion - 1
      BY <1>1, <1>2, <1>4, <2>1
    <3>. QED  BY <1>1, <1>2, <1>3, <3>1
  <2>2. CASE q.completion < p.completion
    <3>1. q.completion \in p.prompt + 1 .. p.completion - 1
      BY <1>1, <1>2, <1>4, <2>2
    <3>. QED  BY <1>1, <1>2, <1>3, <3>1
  <2>. QED  BY <1>1, <1>2, <2>1, <2>2
<1>. QED  BY <1>1, <1>2, <1>4, <1>5

\* The types of a row's fields.
LEMMA RowTypes ==
    ASSUME rows \in Seq(Row)
    PROVE  /\ Len(rows) \in Nat /\ DOMAIN rows = 1 .. Len(rows)
           /\ \A k \in 1 .. Len(rows) :
                 /\ rows[k] \in Row
                 /\ rows[k].ex \in Exchanges /\ rows[k].session \in Sessions
                 /\ rows[k].role \in {"user", "tool", "assistant"} /\ rows[k].feedback \in Feedback
<1>1. Len(rows) \in Nat /\ DOMAIN rows = 1 .. Len(rows)
  OBVIOUS
<1>2. \A k \in 1 .. Len(rows) : rows[k] \in Row
  OBVIOUS
<1>. QED  BY <1>1, <1>2 DEF Row

\* The rows of one exchange: its own message is the first of them.
LEMMA OwnMessage ==
    ASSUME rows \in Seq(Row), RowsInv(stage, rows), NEW j \in 1 .. Len(rows)
    PROVE  \E i \in 1 .. j : UserRow(i, rows[j].ex) /\ rows[i].session = rows[j].session
BY DEF RowsInv, UserRow

\* Beside an exchange that ran alone, a pair of this form has no other's rows.
LEMMA AloneInItsPair ==
    ASSUME rows \in Seq(Row), RowsInv(stage, rows), NEW p, Exact(rows, p),
           NEW j \in Texts(p), Alone(rows[j].ex)
    PROVE  \A k \in Texts(p) : rows[k].ex = rows[j].ex
<1>. DEFINE i == p.prompt
<1>0. /\ Len(rows) \in Nat /\ DOMAIN rows = 1 .. Len(rows)
      /\ \A k \in 1 .. Len(rows) : rows[k].ex \in Exchanges
  BY RowTypes
<1>1. /\ i \in 1 .. Len(rows) /\ p.completion \in 1 .. Len(rows) /\ i < p.completion
      /\ rows[i].role = "user" /\ rows[p.completion].role = "assistant"
      /\ rows[i].session = rows[p.completion].session
      /\ p.context = {k \in i + 1 .. p.completion - 1 : rows[k].session = rows[i].session}
      /\ \A k \in p.context : rows[k].role = "tool"
  BY DEF Exact
<1>2. \A k \in Texts(p) : /\ k \in i .. p.completion /\ k \in 1 .. Len(rows)
                          /\ rows[k].session = rows[i].session
  BY <1>0, <1>1 DEF Texts
\* The message of an exchange with a row in the pair is not behind the prompt.
<1>3. \A k \in Texts(p) : \E u \in 1 .. i :
         UserRow(u, rows[k].ex) /\ rows[u].session = rows[i].session
  <2>. SUFFICES ASSUME NEW k \in Texts(p)
                PROVE  \E u \in 1 .. i :
                          UserRow(u, rows[k].ex) /\ rows[u].session = rows[i].session
    OBVIOUS
  <2>1. PICK u \in 1 .. k : UserRow(u, rows[k].ex) /\ rows[u].session = rows[k].session
    BY <1>2, OwnMessage
  <2>2. u \notin i + 1 .. p.completion
    <3>1. rows[u].role = "user" /\ rows[u].session = rows[i].session
      BY <1>2, <2>1 DEF UserRow
    <3>. QED  BY <1>0, <1>1, <3>1
  <2>3. u \in 1 .. i
    BY <1>0, <1>1, <1>2, <2>1, <2>2
  <2>. QED  BY <1>2, <2>1, <2>3
<1>4. UserRow(i, rows[i].ex)
  BY <1>1 DEF UserRow
\* If its message is before the prompt, the two exchanges overlap.
<1>5. \A k \in Texts(p) : rows[k].ex # rows[i].ex => Interleaved(rows[k].ex, rows[i].ex)
  <2>. SUFFICES ASSUME NEW k \in Texts(p), rows[k].ex # rows[i].ex
                PROVE  Interleaved(rows[k].ex, rows[i].ex)
    OBVIOUS
  <2>1. PICK u \in 1 .. i : UserRow(u, rows[k].ex) /\ rows[u].session = rows[i].session
    BY <1>3
  <2>2. u # i /\ k # i
    BY <2>1 DEF UserRow
  <2>3. u < i /\ i < k /\ u \in 1 .. Len(rows) /\ k \in 1 .. Len(rows)
    BY <1>0, <1>1, <1>2, <2>2
  <2>. QED  BY <1>0, <1>1, <1>4, <2>1, <2>3 DEF Interleaved
<1>6. rows[j].ex = rows[i].ex
  <2>. SUFFICES ASSUME rows[j].ex # rows[i].ex
                PROVE  FALSE
    OBVIOUS
  <2>. QED  BY <1>0, <1>1, <1>5 DEF Alone
<1>7. ASSUME NEW k \in Texts(p), rows[k].ex # rows[j].ex
      PROVE  FALSE
  BY <1>0, <1>2, <1>5, <1>6, <1>7 DEF Alone
<1>. QED  BY <1>7

\* A pair is known by its reply: there are no more pairs than rows.
LEMMA PairsAreFew ==
    ASSUME rows \in Seq(Row), NEW m \in Nat, NEW n \in 0 .. Len(rows),
           NEW P \in SUBSET Pair, \A p \in P : IsPair(rows, m, n, p)
    PROVE  IsFiniteSet(P) /\ Cardinality(P) \in Nat
<1>. DEFINE f == [p \in P |-> p.completion]
<1>1. Len(rows) \in Nat /\ IsFiniteSet(1 .. Len(rows))
  BY FS_Interval
<1>2. \A p \in P : Exact(rows, p)
  BY <1>1, PairsAreOfThisForm
<1>3. ASSUME NEW p \in P, NEW q \in P, p.completion = q.completion
      PROVE  p = q
  <2>1. /\ p.completion \in p.prompt .. p.completion
        /\ p.completion \in q.prompt .. q.completion
        /\ rows[p.prompt].session = rows[q.prompt].session
        /\ p.feedback = q.feedback
    BY <1>2, <1>3 DEF Exact
  <2>2. p.prompt = q.prompt /\ p.context = q.context
    BY <1>1, <1>2, <2>1, SharedText
  <2>. QED  BY <1>3, <2>1, <2>2 DEF Pair
<1>4. f \in Injection(P, 1 .. Len(rows))
  <2>1. f \in [P -> 1 .. Len(rows)]
    BY <1>2 DEF Exact
  <2>. QED  BY <1>3, <2>1 DEF Injection, IsInjective
<1>5. IsFiniteSet(P)
  <2>. HIDE DEF f
  <2>. QED  BY <1>1, <1>4, FS_Injection
<1>. QED  BY <1>5, FS_CardinalityType

\* What the invariant says of one deployed cycle.
LEMMA DeployedFacts ==
    ASSUME IndInv, NEW d \in DOMAIN deployed
    PROVE  /\ rows \in Seq(Row) /\ Len(rows) \in Nat /\ d \in Nat
           /\ deployed[d].after \in Nat /\ deployed[d].upto \in 0 .. Len(rows)
           /\ deployed[d].pairs \in SUBSET Pair
           /\ Batch(curator, rows, deployed[d].after, deployed[d].upto, deployed[d].pairs, TRUE)
           /\ \A p \in deployed[d].pairs :
                 IsPair(rows, deployed[d].after, deployed[d].upto, p)
           /\ \A c \in DOMAIN deployed : c < d => deployed[c].upto <= deployed[d].after
<1>1. /\ rows \in Seq(Row) /\ deployed \in Seq(Deployments(rows))
      /\ DeployedInv(curator, rows, mark, deployed)
  BY DEF IndInv, TypeOK, Deployments
<1>2. deployed[d] \in Deployments(rows) /\ d \in Nat /\ Len(rows) \in Nat
  BY <1>1
<1>3. /\ deployed[d].after \in Nat /\ deployed[d].upto \in 0 .. Len(rows)
      /\ deployed[d].pairs \in SUBSET Pair
  BY <1>2 DEF Deployments
<1>4. /\ Batch(curator, rows, deployed[d].after, deployed[d].upto, deployed[d].pairs, TRUE)
      /\ \A c \in DOMAIN deployed : c < d => deployed[c].upto <= deployed[d].after
  BY <1>1 DEF DeployedInv
<1>5. \A p \in deployed[d].pairs : IsPair(rows, deployed[d].after, deployed[d].upto, p)
  BY <1>4 DEF Batch
<1>. QED  BY <1>1, <1>2, <1>3, <1>4, <1>5

\* The pair of an exchange that ran alone has all of its rows and no others.
LEMMA ExactnessFromInv == IndInv => PairsAreExact
<1>. SUFFICES ASSUME IndInv, NEW p \in Trained, NEW j \in Texts(p), Alone(rows[j].ex)
              PROVE  /\ rows[p.prompt].ex = rows[j].ex /\ rows[p.completion].ex = rows[j].ex
                     /\ p.context = ToolRows(rows[j].ex)
  BY DEF PairsAreExact
<1>1. rows \in Seq(Row) /\ RowsInv(stage, rows)
  BY DEF IndInv, TypeOK
<1>2. PICK d \in DOMAIN deployed : p \in deployed[d].pairs
  BY DEF Trained
<1>3. /\ deployed[d].after \in Nat /\ deployed[d].upto \in 0 .. Len(rows)
      /\ IsPair(rows, deployed[d].after, deployed[d].upto, p)
  BY <1>2, DeployedFacts
<1>4. Len(rows) \in Nat /\ Exact(rows, p) /\ p.prompt \in Texts(p) /\ p.completion \in Texts(p)
  BY <1>1, <1>3, RowTypes, PairsAreOfThisForm DEF Texts
<1>5. \A k \in Texts(p) : rows[k].ex = rows[j].ex
  BY <1>1, <1>4, AloneInItsPair
<1>6. /\ p.prompt \in 1 .. Len(rows) /\ p.completion \in 1 .. Len(rows)
      /\ rows[p.prompt].role = "user" /\ rows[p.completion].role = "assistant"
      /\ p.context = {k \in p.prompt + 1 .. p.completion - 1 :
                          rows[k].session = rows[p.prompt].session}
      /\ \A k \in p.context : rows[k].role = "tool"
  BY <1>4 DEF Exact
<1>7. p.context \subseteq ToolRows(rows[j].ex)
  <2>1. \A k \in p.context : k \in DOMAIN rows /\ k \in Texts(p)
    BY <1>1, <1>6, RowTypes DEF Texts
  <2>. QED  BY <1>5, <1>6, <2>1 DEF ToolRows
<1>8. ASSUME NEW k \in ToolRows(rows[j].ex)
      PROVE  k \in p.context
  <2>1. k \in 1 .. Len(rows) /\ rows[k].ex = rows[j].ex /\ rows[k].role = "tool"
    BY <1>1, RowTypes DEF ToolRows
  <2>2. rows[p.prompt].ex = rows[j].ex /\ rows[p.completion].ex = rows[j].ex
    BY <1>4, <1>5
  <2>3. PICK u \in 1 .. k : rows[u].role = "user" /\ rows[u].ex = rows[k].ex
                            /\ rows[u].session = rows[k].session
    BY <1>1, <2>1 DEF RowsInv
  <2>4. u = p.prompt
    <3>1. u \in 1 .. Len(rows) /\ rows[u].ex = rows[p.prompt].ex
      BY <1>4, <2>1, <2>2, <2>3
    <3>2. ~(u < p.prompt) /\ ~(p.prompt < u)
      BY <1>1, <1>6, <2>3, <3>1 DEF RowsInv
    <3>. QED  BY <1>6, <3>1, <3>2
  <2>5. ~(p.completion < k)
    BY <1>1, <1>6, <2>1, <2>2 DEF RowsInv
  <2>6. k # p.prompt /\ k # p.completion
    BY <1>6, <2>1
  <2>7. k \in p.prompt + 1 .. p.completion - 1
    BY <1>4, <1>6, <2>1, <2>3, <2>4, <2>5, <2>6
  <2>. QED  BY <1>6, <2>3, <2>4, <2>7
<1>. QED  BY <1>4, <1>5, <1>7, <1>8

\* No text is in two pairs: those of one cycle have disjoint rows, and those of
\* different cycles come from rows on different sides of a watermark.
LEMMA OnceFromInv == IndInv => SaidOnceTrainedOnce
<1>. SUFFICES ASSUME IndInv, NEW c \in DOMAIN deployed, NEW d \in DOMAIN deployed,
                     NEW p \in deployed[c].pairs, NEW q \in deployed[d].pairs,
                     NEW j \in Texts(p), j \in Texts(q)
              PROVE  c = d /\ p = q
  BY DEF SaidOnceTrainedOnce
<1>1. /\ rows \in Seq(Row) /\ Len(rows) \in Nat
      /\ c \in Nat /\ d \in Nat /\ p \in Pair /\ q \in Pair
      /\ deployed[c].after \in Nat /\ deployed[c].upto \in 0 .. Len(rows)
      /\ deployed[d].after \in Nat /\ deployed[d].upto \in 0 .. Len(rows)
  BY DeployedFacts
<1>2. /\ IsPair(rows, deployed[c].after, deployed[c].upto, p)
      /\ IsPair(rows, deployed[d].after, deployed[d].upto, q)
      /\ c < d => deployed[c].upto <= deployed[d].after
      /\ d < c => deployed[d].upto <= deployed[c].after
  BY DeployedFacts
<1>3. /\ Exact(rows, p) /\ p.prompt \in deployed[c].after + 1 .. deployed[c].upto
      /\ p.completion \in deployed[c].after + 1 .. deployed[c].upto
      /\ j \in p.prompt .. p.completion /\ rows[j].session = rows[p.prompt].session
  BY <1>1, <1>2, PairsAreOfThisForm
<1>4. /\ Exact(rows, q) /\ q.prompt \in deployed[d].after + 1 .. deployed[d].upto
      /\ q.completion \in deployed[d].after + 1 .. deployed[d].upto
      /\ j \in q.prompt .. q.completion /\ rows[j].session = rows[q.prompt].session
  BY <1>1, <1>2, PairsAreOfThisForm
<1>5. p.prompt = q.prompt /\ p.completion = q.completion /\ p.context = q.context
  <2>1. rows[p.prompt].session = rows[q.prompt].session
    BY <1>3, <1>4
  <2>. QED  BY <1>1, <1>3, <1>4, <2>1, SharedText, Zenon
<1>6. p = q
  <2>1. p.feedback = q.feedback
    BY <1>3, <1>4, <1>5 DEF Exact
  <2>. QED  BY <1>1, <1>5, <2>1 DEF Pair
<1>7. c = d
  <2>1. /\ p.prompt \in Nat
        /\ deployed[c].after < p.prompt /\ p.prompt <= deployed[c].upto
        /\ deployed[d].after < p.prompt /\ p.prompt <= deployed[d].upto
    BY <1>1, <1>3, <1>4, <1>5
  <2>2. ~(c < d)
    BY <1>1, <1>2, <2>1
  <2>3. ~(d < c)
    BY <1>1, <1>2, <2>1
  <2>. QED  BY <1>1, <2>2, <2>3
<1>. QED  BY <1>6, <1>7

\* A deployed cycle behind a curator was screened.
LEMMA RejectionFromInv == IndInv => RejectedIsNotTrained
<1>. SUFFICES ASSUME IndInv, curator, NEW p \in Trained
              PROVE  rows[p.completion].feedback # "negative"
  BY DEF RejectedIsNotTrained
<1>1. PICK d \in DOMAIN deployed : p \in deployed[d].pairs
  BY DEF Trained
<1>2. /\ Len(rows) \in Nat /\ deployed[d].after \in Nat /\ deployed[d].upto \in 0 .. Len(rows)
      /\ IsPair(rows, deployed[d].after, deployed[d].upto, p)
      /\ Batch(curator, rows, deployed[d].after, deployed[d].upto, deployed[d].pairs, TRUE)
  BY <1>1, DeployedFacts
<1>3. p.feedback # "negative"
  BY <1>1, <1>2 DEF Batch
<1>4. p.feedback = rows[p.completion].feedback
  BY <1>2, PairsAreOfThisForm DEF Exact
<1>. QED  BY <1>3, <1>4

\* A reply whose exchange ran alone is paired with its own message by every
\* cycle that fetched both.
LEMMA AloneIsPaired ==
    ASSUME rows \in Seq(Row), RowsInv(stage, rows), NEW m \in Nat,
           NEW k \in 1 .. Len(rows), rows[k].role = "assistant", Alone(rows[k].ex),
           NEW i \in m + 1 .. k, UserRow(i, rows[k].ex), rows[i].session = rows[k].session
    PROVE  Answers(rows, rows[k].session, m, i, k)
<1>0. /\ Len(rows) \in Nat /\ DOMAIN rows = 1 .. Len(rows)
      /\ \A j \in 1 .. Len(rows) : /\ rows[j].ex \in Exchanges
                                   /\ rows[j].role \in {"user", "tool", "assistant"}
  BY RowTypes
<1>1. i # k /\ i \in m + 1 .. k - 1 /\ i \in 1 .. Len(rows) /\ i < k
  BY <1>0 DEF UserRow
<1>2. ASSUME NEW j \in i + 1 .. k - 1, rows[j].session = rows[k].session, rows[j].role # "tool"
      PROVE  FALSE
  <2>1. j \in 1 .. Len(rows) /\ i < j /\ j < k
    BY <1>0, <1>1
  <2>2. rows[j].ex # rows[k].ex
    <3>1. rows[j].ex = rows[k].ex => rows[j].role # "assistant"
      BY <1>0, <2>1 DEF RowsInv
    <3>2. rows[i].ex = rows[j].ex => rows[j].role # "user"
      BY <1>0, <1>1, <2>1 DEF RowsInv
    <3>. QED  BY <1>0, <1>2, <2>1, <3>1, <3>2 DEF UserRow
  <2>3. PICK u \in 1 .. j : UserRow(u, rows[j].ex) /\ rows[u].session = rows[j].session
    BY <2>1, OwnMessage
  <2>4. u # i /\ u \in 1 .. Len(rows)
    BY <1>0, <2>1, <2>2, <2>3 DEF UserRow
  <2>5. CASE u < i
    <3>1. u < i /\ i < j /\ UserRow(u, rows[j].ex) /\ UserRow(i, rows[k].ex)
      BY <2>1, <2>3, <2>5
    <3>2. Interleaved(rows[j].ex, rows[k].ex)
      BY <1>0, <1>1, <1>2, <2>1, <2>3, <2>4, <3>1 DEF Interleaved
    <3>. QED  BY <1>0, <2>1, <3>2 DEF Alone
  <2>6. CASE i < u
    <3>1. i < u /\ u < k /\ UserRow(u, rows[j].ex) /\ UserRow(i, rows[k].ex)
      BY <2>1, <2>3, <2>6
    <3>2. Interleaved(rows[k].ex, rows[j].ex)
      BY <1>0, <1>1, <1>2, <2>1, <2>3, <2>4, <3>1 DEF Interleaved
    <3>. QED  BY <1>0, <2>1, <3>2 DEF Alone
  <2>. QED  BY <1>1, <2>3, <2>4, <2>5, <2>6
<1>. QED  BY <1>1, <1>2 DEF Answers, Waits, UserRow

\* Every row behind the watermark was fetched by one deployed cycle, which has
\* the pair unless it began after the message was consumed by another.
LEMMA ApprovalFromInv == IndInv => ApprovedIsTrained
<1>. SUFFICES ASSUME IndInv, NEW k \in 1 .. mark,
                     rows[k].role = "assistant", rows[k].feedback = "positive",
                     Alone(rows[k].ex),
                     ~\E d \in DOMAIN deployed, i \in DOMAIN rows :
                         UserRow(i, rows[k].ex) /\ i <= deployed[d].upto /\ deployed[d].upto < k
              PROVE  \E p \in Trained : p.completion = k
  BY DEF ApprovedIsTrained
<1>1. /\ rows \in Seq(Row) /\ RowsInv(stage, rows) /\ mark \in 0 .. Len(rows)
      /\ DeployedInv(curator, rows, mark, deployed)
  BY DEF IndInv, TypeOK
<1>2. /\ Len(rows) \in Nat /\ k \in 1 .. Len(rows) /\ DOMAIN rows = 1 .. Len(rows)
      /\ rows[k].session \in Sessions
  BY <1>1, RowTypes
<1>3. PICK d \in DOMAIN deployed : k \in deployed[d].after + 1 .. deployed[d].upto
  BY <1>1 DEF DeployedInv
<1>4. /\ deployed[d].after \in Nat /\ deployed[d].upto \in 0 .. Len(rows)
      /\ Batch(curator, rows, deployed[d].after, deployed[d].upto, deployed[d].pairs, TRUE)
      /\ deployed[d].after = 0 \/ \E c \in DOMAIN deployed : deployed[c].upto = deployed[d].after
  BY <1>1, <1>3, DeployedFacts DEF DeployedInv
<1>5. PICK i \in 1 .. k : UserRow(i, rows[k].ex) /\ rows[i].session = rows[k].session
  BY <1>1, <1>2, OwnMessage
<1>6. i \in deployed[d].after + 1 .. k
  <2>. SUFFICES ASSUME i <= deployed[d].after
                PROVE  FALSE
    BY <1>2, <1>4
  <2>1. PICK c \in DOMAIN deployed : deployed[c].upto = deployed[d].after
    BY <1>2, <1>4
  <2>2. i \in DOMAIN rows /\ i <= deployed[c].upto /\ deployed[c].upto < k
    BY <1>2, <1>3, <1>4, <2>1
  <2>. QED  BY <1>5, <2>2
<1>7. Answers(rows, rows[k].session, deployed[d].after, i, k)
  BY <1>1, <1>2, <1>4, <1>5, <1>6, AloneIsPaired
<1>8. i \in deployed[d].after + 1 .. deployed[d].upto
  BY <1>2, <1>3, <1>4, <1>6
<1>9. PairAt(rows, rows[k].session, i, k) \in deployed[d].pairs
  BY <1>2, <1>3, <1>4, <1>7, <1>8 DEF Batch
<1>. QED  BY <1>9 DEF Trained, PairAt

-----------------------------------------------------------------------------
(* Every step keeps the inductive invariant                                *)

\* A row that is appended changes none of the rows before it.
LEMMA AppendedRow ==
    ASSUME NEW r \in Seq(Row), NEW x \in Row, NEW t, t = Append(r, x)
    PROVE  /\ t \in Seq(Row) /\ Len(r) \in Nat /\ Len(t) = Len(r) + 1
           /\ 1 .. Len(t) = (1 .. Len(r)) \cup {Len(r) + 1}
           /\ t[Len(r) + 1] = x /\ \A j \in 1 .. Len(r) : t[j] = r[j]
OBVIOUS

\* Pairs stay what they are when a row is appended.
LEMMA PairsStay ==
    ASSUME NEW r \in Seq(Row), NEW x \in Row, NEW t, t = Append(r, x),
           NEW m \in Nat, NEW n \in 0 .. Len(r)
    PROVE  /\ \A p : IsPair(r, m, n, p) => IsPair(t, m, n, p)
           /\ \A cur, P, screened : Batch(cur, r, m, n, P, screened)
                                       => Batch(cur, t, m, n, P, screened)
<1>1. Len(r) \in Nat /\ \A j \in 1 .. Len(r) : t[j] = r[j]
  BY AppendedRow
<1>2. ASSUME NEW s, NEW i \in m + 1 .. n, NEW k \in m + 1 .. n
      PROVE  /\ Answers(r, s, m, i, k) <=> Answers(t, s, m, i, k)
             /\ PairAt(r, s, i, k) = PairAt(t, s, i, k)
             /\ r[k].feedback = t[k].feedback
  <2>1. t[i] = r[i] /\ t[k] = r[k] /\ \A j \in i + 1 .. k - 1 : t[j] = r[j]
    BY <1>1
  <2>2. Answers(r, s, m, i, k) <=> Answers(t, s, m, i, k)
    BY <2>1 DEF Answers, Waits
  <2>3. ContextOf(r, s, i, k - 1) = ContextOf(t, s, i, k - 1)
    BY <2>1 DEF ContextOf
  <2>. QED  BY <2>1, <2>2, <2>3 DEF PairAt
<1>3. ASSUME NEW p, IsPair(r, m, n, p)
      PROVE  IsPair(t, m, n, p)
  BY <1>2, <1>3 DEF IsPair
<1>4. ASSUME NEW cur, NEW P, NEW screened, Batch(cur, r, m, n, P, screened)
      PROVE  Batch(cur, t, m, n, P, screened)
  <2>1. \A p \in P : IsPair(t, m, n, p)
    BY <1>3, <1>4 DEF Batch
  <2>2. \A s \in Sessions, i, k \in m + 1 .. n :
           Answers(t, s, m, i, k) /\ t[k].feedback = "positive" => PairAt(t, s, i, k) \in P
    <3>. SUFFICES ASSUME NEW s \in Sessions, NEW i \in m + 1 .. n, NEW k \in m + 1 .. n,
                         Answers(t, s, m, i, k), t[k].feedback = "positive"
                  PROVE  PairAt(t, s, i, k) \in P
      OBVIOUS
    <3>1. Answers(r, s, m, i, k) /\ r[k].feedback = "positive" /\ PairAt(r, s, i, k) = PairAt(t, s, i, k)
      BY <1>2
    <3>. QED  BY <1>4, <3>1 DEF Batch
  <2>. QED  BY <1>4, <2>1, <2>2 DEF Batch
<1>. QED  BY <1>3, <1>4

\* e goes from st[e] to st2[e] and appends row x.
Appends(st, st2, e, x) ==
    /\ \A f \in Exchanges : f # e => st2[f] = st[f]
    /\ \/ st[e] = None /\ x.role = "user" /\ st2[e] = x.session
       \/ /\ st[e] \in Sessions /\ x.session = st[e] /\ x.role # "user"
          /\ \/ st2[e] = st[e] /\ x.role # "assistant"
             \/ st2[e] \notin Sessions \cup {None}

\* An exchange that is new, or under way, may append a row of its own.
LEMMA RowsInvStep ==
    ASSUME NEW st, NEW r \in Seq(Row), RowsInv(st, r),
           NEW st2, NEW e \in Exchanges, NEW x \in Row, x.ex = e, NEW t, t = Append(r, x),
           Appends(st, st2, e, x)
    PROVE  RowsInv(st2, t)
<1>. USE DEF Appends
<1>. DEFINE n == Len(r) + 1
<1>1. /\ t \in Seq(Row) /\ Len(r) \in Nat /\ Len(t) = n /\ n \in 1 .. n
      /\ 1 .. Len(t) = (1 .. Len(r)) \cup {n} /\ n \notin 1 .. Len(r)
      /\ t[n] = x /\ \A j \in 1 .. Len(r) : t[j] = r[j] /\ j < n /\ j \in Nat
  BY AppendedRow
<1>2. /\ x.session \in Sessions /\ x.role \in {"user", "tool", "assistant"}
      /\ \A j \in 1 .. Len(r) : r[j].ex \in Exchanges
  <2>1. \A j \in 1 .. Len(r) : r[j] \in Row
    OBVIOUS
  <2>. QED  BY <2>1 DEF Row
<1>3. Sessions \cap {None, "done", "failed"} = {}
  BY NamesAssumption
\* What the rows say of e before.
<1>4. \A j \in 1 .. Len(r) : r[j].ex = e =>
         /\ st[e] \in Sessions
         /\ r[j].role # "assistant" /\ r[j].session = st[e]
  BY <1>3 DEF RowsInv
<1>5. st[e] \in Sessions => \E i \in 1 .. Len(r) :
         r[i].role = "user" /\ r[i].ex = e /\ r[i].session = st[e]
  BY <1>4 DEF RowsInv
<1>6. x.role = "user" => \A j \in 1 .. Len(r) : r[j].ex # e
  BY <1>3, <1>4
<1>. HIDE DEF n
<1>7. \A j \in 1 .. Len(t) :
         /\ st2[t[j].ex] # None
         /\ st2[t[j].ex] \in Sessions => t[j].role # "assistant" /\ t[j].session = st2[t[j].ex]
  <2>1. ASSUME NEW j \in 1 .. Len(r)
        PROVE  /\ st2[t[j].ex] # None
               /\ st2[t[j].ex] \in Sessions => t[j].role # "assistant" /\ t[j].session = st2[t[j].ex]
    <3>1. CASE r[j].ex = e
      BY <1>1, <1>3, <1>4, <3>1
    <3>2. CASE r[j].ex # e
      BY <1>1, <1>2, <3>2 DEF RowsInv
    <3>. QED  BY <3>1, <3>2
  <2>2. /\ st2[x.ex] # None
        /\ st2[x.ex] \in Sessions => x.role # "assistant" /\ x.session = st2[x.ex]
    BY <1>2, <1>3
  <2>. QED  BY <1>1, <2>1, <2>2
<1>8. \A j \in 1 .. Len(t) : \E i \in 1 .. j :
         t[i].role = "user" /\ t[i].ex = t[j].ex /\ t[i].session = t[j].session
  <2>1. ASSUME NEW j \in 1 .. Len(r)
        PROVE  \E i \in 1 .. j :
                  t[i].role = "user" /\ t[i].ex = t[j].ex /\ t[i].session = t[j].session
    <3>1. PICK i \in 1 .. j : r[i].role = "user" /\ r[i].ex = r[j].ex /\ r[i].session = r[j].session
      BY DEF RowsInv
    <3>2. i \in 1 .. Len(r)
      BY <1>1
    <3>. QED  BY <1>1, <3>1, <3>2
  <2>2. \E i \in 1 .. n : t[i].role = "user" /\ t[i].ex = x.ex /\ t[i].session = x.session
    BY <1>1, <1>5
  <2>. QED  BY <1>1, <2>1, <2>2
<1>9. \A j \in 1 .. Len(t) : \A i \in 1 .. Len(t) :
         i < j /\ t[i].ex = t[j].ex => t[i].role # "assistant" /\ t[j].role # "user"
  <2>1. \A j, i \in 1 .. Len(r) :
           i < j /\ t[i].ex = t[j].ex => t[i].role # "assistant" /\ t[j].role # "user"
    BY <1>1 DEF RowsInv
  <2>2. \A i \in 1 .. Len(r) : t[i].ex = x.ex => t[i].role # "assistant" /\ x.role # "user"
    BY <1>1, <1>4, <1>6
  <2>3. \A j \in 1 .. Len(r) : ~(n < j) /\ ~(n < n)
    BY <1>1
  <2>. QED  BY <1>1, <2>1, <2>2, <2>3
<1>10. \A f \in Exchanges : st2[f] \in Sessions =>
          \E i \in 1 .. Len(t) : t[i].role = "user" /\ t[i].ex = f
  <2>1. ASSUME NEW f \in Exchanges, st2[f] \in Sessions, f # e
        PROVE  \E i \in 1 .. Len(t) : t[i].role = "user" /\ t[i].ex = f
    BY <1>1, <2>1 DEF RowsInv
  <2>2. st2[e] \in Sessions => \E i \in 1 .. Len(t) : t[i].role = "user" /\ t[i].ex = e
    BY <1>1, <1>5
  <2>. QED  BY <2>1, <2>2
<1>. QED  BY <1>7, <1>8, <1>9, <1>10 DEF RowsInv

\* An appended row leaves the cycle under way and the deployed ones as they are.
LEMMA StoreStep ==
    ASSUME IndInv, NEW x \in Row, rows' = Append(rows, x),
           UNCHANGED <<curator, mark, cycle, deployed>>,
           stage' \in [Exchanges -> Sessions \cup {None, "done", "failed"}],
           RowsInv(stage', rows')
    PROVE  IndInv'
<1>1. /\ rows \in Seq(Row) /\ mark \in 0 .. Len(rows) /\ cycle \in Cycles
      /\ deployed \in Seq(Deployments(rows)) /\ curator \in BOOLEAN
      /\ CycleInv(curator, rows, mark, cycle) /\ DeployedInv(curator, rows, mark, deployed)
  BY DEF IndInv, TypeOK, Cycles, Deployments
<1>2. rows' \in Seq(Row) /\ Len(rows) \in Nat /\ Len(rows') = Len(rows) + 1
  BY <1>1, AppendedRow
<1>3. Cycles \subseteq Cycles' /\ Deployments(rows) \subseteq Deployments(rows')
  BY <1>2 DEF Cycles, Deployments
<1>4. TypeOK'
  <2>1. mark' \in 0 .. Len(rows')
    BY <1>1, <1>2
  <2>2. cycle' \in Cycles'
    BY <1>1, <1>3
  <2>3. deployed' \in Seq(Deployments(rows'))
    <3>1. \A d \in DOMAIN deployed : deployed[d] \in Deployments(rows')
      BY <1>1, <1>3
    <3>. QED  BY <1>1, <3>1
  <2>. QED  BY <1>1, <1>2, <2>1, <2>2, <2>3 DEF TypeOK, Cycles, Deployments
<1>5. CycleInv(curator, rows, mark, cycle)'
  <2>. SUFFICES ASSUME cycle.pc # "idle"
                PROVE  Batch(curator, rows', mark, cycle.upto, cycle.pairs, cycle.pc = "training")
    BY DEF CycleInv
  <2>1. Batch(curator, rows, mark, cycle.upto, cycle.pairs, cycle.pc = "training")
    BY <1>1 DEF CycleInv
  <2>2. mark \in Nat /\ cycle.upto \in 0 .. Len(rows)
    BY <1>1, <1>2 DEF Cycles
  <2>. QED  BY <1>1, <2>1, <2>2, PairsStay
<1>6. DeployedInv(curator, rows, mark, deployed)'
  <2>1. ASSUME NEW d \in DOMAIN deployed
        PROVE  Batch(curator, rows', deployed[d].after, deployed[d].upto, deployed[d].pairs, TRUE)
    <3>1. /\ deployed[d].after \in Nat /\ deployed[d].upto \in 0 .. Len(rows)
          /\ Batch(curator, rows, deployed[d].after, deployed[d].upto, deployed[d].pairs, TRUE)
      BY DeployedFacts
    <3>. QED  BY <1>1, <3>1, PairsStay
  <2>. QED  BY <1>1, <2>1 DEF DeployedInv
<1>. QED  BY <1>4, <1>5, <1>6 DEF IndInv

\* The record that Store appends is a row.
LEMMA StoredRow ==
    ASSUME NEW e \in Exchanges, NEW s \in Sessions, NEW role \in {"user", "tool", "assistant"},
           NEW feedback \in Feedback
    PROVE  LET x == [ex |-> e, session |-> s, role |-> role, feedback |-> feedback]
           IN  x \in Row /\ x.ex = e /\ x.session = s /\ x.role = role
BY DEF Row

LEMMA ExchangeTypes ==
    ASSUME IndInv
    PROVE  /\ rows \in Seq(Row) /\ RowsInv(stage, rows)
           /\ stage \in [Exchanges -> Sessions \cup {None, "done", "failed"}]
           /\ Sessions \cap {None, "done", "failed"} = {} /\ None \notin {"done", "failed"}
           /\ None \in Feedback
BY NamesAssumption DEF IndInv, TypeOK, Feedback

LEMMA AskStep == ASSUME IndInv, NEW e \in Exchanges, NEW s \in Sessions, Ask(e, s)
                 PROVE  IndInv'
<1>. DEFINE x == [ex |-> e, session |-> s, role |-> "user", feedback |-> None]
<1>1. /\ stage[e] = None /\ stage' = [stage EXCEPT ![e] = s] /\ rows' = Append(rows, x)
      /\ UNCHANGED <<curator, mark, cycle, deployed>>
  BY DEF Ask, Store
<1>2. x \in Row /\ x.ex = e /\ x.session = s /\ x.role = "user"
  BY ExchangeTypes, StoredRow
<1>. HIDE DEF x
<1>3. /\ stage' \in [Exchanges -> Sessions \cup {None, "done", "failed"}]
      /\ stage'[e] = x.session /\ \A f \in Exchanges : f # e => stage'[f] = stage[f]
  BY <1>1, <1>2, ExchangeTypes
<1>4. RowsInv(stage', rows')
  <2>1. Appends(stage, stage', e, x)
    BY <1>1, <1>2, <1>3 DEF Appends
  <2>. QED  BY <1>1, <1>2, <2>1, ExchangeTypes, RowsInvStep
<1>. QED  BY <1>1, <1>2, <1>3, <1>4, StoreStep

LEMMA UseToolStep == ASSUME IndInv, NEW e \in Exchanges, UseTool(e)
                     PROVE  IndInv'
<1>. DEFINE x == [ex |-> e, session |-> stage[e], role |-> "tool", feedback |-> None]
<1>1. /\ stage[e] \in Sessions /\ stage' = stage /\ rows' = Append(rows, x)
      /\ UNCHANGED <<curator, mark, cycle, deployed>>
  BY DEF UseTool, Store
<1>2. x \in Row /\ x.ex = e /\ x.session = stage[e] /\ x.role = "tool"
  BY <1>1, ExchangeTypes, StoredRow
<1>. HIDE DEF x
<1>3. RowsInv(stage', rows')
  <2>1. Appends(stage, stage', e, x)
    BY <1>1, <1>2 DEF Appends
  <2>. QED  BY <1>1, <1>2, <2>1, ExchangeTypes, RowsInvStep
<1>. QED  BY <1>1, <1>2, <1>3, ExchangeTypes, StoreStep

LEMMA AnswerStep == ASSUME IndInv, NEW e \in Exchanges, NEW feedback \in Feedback,
                           Answer(e, feedback)
                    PROVE  IndInv'
<1>. DEFINE x == [ex |-> e, session |-> stage[e], role |-> "assistant", feedback |-> feedback]
<1>1. /\ stage[e] \in Sessions /\ stage' = [stage EXCEPT ![e] = "done"]
      /\ rows' = Append(rows, x) /\ UNCHANGED <<curator, mark, cycle, deployed>>
  BY DEF Answer, Store
<1>2. x \in Row /\ x.ex = e /\ x.session = stage[e] /\ x.role = "assistant"
  BY <1>1, ExchangeTypes, StoredRow
<1>. HIDE DEF x
<1>3. /\ stage' \in [Exchanges -> Sessions \cup {None, "done", "failed"}]
      /\ stage'[e] \notin Sessions \cup {None}
      /\ \A f \in Exchanges : f # e => stage'[f] = stage[f]
  BY <1>1, <1>2, ExchangeTypes
<1>4. RowsInv(stage', rows')
  <2>1. Appends(stage, stage', e, x)
    BY <1>1, <1>2, <1>3 DEF Appends
  <2>. QED  BY <1>1, <1>2, <2>1, ExchangeTypes, RowsInvStep
<1>. QED  BY <1>1, <1>2, <1>3, <1>4, StoreStep

LEMMA FailStep == ASSUME IndInv, NEW e \in Exchanges, Fail(e)
                  PROVE  IndInv'
<1>1. /\ stage[e] \in Sessions /\ stage' = [stage EXCEPT ![e] = "failed"]
      /\ UNCHANGED <<curator, rows, mark, cycle, deployed>>
  BY DEF Fail
<1>2. /\ stage' \in [Exchanges -> Sessions \cup {None, "done", "failed"}]
      /\ stage'[e] = "failed" /\ \A f \in Exchanges : f # e => stage'[f] = stage[f]
  BY <1>1, ExchangeTypes
<1>3. \A j \in 1 .. Len(rows) : rows[j].ex \in Exchanges
  BY ExchangeTypes, RowTypes
<1>4. RowsInv(stage', rows)
  BY <1>1, <1>2, <1>3, ExchangeTypes DEF RowsInv
<1>. QED  BY <1>1, <1>2, <1>4 DEF IndInv, TypeOK

\* A cycle begins with every pair of the rows past the watermark.
LEMMA BeginStep == ASSUME IndInv, Begin
                   PROVE  IndInv'
<1>1. /\ rows \in Seq(Row) /\ Len(rows) \in Nat /\ mark \in 0 .. Len(rows) /\ Golden \in Nat
      /\ mark \in Nat /\ Len(rows) \in mark .. Len(rows)
  BY PairsAssumption DEF IndInv, TypeOK
<1>. DEFINE P == FormatTrainingPairs(mark, Len(rows))
<1>2. P \subseteq Pair /\ \A p : p \in P <=> IsPair(rows, mark, Len(rows), p)
  BY <1>1, FormatTrainingPairsIsCorrect
<1>3. /\ cycle' = [Idle EXCEPT !.pc = "curating", !.upto = Len(rows), !.pairs = P]
      /\ UNCHANGED <<curator, stage, rows, mark, deployed>>
  BY DEF Begin
<1>. HIDE DEF P
<1>4. cycle' \in Cycles /\ cycle'.pc = "curating" /\ cycle'.upto = Len(rows) /\ cycle'.pairs = P
  <2>1. Len(rows) \in 0 .. Len(rows) /\ 0 \in 0 .. Golden /\ P \in SUBSET Pair
    BY <1>1, <1>2
  <2>2. cycle' = [pc |-> "curating", upto |-> Len(rows), pairs |-> P, golden |-> 0]
    BY <1>3 DEF Idle
  <2>. QED  BY <2>1, <2>2 DEF Cycles
<1>5. Batch(curator, rows, mark, Len(rows), P, FALSE)
  BY <1>1, <1>2 DEF Batch, IsPair
<1>6. CycleInv(curator, rows, mark, cycle')
  BY <1>4, <1>5 DEF CycleInv
<1>7. TypeOK'
  BY <1>3, <1>4 DEF IndInv, TypeOK, Cycles
<1>. QED  BY <1>3, <1>6, <1>7 DEF IndInv

\* A cycle that ends without an adapter leaves everything else as it was.
LEMMA IdleStep ==
    ASSUME IndInv, cycle' = Idle, UNCHANGED <<curator, stage, rows, mark, deployed>>
    PROVE  IndInv'
<1>1. Idle \in Cycles /\ Idle.pc = "idle"
  BY PairsAssumption DEF Idle, Cycles, IndInv, TypeOK
<1>2. CycleInv(curator, rows, mark, cycle')
  BY <1>1 DEF CycleInv
<1>3. TypeOK'
  BY <1>1 DEF IndInv, TypeOK, Cycles
<1>. QED  BY <1>2, <1>3 DEF IndInv

\* mix samples no more golden pairs than there are.
LEMMA RehearsedType ==
    ASSUME NEW n \in Nat
    PROVE  Rehearsed(n) \in 0 .. Golden
<1>. DEFINE a == n * (RatioDen - RatioNum)
            t == RoundHalfEven(a, RatioNum)
<1>1. RatioNum \in Nat \ {0} /\ RatioDen - RatioNum \in Nat /\ Golden \in Nat
  BY RatioAssumption, PairsAssumption
<1>2. a \in Nat
  BY <1>1
<1>. HIDE DEF a
<1>3. a \div RatioNum \in Nat
  BY <1>1, <1>2
<1>4. t \in Nat
  BY <1>3 DEF RoundHalfEven
<1>5. Rehearsed(n) = IF t < Golden THEN t ELSE Golden
  BY DEF Rehearsed, a
<1>. HIDE DEF t
<1>. QED  BY <1>1, <1>4, <1>5

\* What the curator lets through still has all approved pairs, and no rejected one.
LEMMA TrainStep == ASSUME IndInv, NEW good \in SUBSET Silent(cycle.pairs), Train(good)
                   PROVE  IndInv'
<1>. DEFINE P == Curate(good)
<1>1. /\ rows \in Seq(Row) /\ Len(rows) \in Nat /\ mark \in 0 .. Len(rows) /\ cycle \in Cycles
      /\ curator \in BOOLEAN
      /\ cycle.pairs \in SUBSET Pair /\ cycle.upto \in 0 .. Len(rows)
  BY DEF IndInv, TypeOK, Cycles
<1>2. /\ cycle.pc = "curating"
      /\ cycle' = [cycle EXCEPT !.pc = "training", !.pairs = P,
                                !.golden = Rehearsed(Cardinality(P))]
      /\ UNCHANGED <<curator, stage, rows, mark, deployed>>
  BY DEF Train
<1>3. Batch(curator, rows, mark, cycle.upto, cycle.pairs, FALSE)
  BY <1>2 DEF IndInv, CycleInv, Batch
<1>4. /\ P \subseteq cycle.pairs
      /\ \A p \in cycle.pairs : p.feedback = "positive" => p \in P
      /\ curator => \A p \in P : p.feedback # "negative"
  BY NamesAssumption DEF Curate, Keeps, Silent
<1>. HIDE DEF P
<1>5. Batch(curator, rows, mark, cycle.upto, P, TRUE)
  <2>1. \A s \in Sessions, i, j \in mark + 1 .. cycle.upto :
           Answers(rows, s, mark, i, j) /\ rows[j].feedback = "positive" =>
              PairAt(rows, s, i, j) \in P
    <3>1. \A s, i, j : PairAt(rows, s, i, j).feedback = rows[j].feedback
      BY DEF PairAt
    <3>. QED  BY <1>3, <1>4, <3>1 DEF Batch
  <2>. QED  BY <1>3, <1>4, <2>1 DEF Batch
<1>6. P \in SUBSET Pair /\ \A p \in P : IsPair(rows, mark, cycle.upto, p)
  BY <1>1, <1>3, <1>4 DEF Batch
<1>7. Rehearsed(Cardinality(P)) \in 0 .. Golden
  BY <1>1, <1>6, PairsAreFew, RehearsedType
<1>8. /\ cycle' \in Cycles /\ cycle'.pc = "training" /\ cycle'.upto = cycle.upto
      /\ cycle'.pairs = P
  BY <1>1, <1>2, <1>6, <1>7 DEF Cycles
<1>9. CycleInv(curator, rows, mark, cycle')
  BY <1>5, <1>8 DEF CycleInv
<1>10. TypeOK'
  BY <1>2, <1>8 DEF IndInv, TypeOK, Cycles
<1>. QED  BY <1>2, <1>9, <1>10 DEF IndInv

\* The rows that the cycle fetched are behind the new watermark, and no others.
LEMMA DeployStep == ASSUME IndInv, Deploy
                    PROVE  IndInv'
<1>. DEFINE x == [after |-> mark, upto |-> mark', pairs |-> cycle.pairs]
            n == Len(deployed) + 1
<1>1. /\ rows \in Seq(Row) /\ Len(rows) \in Nat /\ mark \in 0 .. Len(rows) /\ cycle \in Cycles
      /\ deployed \in Seq(Deployments(rows)) /\ DeployedInv(curator, rows, mark, deployed)
      /\ cycle.pairs \in SUBSET Pair /\ cycle.upto \in 0 .. Len(rows) /\ mark \in Nat
  BY DEF IndInv, TypeOK, Cycles, Deployments
<1>2. /\ cycle.pc = "training" /\ mark' = cycle.upto /\ deployed' = Append(deployed, x)
      /\ cycle' = Idle /\ UNCHANGED <<curator, stage, rows>>
  BY DEF Deploy
<1>3. Batch(curator, rows, mark, mark', cycle.pairs, TRUE) /\ mark <= mark'
  BY <1>2 DEF IndInv, CycleInv, Batch
<1>4. /\ x \in Deployments(rows) /\ x.after = mark /\ x.upto = mark' /\ x.pairs = cycle.pairs
  BY <1>1, <1>2 DEF Deployments
<1>. HIDE DEF x
<1>5. /\ deployed' \in Seq(Deployments(rows)) /\ n \in Nat
      /\ DOMAIN deployed' = DOMAIN deployed \cup {n}
      /\ deployed'[n] = x /\ \A d \in DOMAIN deployed : deployed'[d] = deployed[d] /\ d < n
      /\ \A d \in DOMAIN deployed : d \in Nat
  BY <1>1, <1>2, <1>4
<1>6. \A d \in DOMAIN deployed :
         /\ deployed[d].after \in Nat /\ deployed[d].upto \in Nat /\ deployed[d].upto <= mark
  <2>. SUFFICES ASSUME NEW d \in DOMAIN deployed
                PROVE  /\ deployed[d].after \in Nat /\ deployed[d].upto \in Nat
                       /\ deployed[d].upto <= mark
    OBVIOUS
  <2>1. deployed[d].after \in Nat /\ deployed[d].upto \in 0 .. Len(rows)
    BY DeployedFacts
  <2>2. deployed[d].upto <= mark
    BY <1>1 DEF DeployedInv
  <2>. QED  BY <1>1, <2>1, <2>2
<1>. HIDE DEF n
<1>7. DeployedInv(curator, rows, mark', deployed')
  <2>1. ASSUME NEW d \in DOMAIN deployed
        PROVE  /\ deployed'[d].upto <= mark'
               /\ Batch(curator, rows, deployed'[d].after, deployed'[d].upto,
                        deployed'[d].pairs, TRUE)
               /\ \/ deployed'[d].after = 0
                  \/ \E c \in DOMAIN deployed' : deployed'[c].upto = deployed'[d].after
               /\ \A c \in DOMAIN deployed' : c < d => deployed'[c].upto <= deployed'[d].after
    <3>1. deployed'[d] = deployed[d] /\ d < n /\ d \in Nat
      BY <1>5
    <3>2. deployed'[d].upto <= mark'
      BY <1>1, <1>2, <1>3, <1>6, <3>1
    <3>3. Batch(curator, rows, deployed'[d].after, deployed'[d].upto, deployed'[d].pairs, TRUE)
      BY <3>1, DeployedFacts
    <3>4. \/ deployed'[d].after = 0
          \/ \E c \in DOMAIN deployed' : deployed'[c].upto = deployed'[d].after
      BY <1>1, <1>5, <3>1 DEF DeployedInv
    <3>5. \A c \in DOMAIN deployed' : c < d => deployed'[c].upto <= deployed'[d].after
      <4>1. \A c \in DOMAIN deployed : c < d => deployed[c].upto <= deployed[d].after
        BY DeployedFacts
      <4>2. n \in Nat /\ ~(n < d)
        BY <1>5, <3>1
      <4>. QED  BY <1>5, <3>1, <4>1, <4>2
    <3>. QED  BY <3>2, <3>3, <3>4, <3>5
  <2>2. /\ x.upto <= mark' /\ Batch(curator, rows, x.after, x.upto, x.pairs, TRUE)
        /\ x.after = 0 \/ \E c \in DOMAIN deployed' : deployed'[c].upto = x.after
        /\ \A c \in DOMAIN deployed' : c < n => deployed'[c].upto <= x.after
    <3>1. x.upto <= mark'
      BY <1>1, <1>2, <1>4
    <3>2. x.after = 0 \/ \E c \in DOMAIN deployed' : deployed'[c].upto = x.after
      BY <1>1, <1>4, <1>5 DEF DeployedInv
    <3>3. \A c \in DOMAIN deployed' : c < n => deployed'[c].upto <= x.after
      BY <1>4, <1>5, <1>6
    <3>. QED  BY <1>3, <1>4, <3>1, <3>2, <3>3
  <2>3. \E c \in DOMAIN deployed' : deployed'[c].upto = mark'
    BY <1>4, <1>5
  <2>4. ASSUME NEW k \in 1 .. mark'
        PROVE  \E d \in DOMAIN deployed' : k \in deployed'[d].after + 1 .. deployed'[d].upto
    <3>1. CASE k \in 1 .. mark
      <4>1. PICK d \in DOMAIN deployed : k \in deployed[d].after + 1 .. deployed[d].upto
        BY <1>1, <3>1 DEF DeployedInv
      <4>. QED  BY <1>5, <4>1
    <3>2. CASE k \notin 1 .. mark
      <4>1. k \in x.after + 1 .. x.upto
        BY <1>1, <1>2, <1>4, <3>2
      <4>. QED  BY <1>5, <4>1
    <3>. QED  BY <3>1, <3>2
  <2>5. \A d \in DOMAIN deployed' :
           /\ deployed'[d].upto <= mark'
           /\ Batch(curator, rows, deployed'[d].after, deployed'[d].upto, deployed'[d].pairs, TRUE)
           /\ \/ deployed'[d].after = 0
              \/ \E c \in DOMAIN deployed' : deployed'[c].upto = deployed'[d].after
           /\ \A c \in DOMAIN deployed' : c < d => deployed'[c].upto <= deployed'[d].after
    BY <1>5, <2>1, <2>2
  <2>. QED  BY <2>3, <2>4, <2>5 DEF DeployedInv
<1>8. Idle \in Cycles /\ Idle.pc = "idle"
  BY <1>1, PairsAssumption DEF Idle, Cycles
<1>9. CycleInv(curator, rows, mark', cycle')
  BY <1>2, <1>8 DEF CycleInv
<1>10. TypeOK'
  BY <1>1, <1>2, <1>5, <1>8 DEF IndInv, TypeOK, Cycles, Deployments
<1>. QED  BY <1>2, <1>7, <1>9, <1>10 DEF IndInv

-----------------------------------------------------------------------------
(* Theorems                                                                *)

LEMMA IndInvInit == Init => IndInv
<1>. SUFFICES ASSUME Init
              PROVE  IndInv
  OBVIOUS
<1>1. /\ curator \in BOOLEAN /\ stage = [e \in Exchanges |-> None] /\ rows = <<>>
      /\ mark = 0 /\ cycle = Idle /\ deployed = <<>>
  BY DEF Init
<1>2. Len(rows) = 0 /\ 1 .. Len(rows) = {} /\ 1 .. mark = {} /\ DOMAIN deployed = {}
  BY <1>1
<1>3. TypeOK
  BY <1>1, <1>2, PairsAssumption DEF TypeOK, Idle
<1>4. RowsInv(stage, rows)
  BY <1>1, <1>2, NamesAssumption DEF RowsInv
<1>5. CycleInv(curator, rows, mark, cycle)
  BY <1>1 DEF CycleInv, Idle
<1>6. DeployedInv(curator, rows, mark, deployed)
  BY <1>1, <1>2 DEF DeployedInv
<1>. QED  BY <1>3, <1>4, <1>5, <1>6 DEF IndInv

LEMMA IndInvStep == IndInv /\ [Next]_vars => IndInv'
<1>. SUFFICES ASSUME IndInv, [Next]_vars
              PROVE  IndInv'
  OBVIOUS
<1>1. CASE \E e \in Exchanges : \/ \E s \in Sessions : Ask(e, s)
                                \/ UseTool(e) \/ Fail(e)
                                \/ \E feedback \in Feedback : Answer(e, feedback)
  BY <1>1, AskStep, UseToolStep, FailStep, AnswerStep
<1>2. ASSUME NEW good \in SUBSET Silent(cycle.pairs), Skip(good) \/ Train(good)
      PROVE  IndInv'
  <2>1. CASE Skip(good)
    BY <2>1, IdleStep DEF Skip
  <2>2. CASE Train(good)
    BY <2>2, TrainStep
  <2>. QED  BY <1>2, <2>1, <2>2
<1>3. CASE Begin
  BY <1>3, BeginStep
<1>4. CASE Deploy
  BY <1>4, DeployStep
<1>5. CASE Abandon
  BY <1>5, IdleStep DEF Abandon
<1>6. CASE UNCHANGED vars
  BY <1>6 DEF vars, IndInv, TypeOK
<1>. QED  BY <1>1, <1>2, <1>3, <1>4, <1>5, <1>6 DEF Next

\* The inductive invariant holds in every reachable state.
THEOREM IndInvAlways == Spec => []IndInv
<1>. QED  BY IndInvInit, IndInvStep, PTL DEF Spec

\* Types; among them, that mix never samples more golden pairs than there are.
THEOREM TypeCorrect == Spec => []TypeOK
<1>1. IndInv => TypeOK
  BY DEF IndInv
<1>. QED  BY <1>1, IndInvAlways, PTL

\* An adapter is trained on what was said: the pair of an exchange that ran
\* alone is its message, all its tool outputs and its reply.
THEOREM PairsAreExactAlways == Spec => []PairsAreExact
<1>. QED  BY ExactnessFromInv, IndInvAlways, PTL

\* Whatever cycles are skipped, rejected or repeated, nothing that was said is
\* trained on twice.
THEOREM SaidOnceTrainedOnceAlways == Spec => []SaidOnceTrainedOnce
<1>. QED  BY OnceFromInv, IndInvAlways, PTL

\* Behind a curator no rejected reply reaches an adapter.
THEOREM RejectedIsNotTrainedAlways == Spec => []RejectedIsNotTrained
<1>. QED  BY RejectionFromInv, IndInvAlways, PTL

\* A deployed cycle consumes an exchange whole, or a watermark fell inside it.
THEOREM ApprovedIsTrainedAlways == Spec => []ApprovedIsTrained
<1>. QED  BY ApprovalFromInv, IndInvAlways, PTL
=============================================================================
