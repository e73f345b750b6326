------------------------ MODULE HistoryEvidenceProofs ------------------------
(***************************************************************************)
(* For any log and any number of passes: what source_redundancy retires,   *)
(* no slot, basis or horizon misses; an accepted pass shows what the       *)
(* provider returned; and a closed day ends with one winner.               *)
(***************************************************************************)
EXTENDS HistoryEvidence, WellFoundedInduction, FiniteSetTheorems, SequenceTheorems, TLAPS

(***************************************************************************)
(* Sets of naturals: least and greatest elements, and induction in a       *)
(* first-order form, in which the set of numbers for which a fact holds is *)
(* all of Nat.                                                             *)
(***************************************************************************)
\* Every nonempty set of naturals has a least element.
LEMMA NatSetMinimum ==
  ASSUME NEW S \in SUBSET Nat, S # {}
  PROVE  \E x \in S : \A y \in S : x <= y
  <1> DEFINE Less == OpToRel(<, Nat)
  <1>1. \A x, y \in Nat : y < x => <<y, x>> \in Less
    BY DEF OpToRel
  <1>2. IsWellFoundedOn(Less, Nat)
    BY NatLessThanWellFounded
  <1> HIDE DEF Less
  <1>3. PICK x \in S : \A y \in S : <<y, x>> \notin Less
    BY <1>2, WFMin
  <1>4. \A y \in S : ~(y < x)
    BY <1>1, <1>3
  <1> QED BY <1>4

\* A nonempty bounded set of naturals has a greatest element.
LEMMA NatSetMaximum ==
  ASSUME NEW S \in SUBSET Nat, S # {}, NEW n \in Nat, \A x \in S : x <= n
  PROVE  \E x \in S : \A y \in S : y <= x
  <1> DEFINE T == {n - x : x \in S}
  <1>1. T \in SUBSET Nat /\ T # {}
    <2>1. \A x \in S : n - x \in Nat
      OBVIOUS
    <2>2. \E x \in S : n - x \in T
      OBVIOUS
    <2> QED BY <2>1, <2>2
  <1>2. PICK t \in T : \A u \in T : t <= u
    BY <1>1, NatSetMinimum
  <1>3. PICK x \in S : t = n - x
    BY <1>2
  <1>4. \A y \in S : n - x <= n - y
    BY <1>2, <1>3
  <1> QED BY <1>4

\* A set that holds 0, and with each number the next, holds every number.
LEMMA NatSetInduction ==
  ASSUME NEW S \in SUBSET Nat, 0 \in S, \A n \in S : n + 1 \in S
  PROVE  S = Nat
  <1> SUFFICES ASSUME Nat \ S # {} PROVE FALSE
    OBVIOUS
  <1>1. PICK x \in Nat \ S : \A y \in Nat \ S : x <= y
    BY NatSetMinimum
  <1>2. x # 0 /\ x - 1 \in Nat /\ x - 1 < x
    BY <1>1
  <1>3. x - 1 \in S /\ (x - 1) + 1 \in S
    BY <1>1, <1>2
  <1> QED BY <1>1, <1>2, <1>3

\* Newer acquisitions supersede older ones only.
Acyclic(anc, ids) == \A i, j \in ids : j \in anc[i] => j < i

\* ids names some of the first n acquisitions of a log, and they end by stop.
Named(ids, n) == ids \in SUBSET (1..n)
Ends(acq, ids, n, stop) == Named(ids, n) /\ \A i \in ids : acq[i].end \in 0..stop

\* kept has all that the slots of ids need.
Serves(acq, ids, rel, kept) ==
  /\ kept \in SUBSET ids
  /\ \A s \in DOMAIN acq[1].pts :
        /\ Having(acq, ids, "archive", s) \subseteq kept
        /\ NeededAt(acq, ids, Ancestors(rel), s) \subseteq kept

\* A relation of the first n acquisitions in which each supersedes earlier ones.
Lineage(rel, n) ==
  rel \in Seq(SUBSET Nat) /\ Len(rel) = n /\ \A i \in 1..n : rel[i] \subseteq 1..(i - 1)

(***************************************************************************)
(* The supersession relation                                               *)
(***************************************************************************)
\* Ancestors is defined for every lineage, and is its transitive closure.
LEMMA AncestorsOf ==
  ASSUME NEW n \in Nat, NEW rel, Lineage(rel, n)
  PROVE  \A i \in 1..n :
           /\ Ancestors(rel)[i] = rel[i] \cup UNION {Ancestors(rel)[j] : j \in rel[i]}
           /\ Ancestors(rel)[i] \subseteq 1..(i - 1)
  <1> DEFINE Longer(anc, k) == Append(anc, rel[k] \cup UNION {anc[j] : j \in rel[k]})
             IsUpTo(f, m) == f = [k \in 0..m |-> IF k = 0 THEN <<>> ELSE Longer(f[k - 1], k)]
             Defined == {m \in Nat : \E f : IsUpTo(f, m)}
  <1>1. Len(rel) = n /\ \A i \in 1..n : rel[i] \subseteq 1..(i - 1)
    BY DEF Lineage
  <1>2. 0 \in Defined
    <2>1. IsUpTo([k \in 0..0 |-> <<>>], 0)
      OBVIOUS
    <2> QED BY <2>1
  <1>3. ASSUME NEW m \in Defined PROVE m + 1 \in Defined
    <2>1. PICK f : IsUpTo(f, m)
      BY <1>3
    <2> DEFINE g == [k \in 0..(m + 1) |-> IF k = m + 1 THEN Longer(f[m], m + 1) ELSE f[k]]
    <2>2. m \in Nat
      BY <1>3
    <2> HIDE DEF Longer
    <2>3. \A k \in 0..m : f[k] = IF k = 0 THEN <<>> ELSE Longer(f[k - 1], k)
      BY <2>1
    <2>4. \A k \in 0..(m + 1) : g[k] = IF k = m + 1 THEN Longer(f[m], m + 1) ELSE f[k]
      OBVIOUS
    <2>5. ASSUME NEW k \in 0..(m + 1)
          PROVE  g[k] = IF k = 0 THEN <<>> ELSE Longer(g[k - 1], k)
      <3> HIDE DEF g
      <3>1. CASE k = m + 1
        <4>1. k # 0 /\ k - 1 = m /\ m \in 0..(m + 1) /\ m # m + 1
          BY <2>2, <3>1
        <4> QED BY <2>4, <3>1, <4>1
      <3>2. CASE k # m + 1
        <4>1. k \in 0..m /\ (k # 0 => k - 1 \in 0..(m + 1) /\ k - 1 # m + 1)
          BY <2>2, <3>2
        <4>2. g[k] = f[k] /\ (k # 0 => g[k - 1] = f[k - 1])
          BY <2>4, <3>2, <4>1
        <4> QED BY <2>3, <4>1, <4>2
      <3> QED BY <3>1, <3>2
    <2>6. IsUpTo(g, m + 1)
      BY <2>5
    <2> HIDE DEF g, IsUpTo
    <2> QED BY <2>2, <2>6
  <1>4. Defined = Nat
    <2> HIDE DEF IsUpTo
    <2>1. Defined \in SUBSET Nat
      OBVIOUS
    <2> HIDE DEF Defined
    <2> QED BY <1>2, <1>3, <2>1, NatSetInduction
  <1>5. \E f : IsUpTo(f, n)
    <2> HIDE DEF IsUpTo
    <2> QED BY <1>4
  <1> DEFINE up == CHOOSE f : IsUpTo(f, n)
  <1>6. IsUpTo(up, n)
    <2> HIDE DEF IsUpTo
    <2> QED BY <1>5
  <1>7. Ancestors(rel) = up[n]
    BY <1>1 DEF Ancestors
  <1> HIDE DEF up
  <1>8. up[0] = <<>> /\ \A k \in 1..n : up[k] = Longer(up[k - 1], k)
    <2> HIDE DEF Longer
    <2> QED BY <1>6
  \* Each prefix goes on the one before.
  <1> DEFINE Good(k) == /\ up[k] \in Seq(SUBSET Nat) /\ Len(up[k]) = k
                        /\ \A i \in 1..k : /\ up[k][i] = up[i][i]
                                           /\ up[i][i] \subseteq 1..(i - 1)
             Goods == {k \in Nat : k <= n => Good(k)}
  <1>9. 0 \in Goods
    <2>1. up[0] = <<>>
      BY <1>8
    <2>2. Good(0)
      <3> HIDE DEF Longer, IsUpTo
      <3>1. <<>> \in Seq(SUBSET Nat) /\ Len(<<>>) = 0
        OBVIOUS
      <3> QED BY <2>1, <3>1
    <2> HIDE DEF Good
    <2> QED BY <2>2
  <1>10. ASSUME NEW k \in Goods PROVE k + 1 \in Goods
    <2> SUFFICES ASSUME k + 1 <= n PROVE Good(k + 1)
      BY <1>10
    <2>1. k \in Nat /\ k <= n /\ k + 1 \in 1..n /\ (k + 1) - 1 = k
      BY <1>10
    <2>2. Good(k)
      BY <1>10, <2>1
    <2> DEFINE new == rel[k + 1] \cup UNION {up[k][j] : j \in rel[k + 1]}
    <2>3. up[k + 1] = Append(up[k], new)
      <3> HIDE DEF Good, Goods, IsUpTo, new
      <3>1. up[k + 1] = Longer(up[k], k + 1)
        <4> HIDE DEF Longer
        <4> QED BY <1>8, <2>1
      <3> QED BY <3>1 DEF new
    <2>4. rel[k + 1] \subseteq 1..k
      BY <1>1, <2>1
    <2>5. \A j \in rel[k + 1] : up[k][j] \subseteq 1..k
      <3>1. ASSUME NEW j \in rel[k + 1] PROVE up[k][j] \subseteq 1..k
        <4>1. j \in 1..k /\ up[k][j] \subseteq 1..(j - 1)
          BY <2>2, <2>4
        <4>2. 1..(j - 1) \subseteq 1..k
          BY <2>1, <4>1
        <4> QED BY <4>1, <4>2
      <3> QED BY <3>1
    <2>6. new \subseteq 1..k /\ new \in SUBSET Nat
      BY <2>1, <2>4, <2>5
    <2> HIDE DEF new
    <2>7. /\ up[k + 1] \in Seq(SUBSET Nat) /\ Len(up[k + 1]) = k + 1
          /\ up[k + 1][k + 1] = new
          /\ \A i \in 1..k : up[k + 1][i] = up[k][i]
      BY <2>1, <2>2, <2>3, <2>6, AppendProperties
    <2>8. ASSUME NEW i \in 1..(k + 1)
          PROVE  up[k + 1][i] = up[i][i] /\ up[i][i] \subseteq 1..(i - 1)
      <3>1. CASE i = k + 1
        BY <2>1, <2>6, <2>7, <3>1
      <3>2. CASE i # k + 1
        <4>1. i \in 1..k
          BY <2>1, <3>2
        <4> QED BY <2>2, <2>7, <4>1
      <3> QED BY <3>1, <3>2
    <2> QED BY <2>7, <2>8
  <1>11. Goods = Nat
    <2> HIDE DEF Good
    <2>1. Goods \in SUBSET Nat
      OBVIOUS
    <2> HIDE DEF Goods
    <2> QED BY <1>9, <1>10, <2>1, NatSetInduction
  <1>12. \A k \in 0..n : Good(k)
    <2> HIDE DEF Good
    <2> QED BY <1>11
  <1>13. ASSUME NEW i \in 1..n
         PROVE  /\ up[n][i] = rel[i] \cup UNION {up[n][j] : j \in rel[i]}
                /\ up[n][i] \subseteq 1..(i - 1)
    <2>1. i \in 0..n /\ i - 1 \in 0..n /\ n \in 0..n /\ i \in 1..i
      OBVIOUS
    <2>2. /\ up[n][i] = up[i][i] /\ up[i][i] \subseteq 1..(i - 1)
          /\ up[i - 1] \in Seq(SUBSET Nat) /\ Len(up[i - 1]) = i - 1
      BY <1>12, <2>1
    <2>3. up[i] = Longer(up[i - 1], i)
      BY <1>8
    <2>4. up[i][i] = rel[i] \cup UNION {up[i - 1][j] : j \in rel[i]}
      <3> DEFINE new == rel[i] \cup UNION {up[i - 1][j] : j \in rel[i]}
      <3>1. up[i] = Append(up[i - 1], new)
        BY <2>3
      <3>2. Append(up[i - 1], new)[Len(up[i - 1]) + 1] = new
        <4> HIDE DEF new
        <4> DEFINE q == up[i - 1]
        <4>1. Append(q, new) = [k \in 1..(Len(q) + 1) |-> IF k <= Len(q) THEN q[k] ELSE new]
          BY <2>2 DEF Append
        <4>2. Len(q) + 1 \in 1..(Len(q) + 1) /\ ~(Len(q) + 1 <= Len(q))
          BY <2>2
        <4> HIDE DEF q
        <4>3. Append(q, new)[Len(q) + 1] = new
          BY <4>1, <4>2
        <4> QED BY <4>3 DEF q
      <3>3. Len(up[i - 1]) + 1 = i
        BY <2>2
      <3> QED BY <3>1, <3>2, <3>3
    <2>5. ASSUME NEW j \in rel[i] PROVE up[i - 1][j] = up[n][j]
      <3>1. j \in 1..(i - 1) /\ j \in 1..n
        BY <1>1
      <3> QED BY <1>12, <2>1, <3>1
    <2> QED BY <2>2, <2>4, <2>5
  <1> QED BY <1>7, <1>13

\* No other relation is closed along the same edges.
Closes(f, rel, n) == \A i \in 1..n : f[i] = rel[i] \cup UNION {f[j] : j \in rel[i]}

LEMMA AncestorsUnique ==
  ASSUME NEW n \in Nat, NEW rel, Lineage(rel, n), NEW f, Closes(f, rel, n)
  PROVE  \A i \in 1..n : Ancestors(rel)[i] = f[i]
  <1> DEFINE anc == Ancestors(rel)
             Bad == {i \in 1..n : anc[i] # f[i]}
  <1>1. \A i \in 1..n : anc[i] = rel[i] \cup UNION {anc[j] : j \in rel[i]}
    BY AncestorsOf
  <1>2. \A i \in 1..n : rel[i] \subseteq 1..(i - 1)
    BY DEF Lineage
  <1> HIDE DEF anc
  <1> SUFFICES ASSUME Bad # {} PROVE FALSE
    BY DEF anc
  <1>3. PICK i \in Bad : \A k \in Bad : i <= k
    <2>1. Bad \in SUBSET Nat
      OBVIOUS
    <2> HIDE DEF Bad
    <2> QED BY <2>1, NatSetMinimum
  <1>4. ASSUME NEW j \in rel[i] PROVE anc[j] = f[j]
    <2>1. j \in 1..n /\ j < i
      BY <1>2
    <2> QED BY <1>3, <2>1
  <1>5. anc[i] = f[i]
    <2>1. UNION {anc[j] : j \in rel[i]} = UNION {f[j] : j \in rel[i]}
      BY <1>4
    <2> QED BY <1>1, <2>1 DEF Closes
  <1> QED BY <1>5

LEMMA AncestorsTransitive ==
  ASSUME NEW n \in Nat, NEW rel, Lineage(rel, n)
  PROVE  \A i \in 1..n : \A j \in Ancestors(rel)[i] : Ancestors(rel)[j] \subseteq Ancestors(rel)[i]
  <1> DEFINE anc == Ancestors(rel)
             Bad == {i \in 1..n : \E j \in anc[i] : ~(anc[j] \subseteq anc[i])}
  <1>1. \A i \in 1..n : /\ anc[i] = rel[i] \cup UNION {anc[j] : j \in rel[i]}
                        /\ anc[i] \subseteq 1..(i - 1)
    BY AncestorsOf
  <1>2. \A i \in 1..n : rel[i] \subseteq 1..(i - 1)
    BY DEF Lineage
  <1> HIDE DEF anc
  <1> SUFFICES ASSUME Bad # {} PROVE FALSE
    BY DEF anc
  <1>3. PICK i \in Bad : \A k \in Bad : i <= k
    <2>1. Bad \in SUBSET Nat
      OBVIOUS
    <2> HIDE DEF Bad
    <2> QED BY <2>1, NatSetMinimum
  <1>4. ASSUME NEW j \in anc[i] PROVE anc[j] \subseteq anc[i]
    <2>1. CASE j \in rel[i]
      BY <1>1, <2>1
    <2>2. CASE \E k \in rel[i] : j \in anc[k]
      <3>1. PICK k \in rel[i] : j \in anc[k]
        BY <2>2
      <3>2. k \in 1..n /\ k < i
        BY <1>2
      <3>3. k \notin Bad
        BY <1>3, <3>2
      <3>4. anc[j] \subseteq anc[k]
        BY <3>1, <3>2, <3>3
      <3>5. anc[k] \subseteq anc[i]
        BY <1>1
      <3> QED BY <3>4, <3>5
    <2> QED BY <1>1, <2>1, <2>2
  <1> QED BY <1>4

\* What Nearest leaves out is an ancestor of what it keeps.
LEMMA NearestReaches ==
  ASSUME NEW n \in Nat, NEW rel, Lineage(rel, n), NEW preds \in SUBSET (1..n)
  PROVE  /\ Nearest(rel, preds) \subseteq preds
         /\ \A p \in preds : \/ p \in Nearest(rel, preds)
                             \/ \E q \in Nearest(rel, preds) : p \in Ancestors(rel)[q]
  <1> DEFINE anc == Ancestors(rel)
             near == Nearest(rel, preds)
  <1>1. near = preds \ UNION {anc[p] : p \in preds}
    BY DEF Nearest
  <1>2. \A i \in 1..n : anc[i] \subseteq 1..(i - 1)
    BY AncestorsOf
  <1>3. \A i \in 1..n : \A j \in anc[i] : anc[j] \subseteq anc[i]
    BY AncestorsTransitive
  <1> HIDE DEF anc, near
  <1>4. ASSUME NEW p \in preds, p \notin near PROVE \E q \in near : p \in anc[q]
    <2> DEFINE above == {q \in preds : p \in anc[q]}
    <2>1. above # {}
      BY <1>1, <1>4
    <2>2. above \in SUBSET Nat /\ \A x \in above : x <= n
      <3>1. \A x \in preds : x \in Nat /\ x <= n
        OBVIOUS
      <3> QED BY <3>1
    <2>3. PICK q \in above : \A r \in above : r <= q
      <3> HIDE DEF above
      <3> QED BY <2>1, <2>2, NatSetMaximum
    <2>4. ASSUME NEW r \in preds, q \in anc[r] PROVE FALSE
      <3>1. p \in anc[r]
        BY <1>3, <2>4
      <3>2. r <= q /\ q < r /\ q \in 1..n /\ r \in 1..n
        BY <1>2, <2>3, <2>4, <3>1
      <3> QED BY <3>2
    <2>5. q \in near
      BY <1>1, <2>4
    <2> QED BY <2>5
  <1> QED BY <1>1, <1>4 DEF anc, near

\* Naming only the nearest predecessors loses no ancestor.
LEMMA NearestKeeps ==
  ASSUME NEW n \in Nat, NEW rel, Lineage(rel, n),
         NEW near, near = [i \in 1..n |-> Nearest(rel, rel[i])]
  PROVE  Lineage(near, n) /\ \A i \in 1..n : Ancestors(near)[i] = Ancestors(rel)[i]
  <1> DEFINE anc == Ancestors(rel)
  <1>1. \A i \in 1..n : rel[i] \subseteq 1..(i - 1) /\ rel[i] \in SUBSET (1..n)
    <2>1. \A i \in 1..n : rel[i] \subseteq 1..(i - 1) /\ 1..(i - 1) \subseteq 1..n
      BY DEF Lineage
    <2> QED BY <2>1
  <1>2. \A i \in 1..n :
          /\ near[i] \subseteq rel[i]
          /\ \A p \in rel[i] : p \in near[i] \/ \E q \in near[i] : p \in anc[q]
    BY <1>1, NearestReaches
  <1>3. \A i \in 1..n : anc[i] = rel[i] \cup UNION {anc[j] : j \in rel[i]}
    BY AncestorsOf
  <1>4. \A i \in 1..n : \A j \in anc[i] : anc[j] \subseteq anc[i]
    BY AncestorsTransitive
  <1>5. Lineage(near, n)
    <2>1. \A i \in 1..n : near[i] \subseteq 1..(i - 1) /\ near[i] \in SUBSET Nat
      BY <1>1, <1>2
    <2>2. near \in [1..n -> SUBSET Nat]
      BY <2>1
    <2>3. near \in Seq(SUBSET Nat) /\ Len(near) = n
      BY <2>2
    <2> QED BY <2>1, <2>3 DEF Lineage
  <1> HIDE DEF anc
  <1>6. ASSUME NEW i \in 1..n PROVE anc[i] = near[i] \cup UNION {anc[j] : j \in near[i]}
    <2>1. ASSUME NEW k \in anc[i] PROVE k \in near[i] \/ \E q \in near[i] : k \in anc[q]
      <3>1. CASE k \in rel[i]
        BY <1>2, <3>1
      <3>2. CASE \E p \in rel[i] : k \in anc[p]
        <4>1. PICK p \in rel[i] : k \in anc[p]
          BY <3>2
        <4>2. CASE p \in near[i]
          BY <4>1, <4>2
        <4>3. CASE \E q \in near[i] : p \in anc[q]
          <5>1. PICK q \in near[i] : p \in anc[q]
            BY <4>3
          <5>2. q \in 1..n
            BY <1>1, <1>2
          <5> QED BY <1>4, <4>1, <5>1, <5>2
        <4> QED BY <1>2, <4>2, <4>3
      <3> QED BY <1>3, <3>1, <3>2
    <2>2. near[i] \cup UNION {anc[j] : j \in near[i]} \subseteq anc[i]
      BY <1>2, <1>3
    <2> QED BY <2>1, <2>2
  <1>7. \A i \in 1..n : Ancestors(near)[i] = anc[i]
    <2>1. Closes(anc, near, n)
      BY <1>6 DEF Closes
    <2> QED BY <1>5, <2>1, AncestorsUnique
  <1> QED BY <1>5, <1>7 DEF anc

\* Joined passes on what the retired superseded, and names none of them.
IsJoined(joined, rel, n, retired) ==
  /\ Lineage(joined, n)
  /\ Contracted(rel, retired) = [i \in 1..n |-> Nearest(joined, joined[i])]
  /\ \A i \in 1..n :
       Ancestors(joined)[i] = IF i \in retired THEN {} ELSE Ancestors(rel)[i] \ retired

\* Contraction is defined for every lineage.
LEMMA ContractedLineage ==
  ASSUME NEW n \in Nat, NEW rel, Lineage(rel, n), NEW retired
  PROVE  \E joined : IsJoined(joined, rel, n, retired)
  <1> DEFINE Past(f, i) == (rel[i] \ retired) \cup UNION {f[j] : j \in rel[i] \cap retired}
             IsThrough(f, m) == f = [i \in 1..m |-> Past(f, i)]
             Defined == {m \in Nat : m <= n => \E f : IsThrough(f, m)}
  <1>1. /\ rel \in Seq(SUBSET Nat) /\ Len(rel) = n /\ DOMAIN rel = 1..n
        /\ \A i \in 1..n : rel[i] \subseteq 1..(i - 1)
    BY DEF Lineage
  <1>2. 0 \in Defined
    <2>1. IsThrough([i \in 1..0 |-> {}], 0)
      OBVIOUS
    <2> QED BY <2>1
  <1>3. ASSUME NEW m \in Defined PROVE m + 1 \in Defined
    <2> SUFFICES ASSUME m + 1 <= n PROVE \E f : IsThrough(f, m + 1)
      BY <1>3
    <2>1. m \in Nat /\ m <= n
      BY <1>3
    <2>2. PICK f : IsThrough(f, m)
      BY <1>3, <2>1
    <2> DEFINE g == [i \in 1..(m + 1) |-> IF i = m + 1 THEN Past(f, m + 1) ELSE f[i]]
    <2> HIDE DEF Past
    <2>3. \A i \in 1..m : f[i] = Past(f, i)
      BY <2>2
    <2>4. \A i \in 1..(m + 1) : g[i] = IF i = m + 1 THEN Past(f, m + 1) ELSE f[i]
      OBVIOUS
    <2>5. ASSUME NEW i \in 1..(m + 1) PROVE Past(g, i) = Past(f, i)
      <3> HIDE DEF g
      <3>1. ASSUME NEW j \in rel[i] PROVE g[j] = f[j]
        <4>1. i \in 1..n /\ j \in 1..(i - 1)
          BY <1>1, <2>1
        <4>2. j \in 1..(m + 1) /\ j # m + 1
          BY <2>1, <4>1
        <4> QED BY <2>4, <4>2
      <3>2. UNION {g[j] : j \in rel[i] \cap retired} = UNION {f[j] : j \in rel[i] \cap retired}
        BY <3>1
      <3> QED BY <3>2 DEF Past
    <2>6. ASSUME NEW i \in 1..(m + 1) PROVE g[i] = Past(g, i)
      <3> HIDE DEF g
      <3>1. CASE i = m + 1
        BY <2>4, <2>5, <3>1
      <3>2. CASE i # m + 1
        <4>1. i \in 1..m
          BY <2>1, <3>2
        <4> QED BY <2>3, <2>4, <2>5, <3>2, <4>1
      <3> QED BY <3>1, <3>2
    <2>7. IsThrough(g, m + 1)
      BY <2>6
    <2> HIDE DEF g, IsThrough
    <2> QED BY <2>7
  <1>4. Defined = Nat
    <2> HIDE DEF IsThrough
    <2>1. Defined \in SUBSET Nat
      OBVIOUS
    <2> HIDE DEF Defined
    <2> QED BY <1>2, <1>3, <2>1, NatSetInduction
  <1>5. \E f : IsThrough(f, n)
    <2> HIDE DEF IsThrough
    <2> QED BY <1>4
  <1> DEFINE through == CHOOSE f : IsThrough(f, n)
             joined == [i \in 1..n |-> IF i \in retired THEN {} ELSE through[i]]
  <1>6. IsThrough(through, n)
    <2> HIDE DEF IsThrough
    <2> QED BY <1>5
  <1>7. Contracted(rel, retired) = [i \in 1..n |-> Nearest(joined, joined[i])]
    BY <1>1 DEF Contracted
  <1> HIDE DEF through
  <1>8. \A i \in 1..n : through[i] = Past(through, i)
    <2> HIDE DEF Past
    <2> QED BY <1>6
  <1> DEFINE anc == Ancestors(rel)
             Left(i) == anc[i] \ retired
             Good(i) == /\ through[i] \subseteq 1..(i - 1) /\ through[i] \cap retired = {}
                        /\ Left(i) = through[i] \cup UNION {Left(j) : j \in through[i]}
             Bad == {i \in 1..n : ~Good(i)}
  <1>9. \A i \in 1..n : anc[i] = rel[i] \cup UNION {anc[j] : j \in rel[i]}
    BY AncestorsOf
  <1> HIDE DEF anc, IsThrough, Past, joined
  <1>10. \A i \in 1..n : Good(i)
    <2> SUFFICES ASSUME Bad # {} PROVE FALSE
      OBVIOUS
    <2>1. PICK i \in Bad : \A k \in Bad : i <= k
      <3>1. Bad \in SUBSET Nat
        OBVIOUS
      <3> HIDE DEF Bad
      <3> QED BY <3>1, NatSetMinimum
    <2>2. ASSUME NEW j \in rel[i] PROVE j \in 1..(i - 1) /\ 1..(j - 1) \subseteq 1..(i - 1) /\ Good(j)
      <3>1. j \in 1..(i - 1) /\ j \in 1..n /\ ~(i <= j) /\ i \in 1..n
        BY <1>1
      <3>2. 1..(j - 1) \subseteq 1..(i - 1)
        BY <3>1
      <3> QED BY <2>1, <3>1, <3>2
    <2>3. through[i] = (rel[i] \ retired) \cup UNION {through[j] : j \in rel[i] \cap retired}
      BY <1>8 DEF Past
    <2>4. through[i] \subseteq 1..(i - 1) /\ through[i] \cap retired = {}
      BY <2>2, <2>3
    <2>5. Left(i) = (rel[i] \ retired) \cup UNION {Left(j) : j \in rel[i]}
      BY <1>9
    <2> HIDE DEF Left
    <2>6. ASSUME NEW k \in Left(i)
          PROVE  k \in through[i] \/ \E j \in through[i] : k \in Left(j)
      <3>1. CASE k \in rel[i] \ retired
        BY <2>3, <3>1
      <3>2. CASE \E j \in rel[i] : k \in Left(j)
        <4>1. PICK j \in rel[i] : k \in Left(j)
          BY <3>2
        <4>2. CASE j \notin retired
          BY <2>3, <4>1, <4>2
        <4>3. CASE j \in retired
          <5>1. through[j] \subseteq through[i]
            BY <2>3, <4>3
          <5>2. k \in through[j] \/ \E q \in through[j] : k \in Left(q)
            BY <2>2, <4>1
          <5> QED BY <5>1, <5>2
        <4> QED BY <4>2, <4>3
      <3> QED BY <2>5, <3>1, <3>2
    <2>7. ASSUME NEW j \in through[i] PROVE j \in Left(i) /\ Left(j) \subseteq Left(i)
      <3>1. CASE j \in rel[i] \ retired
        BY <2>5, <3>1
      <3>2. CASE \E r \in rel[i] \cap retired : j \in through[r]
        <4>1. PICK r \in rel[i] \cap retired : j \in through[r]
          BY <3>2
        <4>2. j \in Left(r) /\ Left(j) \subseteq Left(r)
          BY <2>2, <4>1
        <4> QED BY <2>5, <4>2
      <3> QED BY <2>3, <3>1, <3>2
    <2>8. Left(i) = through[i] \cup UNION {Left(j) : j \in through[i]}
      BY <2>6, <2>7
    <2> QED BY <2>1, <2>4, <2>8
  <1> DEFINE f == [i \in 1..n |-> IF i \in retired THEN {} ELSE Left(i)]
  <1>11. Lineage(joined, n)
    <2>1. \A i \in 1..n : joined[i] \subseteq 1..(i - 1) /\ joined[i] \in SUBSET Nat
      BY <1>10 DEF joined
    <2>2. joined = [i \in 1..n |-> joined[i]]
      BY DEF joined
    <2>3. joined \in [1..n -> SUBSET Nat]
      BY <2>1, <2>2
    <2> QED BY <2>1, <2>3 DEF Lineage
  <1>12. ASSUME NEW i \in 1..n PROVE f[i] = joined[i] \cup UNION {f[j] : j \in joined[i]}
    <2>1. CASE i \in retired
      BY <2>1 DEF joined
    <2>2. CASE i \notin retired
      <3>1. joined[i] = through[i] /\ f[i] = Left(i)
        BY <2>2 DEF joined
      <3> HIDE DEF Left
      <3>2. ASSUME NEW j \in through[i] PROVE f[j] = Left(j)
        <4>1. j \in 1..n /\ j \notin retired
          BY <1>10
        <4> QED BY <4>1
      <3>3. UNION {f[j] : j \in joined[i]} = UNION {Left(j) : j \in through[i]}
        BY <3>1, <3>2
      <3> QED BY <1>10, <3>1, <3>3
    <2> QED BY <2>1, <2>2
  <1>13. \A i \in 1..n : Ancestors(joined)[i] = f[i]
    <2> HIDE DEF f
    <2>1. Closes(f, joined, n)
      BY <1>12 DEF Closes
    <2> QED BY <1>11, <2>1, AncestorsUnique
  <1>14. IsJoined(joined, rel, n, retired)
    BY <1>7, <1>11, <1>13 DEF anc, IsJoined
  <1> QED BY <1>14

\* Contraction leaves the relation among the others as it was.
LEMMA ContractedKeeps ==
  ASSUME NEW n \in Nat, NEW rel, Lineage(rel, n), NEW retired
  PROVE  /\ Lineage(Contracted(rel, retired), n)
         /\ \A i \in 1..n \ retired :
              Ancestors(Contracted(rel, retired))[i] = Ancestors(rel)[i] \ retired
  <1>1. PICK joined : IsJoined(joined, rel, n, retired)
    BY ContractedLineage
  <1> DEFINE left == Contracted(rel, retired)
  <1>2. /\ Lineage(joined, n)
        /\ left = [i \in 1..n |-> Nearest(joined, joined[i])]
        /\ \A i \in 1..n :
             Ancestors(joined)[i] = IF i \in retired THEN {} ELSE Ancestors(rel)[i] \ retired
    BY <1>1 DEF IsJoined
  <1> HIDE DEF left
  <1>3. Lineage(left, n) /\ \A i \in 1..n : Ancestors(left)[i] = Ancestors(joined)[i]
    BY <1>2, NearestKeeps
  <1> QED BY <1>2, <1>3 DEF left

(***************************************************************************)
(* Winners observed the same, and the newest of them is superseded by none.*)
(***************************************************************************)
LEMMA WinnersAgree ==
  ASSUME NEW acq, NEW anc, NEW s, NEW P \in SUBSET Nat, Acyclic(anc, P),
         NEW v \in Winners(acq, anc, P, s), NEW w \in Winners(acq, anc, P, s)
  PROVE  acq[v].pts[s] = acq[w].pts[s]
  <1>1. v \in P /\ w \in P
    BY DEF Winners
  <1>2. \/ acq[w].pts[s] = acq[v].pts[s]
        \/ w \in anc[v] /\ v \in anc[w]
    BY <1>1 DEF Winners
  <1>3. ASSUME w \in anc[v], v \in anc[w] PROVE FALSE
    <2>1. w < v /\ v < w
      BY <1>1, <1>3 DEF Acyclic
    <2> QED BY <1>1, <2>1
  <1> QED BY <1>2, <1>3

LEMMA NewestIsMaximal ==
  ASSUME NEW n \in Nat, NEW acq, NEW anc, NEW s, NEW P \in SUBSET (1..n),
         Acyclic(anc, P), Winners(acq, anc, P, s) # {}
  PROVE  Maximal(anc, Winners(acq, anc, P, s)) # {}
  <1> DEFINE W == Winners(acq, anc, P, s)
  <1>1. W \subseteq P /\ W \in SUBSET (0..n)
    <2>1. W \subseteq P
      BY DEF Winners
    <2> HIDE DEF W
    <2> QED BY <2>1
  <1>2. PICK m \in W : \A j \in W : j <= m
    <2> HIDE DEF W
    <2>1. W \in SUBSET Nat /\ W # {} /\ \A x \in W : x <= n
      BY <1>1 DEF W
    <2> QED BY <2>1, NatSetMaximum
  <1> HIDE DEF W
  <1>3. ASSUME NEW j \in W PROVE m \notin anc[j]
    <2>1. j <= m /\ j \in Nat /\ m \in Nat /\ j \in P /\ m \in P
      BY <1>1, <1>2
    <2>2. m \in anc[j] => m < j
      BY <2>1 DEF Acyclic
    <2> QED BY <2>1, <2>2
  <1> QED BY <1>2, <1>3 DEF Maximal, W

(***************************************************************************)
(* Keeping the maximal winners keeps what the providers say.               *)
(***************************************************************************)
LEMMA MaximalWinnersDecide ==
  ASSUME NEW n \in Nat, NEW acq, NEW anc, NEW s, NEW A,
         NEW P, Named(P, n), NEW K, K \subseteq P, Acyclic(anc, P),
         Maximal(anc, Winners(acq, anc, P, s)) \subseteq K,
         ProviderSlot(acq, P, A, anc, s) # Disputed
  PROVE  ProviderSlot(acq, K, A, anc, s) = ProviderSlot(acq, P, A, anc, s)
  <1> DEFINE W == Winners(acq, anc, P, s)
             V == Winners(acq, anc, K, s)
             o == acq[CHOOSE i \in W : TRUE].pts[s]
             q == acq[CHOOSE i \in V : TRUE].pts[s]
  <1>1. W # {}
    BY DEF ProviderSlot
  <1>2. PICK m \in Maximal(anc, W) : TRUE
    BY <1>1, NewestIsMaximal DEF Named
  <1>3. m \in W /\ m \in V
    BY <1>2 DEF Maximal, Winners
  <1>4. Acyclic(anc, K)
    BY DEF Acyclic
  <1>5. o = acq[m].pts[s]
    <2>1. (CHOOSE i \in W : TRUE) \in W
      BY <1>1
    <2>2. P \in SUBSET Nat
      BY DEF Named
    <2> QED BY <1>3, <2>1, <2>2, WinnersAgree
  <1>6. q = acq[m].pts[s]
    <2>1. (CHOOSE i \in V : TRUE) \in V
      BY <1>3
    <2>2. K \in SUBSET Nat
      BY DEF Named
    <2> QED BY <1>3, <1>4, <2>1, <2>2, WinnersAgree
  <1> HIDE DEF W, V, o, q
  <1>7. /\ ProviderSlot(acq, P, A, anc, s) =
             IF W = {} \/ (o # Gone /\ \E i \in A : acq[i].pts[s] # o) THEN Disputed ELSE o
        /\ ProviderSlot(acq, K, A, anc, s) =
             IF V = {} \/ (q # Gone /\ \E i \in A : acq[i].pts[s] # q) THEN Disputed ELSE q
    BY DEF ProviderSlot, W, V, o, q
  <1> QED BY <1>1, <1>3, <1>5, <1>6, <1>7

(***************************************************************************)
(* A slot resolves the same without the acquisitions it does not need.     *)
(***************************************************************************)
THEOREM RetiringKeepsSlot ==
  ASSUME NEW n \in Nat, NEW stop \in Nat, NEW acq, NEW anc, NEW from, NEW s,
         NEW ids, NEW kept, kept \subseteq ids,
         Ends(acq, ids, n, stop), Acyclic(anc, ids),
         Having(acq, ids, "archive", s) \subseteq kept,
         NeededAt(acq, ids, anc, s) \subseteq kept
  PROVE  /\ Slot(acq, kept, anc, from, s) = Slot(acq, ids, anc, from, s)
         /\ Having(acq, kept, "provider", s) = {} <=> Having(acq, ids, "provider", s) = {}
  <1> DEFINE P == Having(acq, ids, "provider", s)
             K == Having(acq, kept, "provider", s)
             A == Having(acq, ids, "archive", s)
  <1>1. A = Having(acq, kept, "archive", s)
    BY DEF Having
  <1>2. K = P \cap kept /\ Named(P, n) /\ Acyclic(anc, P)
    BY DEF Ends, Named, Having, Acyclic
  <1> HIDE DEF P, K, A
  <1>3. CASE P = {}
    BY <1>1, <1>2, <1>3 DEF Slot, P, K, A
  <1>4. CASE P # {} /\ ProviderSlot(acq, P, A, anc, s) = Disputed
    <2>1. P \subseteq kept
      BY <1>4 DEF NeededAt, P, A
    <2>2. K = P
      BY <1>2, <2>1
    <2> QED BY <1>1, <2>2 DEF Slot, P, K, A
  <1>5. CASE P # {} /\ ProviderSlot(acq, P, A, anc, s) # Disputed
    <2>1. Maximal(anc, Winners(acq, anc, P, s)) \subseteq kept
      BY <1>5 DEF NeededAt, P, A
    <2>2. Maximal(anc, Winners(acq, anc, P, s)) \subseteq P
      BY DEF Maximal, Winners
    <2>3. Maximal(anc, Winners(acq, anc, P, s)) \subseteq K /\ K \subseteq P
      BY <1>2, <2>1, <2>2
    <2>4. Winners(acq, anc, P, s) # {}
      BY <1>5 DEF ProviderSlot
    <2>5. K # {}
      <3>1. Maximal(anc, Winners(acq, anc, P, s)) # {}
        BY <1>2, <2>4, NewestIsMaximal DEF Named
      <3> QED BY <2>3, <3>1
    <2>6. ProviderSlot(acq, K, A, anc, s) = ProviderSlot(acq, P, A, anc, s)
      BY <1>2, <1>5, <2>3, MaximalWinnersDecide
    <2> QED BY <1>1, <1>5, <2>5, <2>6 DEF Slot, P, K, A
  <1> QED BY <1>3, <1>4, <1>5

\* A slot depends on its acquisitions and on the relation among them only.
Alike(acq, bcq, anc, bnc, ids) ==
  /\ \A i \in ids : bcq[i] = acq[i]
  /\ \A i, j \in ids : j \in bnc[i] <=> j \in anc[i]

LEMMA SlotOfSame ==
  ASSUME NEW acq, NEW bcq, NEW anc, NEW bnc, NEW from, NEW s, NEW ids,
         Alike(acq, bcq, anc, bnc, ids)
  PROVE  /\ Slot(bcq, ids, bnc, from, s) = Slot(acq, ids, anc, from, s)
         /\ \A kind : Having(bcq, ids, kind, s) = Having(acq, ids, kind, s)
         /\ NeededAt(bcq, ids, bnc, s) = NeededAt(acq, ids, anc, s)
  <1>1. \A kind : Having(bcq, ids, kind, s) = Having(acq, ids, kind, s)
    BY DEF Having, Alike
  <1> USE DEF Alike
  <1> DEFINE P == Having(acq, ids, "provider", s)
             A == Having(acq, ids, "archive", s)
  <1>2. P \subseteq ids /\ A \subseteq ids
    BY DEF Having
  <1> HIDE DEF P, A
  <1>3. Winners(bcq, bnc, P, s) = Winners(acq, anc, P, s)
    BY <1>2 DEF Winners
  <1>4. ProviderSlot(bcq, P, A, bnc, s) = ProviderSlot(acq, P, A, anc, s)
    <2> DEFINE W == Winners(acq, anc, P, s)
               c == CHOOSE i \in W : TRUE
    <2>1. W # {} => c \in ids
      BY <1>2 DEF Winners
    <2> HIDE DEF c
    <2>2. W # {} => bcq[c] = acq[c]
      BY <2>1
    <2>3. \A i \in A : bcq[i].pts[s] = acq[i].pts[s]
      BY <1>2
    <2> HIDE DEF W
    <2>4. /\ ProviderSlot(acq, P, A, anc, s) =
               IF W = {} \/ (acq[c].pts[s] # Gone /\ \E i \in A : acq[i].pts[s] # acq[c].pts[s])
               THEN Disputed ELSE acq[c].pts[s]
          /\ ProviderSlot(bcq, P, A, bnc, s) =
               IF W = {} \/ (bcq[c].pts[s] # Gone /\ \E i \in A : bcq[i].pts[s] # bcq[c].pts[s])
               THEN Disputed ELSE bcq[c].pts[s]
      BY <1>3 DEF ProviderSlot, W, c
    <2> QED BY <2>2, <2>3, <2>4
  <1>5. ArchiveSlot(bcq, A, from, s) = ArchiveSlot(acq, A, from, s)
    <2>1. {bcq[i].pts[s] : i \in A} = {acq[i].pts[s] : i \in A}
      BY <1>2
    <2> QED BY <2>1 DEF ArchiveSlot
  <1>6. Slot(acq, ids, anc, from, s) =
          IF P = {} THEN ArchiveSlot(acq, A, from, s) ELSE ProviderSlot(acq, P, A, anc, s)
    BY DEF Slot, P, A
  <1>7. Slot(bcq, ids, bnc, from, s) =
          IF P = {} THEN ArchiveSlot(bcq, A, from, s) ELSE ProviderSlot(bcq, P, A, bnc, s)
    BY <1>1 DEF Slot, P, A
  <1>8. NeededAt(bcq, ids, bnc, s) = NeededAt(acq, ids, anc, s)
    <2> DEFINE W == Winners(acq, anc, P, s)
    <2>1. W \subseteq ids
      BY <1>2 DEF Winners
    <2> HIDE DEF W
    <2>2. Maximal(bnc, W) = Maximal(anc, W)
      BY <2>1 DEF Maximal
    <2>3. /\ NeededAt(acq, ids, anc, s) =
               IF P = {} THEN {} ELSE IF ProviderSlot(acq, P, A, anc, s) = Disputed THEN P
                                      ELSE Maximal(anc, W)
          /\ NeededAt(bcq, ids, bnc, s) =
               IF P = {} THEN {} ELSE IF ProviderSlot(bcq, P, A, bnc, s) = Disputed THEN P
                                      ELSE Maximal(bnc, W)
      BY <1>1, <1>3 DEF NeededAt, P, A, W
    <2> QED BY <1>4, <2>2, <2>3
  <1> QED BY <1>1, <1>4, <1>5, <1>6, <1>7, <1>8

\* A witness, or an acquisition needed anyway, keeps the horizon.
LEMMA WitnessKeepsHorizon ==
  ASSUME NEW n \in Nat, NEW stop \in Nat, NEW acq, NEW ids, Ends(acq, ids, n, stop),
         NEW loaded \in SUBSET ids, NEW needed \in SUBSET loaded,
         NEW w \in Witnesses(acq, loaded, needed)
  PROVE  Horizon(acq, ids \ (loaded \ (needed \cup w))) = Horizon(acq, ids)
  <1> DEFINE ends(S) == {acq[i].end : i \in S}
             last == {i \in loaded : acq[i].end = Horizon(acq, loaded)}
             kept == ids \ (loaded \ (needed \cup w))
  <1> ids \in SUBSET (1..n) /\ \A i \in ids : acq[i].end \in 0..stop
    BY DEF Ends, Named
  <1> SUFFICES ASSUME ids # {} PROVE Horizon(acq, kept) = Horizon(acq, ids)
    <2>1. ids = {} => ids \ (loaded \ (needed \cup w)) = ids
      OBVIOUS
    <2> QED BY <2>1
  <1>1. PICK m \in ids : \A i \in ids : acq[i].end <= acq[m].end
    <2>1. ends(ids) \in SUBSET (0..stop) /\ ends(ids) # {}
      OBVIOUS
    <2>2. PICK x \in ends(ids) : \A y \in ends(ids) : y <= x
      <3> HIDE DEF ends
      <3>1. ends(ids) \in SUBSET Nat /\ \A y \in ends(ids) : y <= stop
        BY <2>1
      <3> QED BY <2>1, <3>1, NatSetMaximum
    <2> QED BY <2>2
  <1>2. ASSUME NEW S \in SUBSET ids, NEW k \in S, acq[k].end = acq[m].end
        PROVE  Horizon(acq, S) = acq[m].end
    <2>1. /\ acq[m].end \in ends(S)
          /\ \A y \in ends(S) : y <= acq[m].end
          /\ ends(S) \subseteq Int
      BY <1>1, <1>2
    <2>2. Greatest(ends(S)) = acq[m].end
      <3> HIDE DEF ends
      <3> QED BY <2>1 DEF Greatest
    <2> QED BY <1>2, <2>2 DEF Horizon
  <1>3. \E k \in kept : acq[k].end = acq[m].end
    <2>1. CASE m \notin loaded
      BY <2>1
    <2>2. CASE m \in loaded
      <3>1. Horizon(acq, loaded) = acq[m].end
        BY <1>2, <2>2
      <3>2. m \in last
        BY <2>2, <3>1
      <3>3. CASE last \cap needed # {}
        BY <3>1, <3>3
      <3>4. CASE last \cap needed = {}
        <4>1. w \in {{i} : i \in last}
          BY <3>2, <3>4 DEF Witnesses
        <4> QED BY <3>1, <4>1
      <3> QED BY <3>3, <3>4
    <2> QED BY <2>1, <2>2
  <1>4. PICK k \in kept : acq[k].end = acq[m].end
    BY <1>3
  <1>5. kept \in SUBSET ids /\ k \in kept /\ m \in ids
    OBVIOUS
  <1> HIDE DEF kept
  <1> QED BY <1>2, <1>4, <1>5

\* What keeps every slot, the horizon and the relation keeps the resolution.
LEMMA KeepingKeepsResolution ==
  ASSUME NEW n \in Nat, NEW stop \in Nat, NEW acq, NEW rel, NEW left, NEW from,
         NEW ids, NEW kept, Ends(acq, ids, n, stop), Acyclic(Ancestors(rel), ids),
         Serves(acq, ids, rel, kept), Horizon(acq, kept) = Horizon(acq, ids),
         \A i, j \in kept : j \in Ancestors(left)[i] <=> j \in Ancestors(rel)[i]
  PROVE  Resolution(acq, kept, left, from) = Resolution(acq, ids, rel, from)
  <1> DEFINE anc == Ancestors(rel)
             bnc == Ancestors(left)
             Slots == DOMAIN acq[1].pts
  <1>1. Acyclic(anc, ids) /\ kept \subseteq ids /\ \A i, j \in kept : j \in bnc[i] <=> j \in anc[i]
    BY DEF Serves
  <1>2. ASSUME NEW s \in Slots
        PROVE  /\ Having(acq, ids, "archive", s) \subseteq kept
               /\ NeededAt(acq, ids, anc, s) \subseteq kept
    BY <1>2 DEF Serves
  <1> HIDE DEF anc, bnc, Slots
  <1>3. ASSUME NEW s \in Slots
        PROVE  /\ Slot(acq, kept, anc, from, s) = Slot(acq, ids, anc, from, s)
               /\ (Having(acq, kept, "provider", s) = {}) <=> (Having(acq, ids, "provider", s) = {})
    <2>1. /\ Having(acq, ids, "archive", s) \subseteq kept
          /\ NeededAt(acq, ids, anc, s) \subseteq kept
      BY <1>2
    <2>2. Acyclic(anc, ids) /\ kept \subseteq ids
      BY <1>1
    <2> QED BY <2>1, <2>2, RetiringKeepsSlot
  <1>4. ASSUME NEW s \in Slots
        PROVE  Slot(acq, kept, bnc, from, s) = Slot(acq, ids, anc, from, s)
    <2>1. Alike(acq, acq, anc, bnc, kept)
      BY <1>1 DEF Alike
    <2>2. Slot(acq, kept, bnc, from, s) = Slot(acq, kept, anc, from, s)
      BY <2>1, SlotOfSame
    <2> QED BY <1>3, <2>2
  <1>5. [s \in Slots |-> Slot(acq, kept, bnc, from, s)]
          = [s \in Slots |-> Slot(acq, ids, anc, from, s)]
    BY <1>4
  <1>6. [s \in Slots |-> Having(acq, kept, "provider", s) # {}]
          = [s \in Slots |-> Having(acq, ids, "provider", s) # {}]
    <2>1. ASSUME NEW s \in Slots
          PROVE  (Having(acq, kept, "provider", s) # {}) = (Having(acq, ids, "provider", s) # {})
      BY <1>3
    <2> QED BY <2>1
  <1> QED BY <1>5, <1>6 DEF Resolution, anc, bnc, Slots

(***************************************************************************)
(* What source_redundancy retires of the loaded acquisitions, no slot,     *)
(* basis or horizon of any of them misses, nor of others that say nothing  *)
(* of the window; nor does any miss what it superseded.                    *)
(***************************************************************************)
Retires(retired, acq, loaded, rel, window, protected) ==
  LET needed == Needed(acq, loaded, rel, window, protected)
  IN  \E w \in Witnesses(acq, loaded, needed) : retired = loaded \ (needed \cup w)

THEOREM RetiringKeepsResolution ==
  ASSUME NEW n \in Nat, NEW stop \in Nat, NEW acq, NEW rel, Lineage(rel, n), NEW from,
         NEW window, NEW protected, NEW ids, Ends(acq, ids, n, stop),
         NEW loaded \in SUBSET ids,
         \A i \in ids \ loaded : \A s \in window : acq[i].pts[s] = None,
         NEW retired, Retires(retired, acq, loaded, rel, window, protected)
  PROVE  Resolution(acq, ids \ retired, Contracted(rel, retired), from)
           = Resolution(acq, ids, rel, from)
  <1> DEFINE needed == Needed(acq, loaded, rel, window, protected)
             anc == Ancestors(rel)
             bnc == Ancestors(Contracted(rel, retired))
             kept == ids \ retired
  <1>1. ids \in SUBSET (1..n)
    BY DEF Ends, Named
  <1>2. Acyclic(anc, ids)
    <2>1. \A i \in 1..n : anc[i] \subseteq 1..(i - 1)
      BY AncestorsOf
    <2>2. ASSUME NEW i \in ids, NEW j \in anc[i] PROVE j < i
      <3>1. i \in 1..n /\ j \in 1..(i - 1)
        BY <1>1, <2>1
      <3> QED BY <3>1
    <2> QED BY <2>2 DEF Acyclic
  <1>3. \A i \in 1..n \ retired : bnc[i] = anc[i] \ retired
    BY ContractedKeeps
  <1>4. ASSUME NEW s PROVE NeededAt(acq, ids, anc, s) \subseteq Having(acq, ids, "provider", s)
    BY DEF NeededAt, Maximal, Winners
  <1>5. /\ needed \subseteq loaded
        /\ \A i \in loaded : acq[i].kind # "provider" => i \in needed
        /\ \A i \in loaded, s \in DOMAIN acq[1].pts \ window : acq[i].pts[s] # None => i \in needed
        /\ \A s \in DOMAIN acq[1].pts : NeededAt(acq, loaded, anc, s) \subseteq needed
    <2>1. \A s : NeededAt(acq, loaded, anc, s) \subseteq loaded
      BY DEF NeededAt, Having, Maximal, Winners
    <2> QED BY <2>1 DEF Needed
  <1>6. PICK w \in Witnesses(acq, loaded, needed) : retired = loaded \ (needed \cup w)
    BY DEF Retires
  <1> HIDE DEF needed, anc, bnc
  <1>7. Horizon(acq, kept) = Horizon(acq, ids)
    BY <1>5, <1>6, WitnessKeepsHorizon
  <1>8. \A s : Having(acq, ids, "archive", s) \subseteq kept
    BY <1>5, <1>6 DEF Having
  <1>9. ASSUME NEW s \in DOMAIN acq[1].pts PROVE NeededAt(acq, ids, anc, s) \subseteq kept
    <2>1. CASE s \notin window
      <3>1. \A i \in Having(acq, ids, "provider", s) \cap loaded : i \in needed
        BY <1>5, <2>1 DEF Having
      <3> QED BY <1>4, <1>6, <3>1 DEF Having
    <2>2. CASE s \in window
      <3>1. \A kind : Having(acq, ids, kind, s) = Having(acq, loaded, kind, s)
        BY <2>2 DEF Having
      <3>2. NeededAt(acq, ids, anc, s) = NeededAt(acq, loaded, anc, s)
        BY <3>1 DEF NeededAt
      <3> QED BY <1>5, <1>6, <3>2
    <2> QED BY <2>1, <2>2
  <1>10. Serves(acq, ids, rel, kept)
    BY <1>8, <1>9 DEF Serves, anc
  <1>11. \A i, j \in kept : j \in bnc[i] <=> j \in anc[i]
    BY <1>1, <1>3
  <1> HIDE DEF kept
  <1>12. Resolution(acq, kept, Contracted(rel, retired), from) = Resolution(acq, ids, rel, from)
    <2> DEFINE left == Contracted(rel, retired)
    <2>1. \A i, j \in kept : j \in Ancestors(left)[i] <=> j \in Ancestors(rel)[i]
      BY <1>11 DEF anc, bnc
    <2>2. Acyclic(Ancestors(rel), ids)
      BY <1>2 DEF anc
    <2> HIDE DEF left
    <2>3. Resolution(acq, kept, left, from) = Resolution(acq, ids, rel, from)
      BY <1>7, <1>10, <2>1, <2>2, KeepingKeepsResolution
    <2> QED BY <2>3 DEF left
  <1> QED BY <1>12 DEF kept

(***************************************************************************)
(* Windows                                                                 *)
(***************************************************************************)
LEMMA HourSlots ==
  ASSUME NEW h \in HourSet
  PROVE  /\ SlotsOf(h) \subseteq SlotSet
         /\ SlotsOf(h) = {h * SlotsPerHour + i - 1 : i \in 1..SlotsPerHour}
         /\ SlotsOf(h) # {}
  <1> DEFINE k == SlotsPerHour
             q == SlotCount \div SlotsPerHour
  <1>1. k \in Nat /\ k > 0 /\ SlotCount \in Nat /\ SlotCount > 0
    BY SizesAssumption
  <1>2. q \in Int /\ q * k <= SlotCount
    BY <1>1
  <1>3. h \in Nat /\ h + 1 <= q
    BY <1>2 DEF HourSet, HourCount
  <1> HIDE DEF k, q
  <1>4. h * k \in Nat /\ (h + 1) * k = h * k + k /\ (h + 1) * k <= q * k
    <2>1. h * k \in Nat /\ (h + 1) * k = h * k + k
      BY <1>1, <1>3
    <2>2. q - (h + 1) \in Nat
      BY <1>2, <1>3
    <2>3. (q - (h + 1)) * k >= 0
      BY <1>1, <2>2
    <2>4. (q - (h + 1)) * k = q * k - (h + 1) * k
      BY <1>1, <1>2, <1>3
    <2> QED BY <1>1, <1>2, <1>3, <2>1, <2>3, <2>4
  <1>5. SlotsOf(h) = (h * k)..(h * k + k - 1)
    <2> DEFINE a == h * k
               b == (h + 1) * k
    <2>1. SlotsOf(h) = a..(b - 1)
      BY DEF SlotsOf, k
    <2>2. b = a + k /\ a \in Int /\ k \in Int
      BY <1>1, <1>4
    <2> HIDE DEF a, b
    <2>3. SlotsOf(h) = a..(a + k - 1)
      BY <2>1, <2>2
    <2> QED BY <2>3 DEF a
  <1> DEFINE a == h * k
  <1>6. a \in Nat /\ a + k <= SlotCount
    BY <1>1, <1>2, <1>4
  <1> HIDE DEF a
  <1>7. a..(a + k - 1) \subseteq SlotSet /\ a..(a + k - 1) # {}
    BY <1>1, <1>6 DEF SlotSet
  <1>8. a..(a + k - 1) = {a + i - 1 : i \in 1..k}
    <2>1. \A x \in a..(a + k - 1) : x - a + 1 \in 1..k /\ a + (x - a + 1) - 1 = x
      BY <1>1, <1>6
    <2>2. \A i \in 1..k : a + i - 1 \in a..(a + k - 1)
      BY <1>1, <1>6
    <2> QED BY <2>1, <2>2
  <1> QED BY <1>5, <1>7, <1>8 DEF a, k

\* A routine window is of whole hours of the month.
LEMMA RoutineHours ==
  /\ RoutineWindow \subseteq SlotSet
  /\ \A s \in RoutineWindow : \E h \in HoursOf(RoutineWindow) : s \in SlotsOf(h)
  <1>1. ASSUME NEW s \in RoutineWindow
        PROVE  \E h \in HourSet : s \in SlotsOf(h) /\ SlotsOf(h) \subseteq RoutineWindow
    BY DEF RoutineWindow
  <1> QED BY <1>1, HourSlots DEF HoursOf

\* The ends of a window of the month.
LEMMA WindowEnds ==
  ASSUME NEW window \in SUBSET SlotSet, window # {}
  PROVE  /\ Least(window) \in window /\ Greatest(window) \in window
         /\ \A s \in window : Least(window) <= s /\ s <= Greatest(window)
  <1>1. window \in SUBSET Nat /\ \A s \in window : s <= SlotCount
    BY SizesAssumption DEF SlotSet
  <1>2. PICK a \in window : \A y \in window : a <= y
    BY <1>1, NatSetMinimum
  <1>3. PICK b \in window : \A y \in window : y <= b
    BY <1>1, NatSetMaximum, SizesAssumption
  <1>4. Least(window) \in window /\ \A y \in window : Least(window) <= y
    BY <1>2 DEF Least
  <1>5. Greatest(window) \in window /\ \A y \in window : y <= Greatest(window)
    BY <1>3 DEF Greatest
  <1> QED BY <1>4, <1>5

(***************************************************************************)
(* The inductive invariant: a provider's day and log of the right shape,   *)
(* each acquisition silent outside its own window and no newer than what   *)
(* the provider reported, a delta of some row, and a lineage of what was   *)
(* acquired.                                                               *)
(***************************************************************************)
Points == [SlotSet -> Observed \cup {None}]

IsAcquisition(a) ==
  /\ a.lo \in Int /\ a.hi \in Int /\ a.end \in 0..dataEnd /\ a.pts \in Points
  /\ \A s \in SlotSet : a.pts[s] # None => a.lo <= s /\ s < a.hi
  /\ a.delta => a.kind = "provider" /\ \E s \in SlotSet : a.pts[s] # None

Inv ==
  /\ now \in Nat \ {0} /\ dataEnd \in 0..(now - 1) /\ feed \in Points
  /\ Len(log) \in Nat \ {0} /\ log = [i \in 1..Len(log) |-> log[i]]
  /\ \A i \in 1..Len(log) : IsAcquisition(log[i])
  /\ Lineage(edges, Len(log))
  /\ catalog \subseteq 1..Len(log)
  /\ DOMAIN holds = HourSet /\ \A h \in HourSet : holds[h] \subseteq 1..Len(log)

LEMMA InitInv == Init => Inv
  <1> SUFFICES ASSUME Init PROVE Inv
    OBVIOUS
  <1>1. SlotsPerHour \in Nat /\ SlotsPerHour > 0 /\ Usual \in Observed \cup {None} /\ Usual # None
    BY SizesAssumption, ValuesAssumption DEF Observed
  <1>2. now \in Nat \ {0} /\ now - 1 \in 0..(now - 1) /\ dataEnd = now - 1
    BY <1>1 DEF Init
  <1>3. feed \in Points /\ \A s \in SlotSet : feed[s] # None => 0 <= s /\ s < now
    BY <1>1 DEF Init, Points, SlotSet
  <1> DEFINE a == [kind |-> "provider", delta |-> FALSE, lo |-> 0, hi |-> now,
                   end |-> dataEnd, pts |-> feed]
  <1>4. IsAcquisition(a)
    BY <1>2, <1>3 DEF IsAcquisition
  <1>5. log = <<a>> /\ Len(log) = 1
    BY DEF Init
  <1>6. log = [i \in 1..Len(log) |-> log[i]] /\ \A i \in 1..Len(log) : log[i] = a
    <2> HIDE DEF a
    <2>1. log = [i \in 1..1 |-> a]
      BY <1>5
    <2> QED BY <1>5, <2>1
  <1>7. edges \in Seq(SUBSET Nat) /\ Len(edges) = 1 /\ edges[1] = {}
    BY DEF Init
  <1>8. Lineage(edges, 1)
    BY <1>7 DEF Lineage
  <1> HIDE DEF a
  <1>9. catalog = {1} /\ holds = [h \in HourSet |-> {}]
    BY DEF Init
  <1> QED BY <1>2, <1>3, <1>4, <1>5, <1>6, <1>8, <1>9 DEF Inv

\* One more acquisition.
LEMMA LogAppended ==
  ASSUME Inv, NEW a, IsAcquisition(a), log' = Append(log, a), dataEnd' = dataEnd
  PROVE  /\ Len(log') = Len(log) + 1 /\ log' = [i \in 1..Len(log') |-> log'[i]]
         /\ log'[Len(log) + 1] = a /\ \A i \in 1..Len(log) : log'[i] = log[i]
         /\ \A i \in 1..Len(log') : IsAcquisition(log'[i])
         /\ 1..Len(log) \subseteq 1..Len(log')
  <1> DEFINE n == Len(log)
             All == {log[i] : i \in 1..n} \cup {a}
  <1>1. n \in Nat /\ log = [i \in 1..n |-> log[i]] /\ \A i \in 1..n : IsAcquisition(log[i])
    BY DEF Inv
  <1>2. \A i \in 1..n : log[i] \in All
    OBVIOUS
  <1> HIDE DEF All
  <1>3. log \in Seq(All)
    BY <1>1, <1>2
  <1>4. a \in All
    BY DEF All
  <1>5. /\ log' \in Seq(All) /\ Len(log') = n + 1 /\ log'[n + 1] = a
        /\ \A i \in 1..n : log'[i] = log[i]
    BY <1>3, <1>4, AppendProperties
  <1> HIDE DEF n
  <1>6. log' = [i \in 1..Len(log') |-> log'[i]]
    <2>1. log' \in [1..Len(log') -> All]
      BY <1>5, LenProperties
    <2> QED BY <2>1
  <1>7. \A i \in 1..(n + 1) : i \in 1..n \/ i = n + 1
    BY <1>1
  <1>8. \A i \in 1..(n + 1) : IsAcquisition(log'[i])
    BY <1>1, <1>5, <1>7
  <1>9. 1..n \subseteq 1..(n + 1)
    BY <1>1
  <1> QED BY <1>5, <1>6, <1>8, <1>9 DEF n

\* One more entry of the relation, which leaves the others' ancestors alone.
Continues(longer, rel, preds, n) ==
  /\ Lineage(longer, n + 1)
  /\ \A i \in 1..n : Ancestors(longer)[i] = Ancestors(rel)[i]
  /\ preds \subseteq Ancestors(longer)[n + 1]
  /\ \A j \in preds : Ancestors(rel)[j] \subseteq Ancestors(longer)[n + 1]

LEMMA LineageAppended ==
  ASSUME NEW n \in Nat, NEW rel, Lineage(rel, n), NEW preds \in SUBSET (1..n),
         NEW longer, longer = Append(rel, preds)
  PROVE  Continues(longer, rel, preds, n)
  <1>1. rel \in Seq(SUBSET Nat) /\ Len(rel) = n /\ \A i \in 1..n : rel[i] \subseteq 1..(i - 1)
    BY DEF Lineage
  <1>2. preds \in SUBSET Nat
    OBVIOUS
  <1>3. /\ longer \in Seq(SUBSET Nat) /\ Len(longer) = n + 1
        /\ longer[n + 1] = preds /\ \A i \in 1..n : longer[i] = rel[i]
    BY <1>1, <1>2, AppendProperties
  <1>4. \A i \in 1..(n + 1) : i \in 1..n \/ (i = n + 1 /\ i - 1 = n)
    OBVIOUS
  <1>5. Lineage(longer, n + 1)
    BY <1>1, <1>3, <1>4 DEF Lineage
  <1> DEFINE anc == Ancestors(rel)
             f == [i \in 1..(n + 1) |-> IF i \in 1..n THEN anc[i]
                                        ELSE preds \cup UNION {anc[j] : j \in preds}]
  <1>6. \A i \in 1..n : anc[i] = rel[i] \cup UNION {anc[j] : j \in rel[i]}
    BY AncestorsOf
  <1> HIDE DEF anc
  <1>7. /\ \A i \in 1..n : f[i] = anc[i]
        /\ f[n + 1] = preds \cup UNION {anc[j] : j \in preds}
    OBVIOUS
  <1> HIDE DEF f
  <1>8. ASSUME NEW i \in 1..(n + 1)
        PROVE  f[i] = longer[i] \cup UNION {f[j] : j \in longer[i]}
    <2>1. longer[i] \subseteq 1..n
      <3>1. CASE i \in 1..n
        <4>1. longer[i] \subseteq 1..(i - 1) /\ 1..(i - 1) \subseteq 1..n
          BY <1>1, <1>3, <3>1
        <4> QED BY <4>1
      <3>2. CASE i = n + 1
        BY <1>3, <3>2
      <3> QED BY <1>4, <3>1, <3>2
    <2>2. UNION {f[j] : j \in longer[i]} = UNION {anc[j] : j \in longer[i]}
      BY <1>7, <2>1
    <2>3. CASE i \in 1..n
      BY <1>3, <1>6, <1>7, <2>2, <2>3
    <2>4. CASE i = n + 1
      BY <1>3, <1>7, <2>2, <2>4
    <2> QED BY <1>4, <2>3, <2>4
  <1>9. \A i \in 1..(n + 1) : Ancestors(longer)[i] = f[i]
    <2>1. Closes(f, longer, n + 1)
      BY <1>8 DEF Closes
    <2>2. n + 1 \in Nat
      OBVIOUS
    <2> QED BY <1>5, <2>1, <2>2, AncestorsUnique, Zenon
  <1>10. n + 1 \in 1..(n + 1) /\ \A i \in 1..n : i \in 1..(n + 1)
    OBVIOUS
  <1> QED BY <1>5, <1>7, <1>9, <1>10 DEF anc, Continues

\* Which acquisitions a view is about, and what it says of them.
Ids(asked) == asked \cup catalog \cup Held

LEMMA HeldKnown == Inv => Held \subseteq 1..Len(log)
  BY DEF Inv, Held

LEMMA ViewSays ==
  ASSUME NEW asked, NEW window, NEW acq, NEW rel, NEW n \in Nat, Lineage(rel, n),
         NEW view \in Views(asked, window, acq, rel)
  PROVE  LET loaded == Overlapping(acq, Ids(asked), window)
             from   == IF ArchivePolicy THEN FirstProvider(acq, Ids(asked), first) ELSE None
             said   == Resolution(acq, loaded, rel, from)
         IN  /\ view.ids = Ids(asked)
             /\ view.slots = said.slots /\ view.horizon = said.horizon
             /\ view.sources = loaded \ view.retired
             /\ Lineage(view.edges, n)
  <1> DEFINE ids     == Ids(asked)
             loaded  == Overlapping(acq, ids, window)
             anchor  == FirstProvider(acq, ids, first)
             from    == IF ArchivePolicy THEN anchor ELSE None
             before  == Resolution(acq, loaded, rel, from)
             guarded == Held \cup (asked \ catalog)
             needed  == Needed(acq, loaded, rel, window, guarded)
             Shows(retired, left) ==
               [ids |-> ids, sources |-> loaded \ retired, retired |-> retired, edges |-> left,
                first |-> anchor, slots |-> before.slots, horizon |-> before.horizon]
  <1>1. \E w \in Witnesses(acq, loaded, needed) :
          LET retired == loaded \ (needed \cup w)
              left    == Contracted(rel, retired)
          IN  view = IF retired = {} \/ before = Resolution(acq, loaded \ retired, left, from)
                     THEN Shows(retired, left) ELSE Shows({}, rel)
    BY DEF Views, Ids
  <1> HIDE DEF ids, loaded, anchor, from, before, guarded, needed
  <1>2. PICK retired : view = Shows(retired, Contracted(rel, retired)) \/ view = Shows({}, rel)
    BY <1>1
  <1>3. Lineage(Contracted(rel, retired), n)
    BY ContractedKeeps
  <1> QED BY <1>2, <1>3 DEF ids, loaded, anchor, from, before

\* A committed view leaves a catalog and a lineage of what was acquired.
LEMMA CommitKeeps ==
  ASSUME Inv, NEW n \in Nat, Len(log) <= n, NEW asked \in SUBSET (1..n), NEW window, NEW past,
         NEW acq, NEW rel, Lineage(rel, n), NEW view \in Views(asked, window, acq, rel),
         Commit(view, past)
  PROVE  /\ catalog' \subseteq 1..n /\ Lineage(edges', n)
         /\ DOMAIN holds' = HourSet /\ \A h \in HourSet : holds'[h] \subseteq 1..n
  <1>1. view.ids = Ids(asked) /\ Lineage(view.edges, n)
    BY ViewSays
  <1>2. Ids(asked) \subseteq 1..n
    <2>1. Len(log) \in Nat /\ catalog \subseteq 1..Len(log)
      BY DEF Inv
    <2>2. 1..Len(log) \subseteq 1..n
      BY <2>1
    <2> QED BY <2>1, <2>2, HeldKnown DEF Ids
  <1>3. catalog' = view.ids \ view.retired /\ edges' = view.edges
    BY DEF Commit
  <1>4. /\ holds' = [h \in HourSet |-> IF h \in HoursOf(past) THEN {} ELSE holds[h]]
        /\ \A h \in HourSet : holds[h] \subseteq 1..Len(log)
        /\ 1..Len(log) \subseteq 1..n
    BY DEF Commit, Inv
  <1>5. \A h \in HourSet : holds'[h] \subseteq 1..n
    BY <1>4
  <1> QED BY <1>1, <1>2, <1>3, <1>4, <1>5

\* The rows a delta keeps are of its own window.
LEMMA DeltaAcquired ==
  ASSUME Inv, NEW baseline, NEW window \in SUBSET SlotSet, window # {},
         Changed(baseline, window) # {}
  PROVE  IsAcquisition(Delta(Changed(baseline, window), window))
  <1> DEFINE a == Delta(Changed(baseline, window), window)
  <1>1. Least(window) \in Int /\ Greatest(window) \in Int
        /\ \A s \in window : Least(window) <= s /\ s <= Greatest(window)
    <2>1. window \subseteq Int
      BY DEF SlotSet
    <2> QED BY <2>1, WindowEnds
  <1>2. /\ a.lo = Least(window) /\ a.hi = Greatest(window) + 1 /\ a.end = dataEnd
        /\ a.kind = "provider"
        /\ a.pts = [s \in SlotSet |-> IF s \in Changed(baseline, window) THEN feed[s] ELSE None]
    BY DEF Delta
  <1>3. Changed(baseline, window) \subseteq window
    BY DEF Changed
  <1>4. feed \in Points /\ dataEnd \in 0..dataEnd
    BY DEF Inv
  <1> HIDE DEF a
  <1>5. a.pts \in Points
    BY <1>2, <1>4 DEF Points
  <1>6. ASSUME NEW s \in SlotSet, a.pts[s] # None PROVE a.lo <= s /\ s < a.hi
    <2>1. s \in window /\ s \in Int
      BY <1>2, <1>3, <1>6 DEF SlotSet
    <2> QED BY <1>1, <1>2, <2>1
  <1>7. \E s \in SlotSet : a.pts[s] # None
    <2>1. PICK s \in Changed(baseline, window) : TRUE
      OBVIOUS
    <2>2. s \in SlotSet /\ feed[s] # None
      BY <1>3, <2>1 DEF Changed
    <2> QED BY <1>2, <2>1, <2>2
  <1>8. IsAcquisition(a)
    BY <1>1, <1>2, <1>4, <1>5, <1>6, <1>7 DEF IsAcquisition
  <1> QED BY <1>8 DEF a

\* A new acquisition supersedes all the baseline's, and the relation among the
\* others is as it was.
LEMMA SupersedingSays ==
  ASSUME Inv, NEW baseline, baseline.sources \subseteq 1..Len(log)
  PROVE  LET rel == Superseding(baseline)
             n   == Len(log)
         IN  /\ Lineage(rel, n + 1)
             /\ \A i \in 1..n : Ancestors(rel)[i] = Ancestors(edges)[i]
             /\ \A j \in baseline.sources : log[j].kind = "provider" =>
                  /\ j \in Ancestors(rel)[n + 1]
                  /\ Ancestors(edges)[j] \subseteq Ancestors(rel)[n + 1]
  <1> DEFINE rel == Superseding(baseline)
             n == Len(log)
             known == {i \in baseline.sources : log[i].kind = "provider"}
             near == [i \in 1..n |-> Nearest(edges, edges[i])]
             preds == Nearest(edges, known)
             anc == Ancestors(edges)
  <1>1. n \in Nat /\ Lineage(edges, n) /\ DOMAIN edges = 1..n
    BY DEF Inv, Lineage
  <1>2. rel = Append(near, preds)
    BY <1>1 DEF Superseding
  <1>3. known \in SUBSET (1..n)
    OBVIOUS
  <1> HIDE DEF n, known
  <1>4. /\ preds \subseteq known
        /\ \A p \in known : p \in preds \/ \E q \in preds : p \in anc[q]
    BY <1>1, <1>3, NearestReaches
  <1>5. preds \in SUBSET (1..n)
    BY <1>3, <1>4
  <1>6. Lineage(near, n) /\ \A i \in 1..n : Ancestors(near)[i] = anc[i]
    BY <1>1, NearestKeeps
  <1> HIDE DEF near, preds, rel, anc
  <1>7. /\ Lineage(rel, n + 1)
        /\ \A i \in 1..n : Ancestors(rel)[i] = Ancestors(near)[i]
        /\ preds \subseteq Ancestors(rel)[n + 1]
        /\ \A j \in preds : Ancestors(near)[j] \subseteq Ancestors(rel)[n + 1]
    <2>1. n \in Nat /\ Lineage(near, n)
      BY <1>1, <1>6
    <2>2. Continues(rel, near, preds, n)
      BY <1>2, <1>5, <2>1, LineageAppended
    <2> QED BY <2>2 DEF Continues
  <1>8. ASSUME NEW j \in preds PROVE anc[j] \subseteq Ancestors(rel)[n + 1]
    <2>1. j \in 1..n
      BY <1>5
    <2> QED BY <1>6, <1>7, <2>1
  <1>9. \A i \in 1..n : \A j \in anc[i] : anc[j] \subseteq anc[i]
    BY <1>1, AncestorsTransitive DEF anc
  <1>10. ASSUME NEW j \in known
         PROVE  j \in Ancestors(rel)[n + 1] /\ anc[j] \subseteq Ancestors(rel)[n + 1]
    <2>1. CASE j \in preds
      BY <1>7, <1>8, <2>1
    <2>2. CASE \E q \in preds : j \in anc[q]
      <3>1. PICK q \in preds : j \in anc[q]
        BY <2>2
      <3>2. anc[j] \subseteq anc[q]
        BY <1>5, <1>9, <3>1
      <3> QED BY <1>8, <3>1, <3>2
    <2> QED BY <1>4, <2>1, <2>2
  <1> QED BY <1>6, <1>7, <1>10 DEF rel, n, known, anc

LEMMA SourcesKnown ==
  ASSUME Inv, NEW window, NEW baseline \in Views({}, window, log, edges)
  PROVE  baseline.sources \subseteq 1..Len(log)
  <1>1. Len(log) \in Nat /\ Lineage(edges, Len(log))
    BY DEF Inv
  <1>2. baseline.sources \subseteq Overlapping(log, Ids({}), window)
    BY <1>1, ViewSays
  <1>3. Overlapping(log, Ids({}), window) \subseteq Ids({})
    BY DEF Overlapping
  <1>4. Ids({}) \subseteq 1..Len(log)
    BY HeldKnown DEF Ids, Inv
  <1> QED BY <1>2, <1>3, <1>4

(***************************************************************************)
(* Every step keeps the invariant.                                         *)
(***************************************************************************)
LEMMA WorldInv ==
  ASSUME Inv, Publish \/ Summarise \/ Correct
  PROVE  Inv'
  <1>1. UNCHANGED evidence /\ now' \in {now, now + 1}
    BY DEF Publish, Summarise, Correct, evidence
  <1>2. now \in Nat \ {0} /\ now' \in Nat \ {0} /\ now <= now'
    BY <1>1 DEF Inv
  <1>3. dataEnd' \in 0..(now' - 1) /\ dataEnd <= dataEnd'
    <2>1. dataEnd' \in {now, now - 1, dataEnd} /\ (now' = now => dataEnd' # now)
      BY <1>2 DEF Publish, Summarise, Correct, Inv
    <2>2. dataEnd \in Nat /\ dataEnd <= now - 1
      BY <1>2 DEF Inv
    <2>3. CASE now' = now
      <3>1. dataEnd' = now - 1 \/ dataEnd' = dataEnd
        BY <2>1, <2>3
      <3> QED BY <1>2, <2>2, <2>3, <3>1
    <2>4. CASE now' = now + 1
      BY <1>2, <2>1, <2>2, <2>4
    <2> QED BY <1>1, <2>3, <2>4
  <1>4. feed' \in Points
    <2>1. feed \in Points /\ Usual \in Observed \cup {None}
      BY ValuesAssumption DEF Inv, Observed
    <2> QED BY <2>1 DEF Publish, Summarise, Correct, Points
  <1>5. \A i \in 1..Len(log) : IsAcquisition(log[i])'
    <2>1. log' = log /\ 0..dataEnd \subseteq 0..dataEnd'
      BY <1>1, <1>2, <1>3 DEF evidence, Inv
    <2> QED BY <2>1 DEF Inv, IsAcquisition
  <1> QED BY <1>1, <1>2, <1>3, <1>4, <1>5 DEF Inv, evidence

LEMMA ReviewInv ==
  ASSUME Inv, Review
  PROVE  Inv'
  <1>1. PICK h \in HourSet : Plan({}, SlotsOf(h), log, edges)
    BY DEF Review
  <1>2. PICK view \in Views({}, SlotsOf(h), log, edges) : Commit(view, SlotsOf(h))
    BY <1>1 DEF Plan
  <1>3. Len(log) \in Nat /\ Lineage(edges, Len(log)) /\ {} \in SUBSET (1..Len(log))
    BY DEF Inv
  <1>4. /\ catalog' \subseteq 1..Len(log) /\ Lineage(edges', Len(log))
        /\ DOMAIN holds' = HourSet /\ \A k \in HourSet : holds'[k] \subseteq 1..Len(log)
    <2>1. Len(log) <= Len(log)
      BY <1>3
    <2> QED BY <1>2, <1>3, <2>1, CommitKeeps, Zenon
  <1>5. UNCHANGED <<feed, now, dataEnd, log>>
    BY DEF Review
  <1>6. \A i \in 1..Len(log) : IsAcquisition(log[i])'
    BY <1>5 DEF Inv, IsAcquisition
  <1> QED BY <1>4, <1>5, <1>6 DEF Inv

LEMMA AdmitInv ==
  ASSUME Inv, Admit
  PROVE  Inv'
  <1>1. PICK kind \in {"provider", "archive"}, s \in 0..(now - 1), o \in Values :
          /\ log' = Append(log, [kind |-> kind, delta |-> FALSE, lo |-> 0, hi |-> SlotCount,
                                 end |-> dataEnd,
                                 pts |-> [t \in SlotSet |-> IF t = s THEN o ELSE None]])
          /\ \E window \in {SlotsOf(s \div SlotsPerHour), SlotSet} :
               Plan({Len(log')}, window, log', Append(edges, {}))
    BY DEF Admit
  <1> DEFINE a == [kind |-> kind, delta |-> FALSE, lo |-> 0, hi |-> SlotCount, end |-> dataEnd,
                   pts |-> [t \in SlotSet |-> IF t = s THEN o ELSE None]]
  <1>2. IsAcquisition(a)
    <2>1. a.pts \in Points
      BY DEF Points, Observed
    <2>2. \A t \in SlotSet : 0 <= t /\ t < SlotCount
      BY SizesAssumption DEF SlotSet
    <2>3. SlotCount \in Int /\ dataEnd \in 0..dataEnd
      BY SizesAssumption DEF Inv
    <2> QED BY <2>1, <2>2, <2>3 DEF IsAcquisition
  <1>3. UNCHANGED <<feed, now, dataEnd>> /\ log' = Append(log, a)
    BY <1>1 DEF Admit
  <1> HIDE DEF a
  <1>4. /\ Len(log') = Len(log) + 1 /\ log' = [i \in 1..Len(log') |-> log'[i]]
        /\ \A i \in 1..Len(log') : IsAcquisition(log'[i])
    BY <1>2, <1>3, LogAppended
  <1>5. Len(log) \in Nat /\ Len(log') \in Nat \ {0} /\ Len(log) <= Len(log')
        /\ {Len(log')} \in SUBSET (1..Len(log'))
    BY <1>4 DEF Inv
  <1>6. Lineage(Append(edges, {}), Len(log'))
    <2>1. Lineage(edges, Len(log)) /\ {} \in SUBSET (1..Len(log))
      BY DEF Inv
    <2>2. Lineage(Append(edges, {}), Len(log) + 1)
      BY <1>5, <2>1, LineageAppended DEF Continues
    <2> QED BY <1>4, <2>2
  <1>7. PICK window \in {SlotsOf(s \div SlotsPerHour), SlotSet} :
          \E view \in Views({Len(log')}, window, log', Append(edges, {})) : Commit(view, window)
    BY <1>1 DEF Plan
  <1>8. PICK view \in Views({Len(log')}, window, log', Append(edges, {})) : Commit(view, window)
    BY <1>7
  <1>9. /\ catalog' \subseteq 1..Len(log') /\ Lineage(edges', Len(log'))
        /\ DOMAIN holds' = HourSet /\ \A k \in HourSet : holds'[k] \subseteq 1..Len(log')
    BY <1>5, <1>6, <1>8, CommitKeeps
  <1>10. \A i \in 1..Len(log') : IsAcquisition(log[i])'
    BY <1>3, <1>4 DEF IsAcquisition
  <1> QED BY <1>3, <1>4, <1>5, <1>9, <1>10 DEF Inv

LEMMA RefreshInv ==
  ASSUME Inv, Refresh
  PROVE  Inv'
  <1> DEFINE window == RoutineWindow
             n == Len(log)
  <1>1. PICK baseline \in Views({}, window, log, edges) :
          RefreshRetained(baseline, window) \/ RefreshDelta(baseline, window)
    BY DEF Refresh
  <1>2. window \in SUBSET SlotSet /\ window # {} /\ UNCHANGED <<feed, now, dataEnd>>
    BY RoutineHours DEF Refresh
  <1>3. n \in Nat /\ Len(log) <= n /\ Lineage(edges, n) /\ {} \in SUBSET (1..n)
    BY DEF Inv
  <1>4. CASE RefreshRetained(baseline, window)
    <2>1. Commit(baseline, window) /\ log' = log
      BY <1>4 DEF RefreshRetained
    <2>2. /\ catalog' \subseteq 1..n /\ Lineage(edges', n)
          /\ DOMAIN holds' = HourSet /\ \A k \in HourSet : holds'[k] \subseteq 1..n
      <3>1. baseline \in Views({}, window, log, edges)
        BY <1>1
      <3> HIDE DEF n, window
      <3> QED BY <1>3, <2>1, <3>1, CommitKeeps
    <2>3. \A i \in 1..n : IsAcquisition(log[i])'
      BY <1>2, <2>1 DEF Inv, IsAcquisition
    <2> QED BY <1>2, <2>1, <2>2, <2>3 DEF Inv
  <1>5. CASE RefreshDelta(baseline, window)
    <2> DEFINE a == Delta(Changed(baseline, window), window)
               rel == Superseding(baseline)
    <2>1. IsAcquisition(a)
      BY <1>2, <1>5, DeltaAcquired DEF RefreshDelta
    <2>2. log' = Append(log, a)
      BY <1>5 DEF RefreshDelta
    <2>3. Lineage(rel, n + 1)
      BY <1>1, SourcesKnown, SupersedingSays
    <2>4. PICK view \in Views({n + 1}, window, log', rel) :
            LET disputed == InConflict(view, window) IN
            \/ /\ holds' = [h \in HourSet |-> IF h \in disputed THEN holds[h] \cup {n + 1}
                                              ELSE holds[h]]
               /\ edges' = Append(edges, {})
               /\ UNCHANGED catalog
            \/ Commit(view, window)
      BY <1>5 DEF RefreshDelta
    <2> HIDE DEF a, rel, n, window
    <2>5. /\ Len(log') = n + 1 /\ log' = [i \in 1..Len(log') |-> log'[i]]
          /\ \A i \in 1..Len(log') : IsAcquisition(log'[i])
          /\ 1..n \subseteq 1..Len(log')
      BY <1>2, <2>1, <2>2, LogAppended DEF n
    <2>6. \A i \in 1..Len(log') : IsAcquisition(log[i])'
      BY <1>2, <2>5 DEF IsAcquisition
    <2>7. n + 1 \in Nat \ {0} /\ n <= n + 1 /\ {n + 1} \in SUBSET (1..(n + 1))
      BY <1>3
    <2>8. /\ catalog' \subseteq 1..(n + 1) /\ Lineage(edges', n + 1)
          /\ DOMAIN holds' = HourSet /\ \A k \in HourSet : holds'[k] \subseteq 1..(n + 1)
      <3>1. CASE Commit(view, window)
        BY <2>3, <2>4, <2>7, <3>1, CommitKeeps DEF n
      <3>2. ASSUME NEW disputed,
                   /\ holds' = [h \in HourSet |-> IF h \in disputed THEN holds[h] \cup {n + 1}
                                                  ELSE holds[h]]
                   /\ edges' = Append(edges, {})
                   /\ UNCHANGED catalog
            PROVE  /\ catalog' \subseteq 1..(n + 1) /\ Lineage(edges', n + 1)
                   /\ DOMAIN holds' = HourSet /\ \A k \in HourSet : holds'[k] \subseteq 1..(n + 1)
        <4>1. Lineage(edges', n + 1)
          BY <1>3, <3>2, LineageAppended DEF Continues
        <4>2. catalog \subseteq 1..n /\ \A h \in HourSet : holds[h] \subseteq 1..n
          BY DEF Inv, n
        <4>3. 1..n \subseteq 1..(n + 1) /\ n + 1 \in 1..(n + 1)
          BY <1>3
        <4> QED BY <3>2, <4>1, <4>2, <4>3
      <3>3. CASE ~Commit(view, window)
        <4> DEFINE disputed == InConflict(view, window)
        <4>1. /\ holds' = [h \in HourSet |-> IF h \in disputed THEN holds[h] \cup {n + 1}
                                              ELSE holds[h]]
              /\ edges' = Append(edges, {})
              /\ UNCHANGED catalog
          BY <2>4, <3>3
        <4> HIDE DEF disputed
        <4> QED BY <3>2, <4>1
      <3> QED BY <3>1, <3>3
    <2> QED BY <1>2, <2>5, <2>6, <2>7, <2>8 DEF Inv
  <1> QED BY <1>1, <1>4, <1>5

LEMMA StepInv == Inv /\ [Next]_vars => Inv'
  <1> SUFFICES ASSUME Inv, [Next]_vars PROVE Inv'
    OBVIOUS
  <1>1. CASE UNCHANGED vars
    BY <1>1 DEF vars, evidence, Inv, IsAcquisition, Lineage
  <1> QED BY <1>1, WorldInv, ReviewInv, AdmitInv, RefreshInv DEF Next

\* The log, its windows and the lineage keep their shape.
THEOREM InvHolds == Spec => []Inv
  <1> QED BY InitInv, StepInv, PTL DEF Spec

(***************************************************************************)
(* Retirement loses lineage only: whatever a pass would retire now, the    *)
(* window and the whole month resolve to the same observations, conflicts  *)
(* and horizon without it, so that the check after source_redundancy never *)
(* refuses, over any number of passes, corrections, reviews and holds.     *)
(***************************************************************************)
THEOREM RetirementInvisibleHolds == Spec => []RetirementInvisible
  <1>1. Inv => RetirementInvisible
    <2> SUFFICES ASSUME Inv, RoutineWindow # {} PROVE RetirementInvisible
      BY DEF RetirementInvisible
    <2> DEFINE ids    == catalog \cup Held
               window == RoutineWindow
               loaded == Overlapping(log, ids, window)
               needed == Needed(log, loaded, edges, window, Held)
    <2>1. Len(log) \in Nat /\ Lineage(edges, Len(log)) /\ dataEnd \in Nat
      BY DEF Inv
    <2>2. ids \subseteq 1..Len(log) /\ loaded \in SUBSET ids
      BY HeldKnown DEF Inv, Overlapping
    <2>3. Ends(log, ids, Len(log), dataEnd) /\ Ends(log, loaded, Len(log), dataEnd)
      BY <2>2 DEF Ends, Named, Inv, IsAcquisition
    <2>4. ASSUME NEW i \in ids \ loaded, NEW s \in window PROVE log[i].pts[s] = None
      <3>1. s \in SlotSet /\ s \in Int /\ Least(window) \in Int /\ Greatest(window) \in Int
            /\ Least(window) <= s /\ s <= Greatest(window)
        <4>1. window \subseteq SlotSet /\ window \subseteq Int
          BY RoutineHours DEF SlotSet
        <4> QED BY <4>1, WindowEnds
      <3>2. IsAcquisition(log[i])
        BY <2>2 DEF Inv
      <3>3. ~(log[i].lo <= Greatest(window) /\ log[i].hi >= Least(window))
        BY DEF Overlapping
      <3> HIDE DEF window
      <3> QED BY <3>1, <3>2, <3>3 DEF IsAcquisition
    <2> HIDE DEF ids, window
    <2>5. ASSUME NEW w \in Witnesses(log, loaded, needed), NEW retired,
                 retired = loaded \ (needed \cup w), NEW some \in {loaded, ids}
          PROVE  Resolution(log, some \ retired, Contracted(edges, retired), From)
                   = Resolution(log, some, edges, From)
      <3>1. some = ids \/ some = loaded
        OBVIOUS
      <3>2. /\ Ends(log, some, Len(log), dataEnd) /\ loaded \in SUBSET some
            /\ \A i \in some \ loaded : \A s \in window : log[i].pts[s] = None
        BY <2>2, <2>3, <2>4, <3>1
      <3>3. Retires(retired, log, loaded, edges, window, Held)
        BY <2>5 DEF Retires
      <3> HIDE DEF loaded
      <3> QED BY <2>1, <3>2, <3>3, RetiringKeepsResolution
    <2> QED BY <2>5 DEF RetirementInvisible, ids, window
  <1> QED BY <1>1, InvHolds, PTL

(***************************************************************************)
(* What a pass shows is what the provider returned                         *)
(***************************************************************************)

\* What archives say before the first provider point does not depend on where
\* that point is, as long as it says something.
LEMMA SlotWhereverFirst ==
  ASSUME NEW acq, NEW anc, NEW s, NEW ids, NEW from, NEW other,
         Slot(acq, ids, anc, from, s) # None, Slot(acq, ids, anc, other, s) # None
  PROVE  Slot(acq, ids, anc, from, s) = Slot(acq, ids, anc, other, s)
  <1> DEFINE P == Having(acq, ids, "provider", s)
             A == Having(acq, ids, "archive", s)
             seen == {acq[i].pts[s] : i \in A}
             told == IF Cardinality(seen) = 1 THEN CHOOSE o \in seen : TRUE ELSE Disputed
  <1>1. \A f : Slot(acq, ids, anc, f, s) =
                 IF P = {} THEN ArchiveSlot(acq, A, f, s) ELSE ProviderSlot(acq, P, A, anc, s)
    BY DEF Slot
  <1>2. \A f : ArchiveSlot(acq, A, f, s) \in {None, told}
    BY DEF ArchiveSlot
  <1> HIDE DEF P, A, seen, told
  <1> QED BY <1>1, <1>2

\* The newest acquisition of a slot is superseded by none: either it says what
\* the slot resolves to, or nothing does.
LEMMA NewestDecides ==
  ASSUME NEW n \in Nat, NEW acq, NEW rel, Lineage(rel, n), NEW from, NEW s,
         NEW ids \in SUBSET (1..n), n \in Having(acq, ids, "provider", s)
  PROVE  Slot(acq, ids, Ancestors(rel), from, s) \in {Disputed, acq[n].pts[s]}
  <1> DEFINE P == Having(acq, ids, "provider", s)
             A == Having(acq, ids, "archive", s)
             anc == Ancestors(rel)
             W == Winners(acq, anc, P, s)
             c == CHOOSE i \in W : TRUE
  <1>1. \A i \in 1..n : anc[i] \subseteq 1..(i - 1)
    BY AncestorsOf
  <1>2. n \in P /\ P \subseteq 1..n
    BY DEF Having
  <1> HIDE DEF anc, P, A
  <1>3. ASSUME NEW w \in W PROVE acq[w].pts[s] = acq[n].pts[s]
    <2>1. w \in P /\ (acq[n].pts[s] = acq[w].pts[s] \/ n \in anc[w])
      BY <1>2 DEF Winners
    <2>2. n \notin anc[w]
      <3>1. w \in 1..n /\ anc[w] \subseteq 1..(w - 1)
        BY <1>1, <1>2, <2>1
      <3> QED BY <3>1
    <2> QED BY <2>1, <2>2
  <1>4. W # {} => c \in W
    OBVIOUS
  <1> HIDE DEF W
  <1>5. W # {} => acq[c].pts[s] = acq[n].pts[s]
    BY <1>3, <1>4
  <1>6. Slot(acq, ids, Ancestors(rel), from, s) = ProviderSlot(acq, P, A, anc, s)
    BY <1>2 DEF Slot, P, A, anc
  <1>7. ProviderSlot(acq, P, A, anc, s) =
          IF W = {} \/ (acq[c].pts[s] # Gone /\ \E i \in A : acq[i].pts[s] # acq[c].pts[s])
          THEN Disputed ELSE acq[c].pts[s]
    BY DEF ProviderSlot, W, c
  <1> HIDE DEF c
  <1> QED BY <1>5, <1>6, <1>7

\* What the slots of a view say.
Speaks(view, acq, ids, rel, from) ==
  \A s \in SlotSet : view.slots[s] = Slot(acq, ids, Ancestors(rel), from, s)

LEMMA ViewSlots ==
  ASSUME NEW n \in Nat, NEW asked, NEW window, NEW acq, NEW rel, Lineage(rel, n),
         NEW view \in Views(asked, window, acq, rel), DOMAIN acq[1].pts = SlotSet
  PROVE  \E from : Speaks(view, acq, Overlapping(acq, Ids(asked), window), rel, from)
  <1> DEFINE loaded == Overlapping(acq, Ids(asked), window)
             from == IF ArchivePolicy THEN FirstProvider(acq, Ids(asked), first) ELSE None
  <1>1. view.slots = Resolution(acq, loaded, rel, from).slots
    BY ViewSays
  <1> HIDE DEF loaded, from
  <1>2. view.slots = [s \in SlotSet |-> Slot(acq, loaded, Ancestors(rel), from, s)]
    BY <1>1 DEF Resolution
  <1>3. Speaks(view, acq, loaded, rel, from)
    BY <1>2 DEF Speaks
  <1> QED BY <1>3 DEF loaded

\* A ready hour shows what the slots of its view say, each of them valid.
LEMMA ReadyPoints ==
  ASSUME NEW view, NEW h \in HourSet, Assessed(view, h).status = "ready",
         NEW i \in 1..SlotsPerHour
  PROVE  /\ Assessed(view, h).points[i] = view.slots[h * SlotsPerHour + i - 1]
         /\ view.slots[h * SlotsPerHour + i - 1] \in Values
  <1> DEFINE points == [k \in 1..SlotsPerHour |-> view.slots[h * SlotsPerHour + k - 1]]
             seen   == {points[k] : k \in 1..SlotsPerHour}
             closed == /\ (h + 1) * SlotsPerHour <= now
                       /\ Greatest(SlotsOf(h)) <= view.horizon
  <1>1. Assessed(view, h) =
          IF Disputed \in seen THEN [status |-> "source_conflict", points |-> <<>>]
          ELSE IF closed /\ seen \subseteq Values THEN [status |-> "ready", points |-> points]
               ELSE [status |-> "incomplete", points |-> <<>>]
    BY DEF Assessed
  <1>2. points[i] = view.slots[h * SlotsPerHour + i - 1] /\ points[i] \in seen
    OBVIOUS
  <1> HIDE DEF points, seen, closed
  <1> QED BY <1>1, <1>2

\* The ready hours of a pass show what the provider returned, when its view
\* says so of every valid slot of the window.
LEMMA PassFollows ==
  ASSUME NEW view, NEW window, Commit(view, window), pass'.window = window, feed' = feed,
         \A s \in window \cap SlotSet : view.slots[s] \in Values => feed[s] \in {None, view.slots[s]}
  PROVE  RoutineFollowsProvider'
  <1> SUFFICES ASSUME NEW h \in HoursOf(window), proofs'[h].status = "ready",
                      NEW i \in 1..SlotsPerHour
               PROVE  feed[h * SlotsPerHour + i - 1] \in {None, proofs'[h].points[i]}
    BY DEF RoutineFollowsProvider
  <1>1. h \in HourSet /\ SlotsOf(h) \subseteq window
    BY DEF HoursOf
  <1>2. proofs'[h] = Assessed(view, h)
    BY <1>1 DEF Commit
  <1> DEFINE s == h * SlotsPerHour + i - 1
  <1>3. s \in window \cap SlotSet
    BY <1>1, HourSlots
  <1>4. view.slots[s] \in Values /\ proofs'[h].points[i] = view.slots[s]
    BY <1>1, <1>2, ReadyPoints
  <1> HIDE DEF s
  <1>5. feed[s] \in {None, proofs'[h].points[i]}
    BY <1>3, <1>4
  <1> QED BY <1>5 DEF s

\* A capture that changed nothing says what the baseline says.
LEMMA RetainedFollows ==
  ASSUME Inv, NEW baseline, NEW window \in SUBSET SlotSet, RefreshRetained(baseline, window),
         feed' = feed
  PROVE  RoutineFollowsProvider'
  <1>1. Commit(baseline, window) /\ pass'.window = window /\ Changed(baseline, window) = {}
    BY DEF RefreshRetained, Passed
  <1>2. \A s \in window \cap SlotSet : feed[s] \in {None, baseline.slots[s]}
    BY <1>1 DEF Changed
  <1> QED BY <1>1, <1>2, PassFollows

\* A slot the delta has no row for resolves as it did.
LEMMA SlotWithoutRow ==
  ASSUME NEW n \in Nat, NEW acq, NEW bcq, NEW anc, NEW bnc, NEW from, NEW s,
         NEW ids \in SUBSET (1..n), \A i \in 1..n : bcq[i] = acq[i] /\ bnc[i] = anc[i],
         bcq[n + 1].pts[s] = None
  PROVE  Slot(bcq, ids \cup {n + 1}, bnc, from, s) = Slot(acq, ids, anc, from, s)
  <1>1. \A kind : Having(bcq, ids \cup {n + 1}, kind, s) = Having(bcq, ids, kind, s)
    BY DEF Having
  <1>2. Slot(bcq, ids \cup {n + 1}, bnc, from, s) = Slot(bcq, ids, bnc, from, s)
    BY <1>1 DEF Slot
  <1>3. Alike(acq, bcq, anc, bnc, ids)
    BY DEF Alike
  <1>4. Slot(bcq, ids, bnc, from, s) = Slot(acq, ids, anc, from, s)
    BY <1>3, SlotOfSame
  <1> QED BY <1>2, <1>4

\* ... and needs what it needed.
LEMMA NeededWithoutRow ==
  ASSUME NEW n \in Nat, NEW acq, NEW bcq, NEW anc, NEW bnc, NEW s,
         NEW ids \in SUBSET (1..n), \A i \in 1..n : bcq[i] = acq[i] /\ bnc[i] = anc[i],
         bcq[n + 1].pts[s] = None
  PROVE  /\ NeededAt(bcq, ids \cup {n + 1}, bnc, s) = NeededAt(acq, ids, anc, s)
         /\ Having(bcq, ids \cup {n + 1}, "provider", s) = Having(acq, ids, "provider", s)
  <1>1. \A kind : Having(bcq, ids \cup {n + 1}, kind, s) = Having(bcq, ids, kind, s)
    BY DEF Having
  <1>2. NeededAt(bcq, ids \cup {n + 1}, bnc, s) = NeededAt(bcq, ids, bnc, s)
    BY <1>1 DEF NeededAt
  <1>3. Alike(acq, bcq, anc, bnc, ids)
    BY DEF Alike
  <1>4. NeededAt(bcq, ids, bnc, s) = NeededAt(acq, ids, anc, s)
    <2> DEFINE from == None
    <2>1. Slot(bcq, ids, bnc, from, s) = Slot(acq, ids, anc, from, s)
          /\ NeededAt(bcq, ids, bnc, s) = NeededAt(acq, ids, anc, s)
      BY <1>3, SlotOfSame
    <2> QED BY <2>1
  <1>5. Having(bcq, ids, "provider", s) = Having(acq, ids, "provider", s)
    BY DEF Having
  <1> QED BY <1>1, <1>2, <1>4, <1>5

\* The evidence of a window before a capture, and with the delta of it.
Before(window) == Overlapping(log, Ids({}), window)
Loaded(window) == Overlapping(log', Ids({Len(log) + 1}), window)

DeltaSetting(window, baseline) ==
  LET n       == Len(log)
      changed == Changed(baseline, window)
      rel     == Superseding(baseline)
  IN  /\ n \in Nat /\ n + 1 \in Nat /\ Lineage(edges, n) /\ Lineage(rel, n + 1)
      /\ \A i \in 1..n : log'[i] = log[i] /\ Ancestors(rel)[i] = Ancestors(edges)[i]
      /\ \A i \in 1..(n + 1) : IsAcquisition(log'[i])
      /\ log'[n + 1] = Delta(changed, window)
      /\ log'[n + 1].kind = "provider"
      /\ \A s \in SlotSet : log'[n + 1].pts[s] = IF s \in changed THEN feed[s] ELSE None
      /\ DOMAIN log[1].pts = SlotSet /\ DOMAIN log'[1].pts = SlotSet
      /\ Before(window) \in SUBSET (1..n) /\ Loaded(window) = Before(window) \cup {n + 1}
      /\ \A i \in Ids({n + 1}) \ Loaded(window), s \in window : log'[i].pts[s] = None
      /\ Ids({n + 1}) = Ids({}) \cup {n + 1} /\ Ids({}) \in SUBSET (1..n)

\* A delta is loaded beside what the baseline loaded.
LEMMA DeltaSet ==
  ASSUME Inv, NEW window, window = RoutineWindow, window # {},
         NEW baseline \in Views({}, window, log, edges), Changed(baseline, window) # {},
         log' = Append(log, Delta(Changed(baseline, window), window)), dataEnd' = dataEnd
  PROVE  DeltaSetting(window, baseline)
  <1> DEFINE n == Len(log)
             changed == Changed(baseline, window)
             a == Delta(changed, window)
             rel == Superseding(baseline)
             lo == Least(window)
             hi == Greatest(window)
  <1>1. window \in SUBSET SlotSet /\ window \subseteq Int
    BY RoutineHours DEF SlotSet
  <1>2. IsAcquisition(a) /\ n \in Nat \ {0} /\ Lineage(edges, n) /\ n + 1 \in Nat
    BY <1>1, DeltaAcquired DEF Inv
  <1>3. /\ Len(log') = n + 1 /\ log'[n + 1] = a /\ \A i \in 1..n : log'[i] = log[i]
        /\ \A i \in 1..(n + 1) : IsAcquisition(log'[i])
    BY <1>2, LogAppended
  <1>4. Lineage(rel, n + 1) /\ \A i \in 1..n : Ancestors(rel)[i] = Ancestors(edges)[i]
    BY SourcesKnown, SupersedingSays
  <1>5. DOMAIN log[1].pts = SlotSet /\ DOMAIN log'[1].pts = SlotSet
    <2>1. IsAcquisition(log[1]) /\ IsAcquisition(log'[1])
      BY <1>2, <1>3 DEF Inv
    <2> QED BY <2>1 DEF IsAcquisition, Points
  <1>6. Ids({}) \in SUBSET (1..n) /\ Ids({n + 1}) = Ids({}) \cup {n + 1}
    BY HeldKnown DEF Ids, Inv
  <1>7. /\ a.lo = lo /\ a.hi = hi + 1 /\ a.kind = "provider"
        /\ \A s \in SlotSet : a.pts[s] = IF s \in changed THEN feed[s] ELSE None
    BY DEF Delta
  <1>8. lo \in Int /\ hi \in Int /\ lo <= hi /\ \A s \in window : lo <= s /\ s <= hi
    BY <1>1, WindowEnds
  <1> HIDE DEF n, a, rel, changed
  <1>9. /\ Before(window) = {i \in Ids({}) : log[i].lo <= hi /\ log[i].hi >= lo}
        /\ Loaded(window) = {i \in Ids({n + 1}) : log'[i].lo <= hi /\ log'[i].hi >= lo}
    BY DEF Before, Loaded, Overlapping, n
  <1> HIDE DEF lo, hi
  <1>10. Before(window) \in SUBSET (1..n) /\ Loaded(window) = Before(window) \cup {n + 1}
    <2>1. a.lo <= hi /\ a.hi >= lo
      BY <1>7, <1>8
    <2>2. \A i \in Ids({}) : log'[i] = log[i]
      BY <1>3, <1>6
    <2> QED BY <1>3, <1>6, <1>9, <2>1, <2>2
  <1>11. ASSUME NEW i \in Ids({n + 1}) \ Loaded(window), NEW s \in window
         PROVE  log'[i].pts[s] = None
    <2>1. s \in SlotSet /\ s \in Int
      BY <1>1
    <2>2. i \in 1..(n + 1)
      <3>1. i \in Ids({}) \/ i = n + 1
        BY <1>6
      <3> QED BY <1>2, <1>6, <3>1
    <2> DEFINE b == log'[i]
    <2>3. IsAcquisition(b) /\ ~(b.lo <= hi /\ b.hi >= lo)
      BY <1>3, <1>9, <2>2
    <2> HIDE DEF b
    <2>4. b.lo \in Int /\ b.hi \in Int /\ (b.pts[s] # None => b.lo <= s /\ s < b.hi)
      BY <2>1, <2>3 DEF IsAcquisition
    <2>5. b.pts[s] = None
      BY <1>8, <2>1, <2>3, <2>4
    <2> QED BY <2>5 DEF b
  <1> QED BY <1>2, <1>3, <1>4, <1>5, <1>6, <1>7, <1>10, <1>11 DEF DeltaSetting, n, a, rel, changed

\* An accepted delta and what it supersedes say what the capture returned.
LEMMA DeltaFollows ==
  ASSUME Inv, NEW window, NEW baseline \in Views({}, window, log, edges),
         DeltaSetting(window, baseline), feed' = feed, pass'.window = window,
         NEW view \in Views({Len(log) + 1}, window, log', Superseding(baseline)),
         Commit(view, window)
  PROVE  RoutineFollowsProvider'
  <1> DEFINE n == Len(log)
             changed == Changed(baseline, window)
             rel == Superseding(baseline)
             before == Before(window)
             loaded == Loaded(window)
  <1>1. /\ n \in Nat /\ n + 1 \in Nat /\ Lineage(edges, n) /\ Lineage(rel, n + 1)
        /\ \A i \in 1..n : log'[i] = log[i] /\ Ancestors(rel)[i] = Ancestors(edges)[i]
        /\ log'[n + 1].kind = "provider"
        /\ \A s \in SlotSet : log'[n + 1].pts[s] = IF s \in changed THEN feed[s] ELSE None
        /\ DOMAIN log[1].pts = SlotSet /\ DOMAIN log'[1].pts = SlotSet
        /\ before \in SUBSET (1..n) /\ loaded = before \cup {n + 1}
    BY DEF DeltaSetting
  <1>2. PICK from : Speaks(baseline, log, before, edges, from)
    BY <1>1, ViewSlots DEF Before
  <1>3. PICK other : Speaks(view, log', loaded, rel, other)
    BY <1>1, ViewSlots DEF Loaded
  <1> HIDE DEF n, rel, changed, before, loaded
  <1>4. ASSUME NEW s \in window \cap SlotSet, view.slots[s] \in Values, feed[s] # None
         PROVE  feed[s] = view.slots[s]
    <2>1. CASE s \in changed
      <3>1. log'[n + 1].pts[s] = feed[s]
        BY <1>1, <2>1
      <3>2. loaded \in SUBSET (1..(n + 1)) /\ n + 1 \in loaded
        BY <1>1
      <3>3. n + 1 \in Having(log', loaded, "provider", s)
        BY <1>1, <1>4, <3>1, <3>2 DEF Having
      <3>4. n + 1 \in Nat /\ Lineage(rel, n + 1)
        BY <1>1
      <3>5. Slot(log', loaded, Ancestors(rel), other, s) \in {Disputed, log'[n + 1].pts[s]}
        BY <3>2, <3>3, <3>4, NewestDecides
      <3>6. view.slots[s] \in {Disputed, feed[s]}
        BY <1>3, <3>1, <3>5 DEF Speaks
      <3> QED BY <1>4, <3>6, ValuesAssumption
    <2>2. CASE s \notin changed
      <3>1. baseline.slots[s] = feed[s]
        BY <1>4, <2>2 DEF Changed, changed
      <3>2. log'[n + 1].pts[s] = None
        BY <1>1, <2>2
      <3>3. Slot(log', loaded, Ancestors(rel), other, s) = Slot(log, before, Ancestors(edges), other, s)
        BY <1>1, <3>2, SlotWithoutRow
      <3>4. /\ Slot(log, before, Ancestors(edges), from, s) = feed[s]
            /\ Slot(log, before, Ancestors(edges), other, s) = view.slots[s]
        BY <1>2, <1>3, <3>1, <3>3 DEF Speaks
      <3>5. view.slots[s] # None
        BY <1>4, ValuesAssumption
      <3> QED BY <1>4, <3>4, <3>5, SlotWhereverFirst
    <2> QED BY <2>1, <2>2
  <1>5. \A s \in window \cap SlotSet : view.slots[s] \in Values => feed[s] \in {None, view.slots[s]}
    BY <1>4
  <1> QED BY <1>5, PassFollows

\* A refresh holds hours in conflict, or accepts what it found or its delta.
LEMMA RefreshCases ==
  ASSUME Inv, Refresh
  PROVE  LET window == RoutineWindow
         IN  /\ UNCHANGED <<feed, now, dataEnd>> /\ window \in SUBSET SlotSet
             /\ \/ pass' = NoPass
                \/ \E baseline \in Views({}, window, log, edges) :
                     \/ RefreshRetained(baseline, window)
                     \/ /\ DeltaSetting(window, baseline) /\ Passed(window, baseline)
                        /\ \E view \in Views({Len(log) + 1}, window, log', Superseding(baseline)) :
                             Commit(view, window) /\ InConflict(view, window) = {}
  <1> DEFINE window == RoutineWindow
  <1>1. window \in SUBSET SlotSet /\ window # {} /\ UNCHANGED <<feed, now, dataEnd>>
    BY RoutineHours DEF Refresh
  <1>2. PICK baseline \in Views({}, window, log, edges) :
          RefreshRetained(baseline, window) \/ RefreshDelta(baseline, window)
    BY DEF Refresh
  <1>3. CASE RefreshDelta(baseline, window)
    <2>1. /\ Changed(baseline, window) # {}
          /\ log' = Append(log, Delta(Changed(baseline, window), window))
          /\ \E view \in Views({Len(log) + 1}, window, log', Superseding(baseline)) :
               \/ pass' = NoPass
               \/ InConflict(view, window) = {} /\ Passed(window, baseline) /\ Commit(view, window)
      BY <1>3 DEF RefreshDelta
    <2>2. DeltaSetting(window, baseline)
      BY <1>1, <2>1, DeltaSet
    <2> HIDE DEF window
    <2> QED BY <1>1, <1>2, <2>1, <2>2 DEF window
  <1> QED BY <1>1, <1>2, <1>3

(***************************************************************************)
(* Once a pass is accepted, every ready hour of its window shows what the  *)
(* provider returned for it, until the provider or a reviewed plan says    *)
(* otherwise, whatever was corrected, deleted, superseded, retired or      *)
(* reviewed before, and whatever archives were admitted.                   *)
(***************************************************************************)
THEOREM RoutineFollowsProviderHolds == Spec => []RoutineFollowsProvider
  <1>1. pass = NoPass => RoutineFollowsProvider
    BY HourSlots DEF RoutineFollowsProvider, NoPass, HoursOf
  <1>2. pass' = NoPass => RoutineFollowsProvider'
    <2>1. HoursOf({}) = {}
      BY HourSlots DEF HoursOf
    <2> QED BY <2>1 DEF RoutineFollowsProvider, NoPass
  <1>3. Init => RoutineFollowsProvider
    BY <1>1 DEF Init
  <1>4. Inv /\ RoutineFollowsProvider /\ [Next]_vars => RoutineFollowsProvider'
    <2> SUFFICES ASSUME Inv, RoutineFollowsProvider, [Next]_vars PROVE RoutineFollowsProvider'
      OBVIOUS
    <2>1. CASE Publish \/ Correct \/ Review \/ Admit
      <3>1. pass' = NoPass
        BY <2>1 DEF Publish, Correct, Review, Admit, Plan
      <3> QED BY <1>2, <3>1
    <2>2. CASE Summarise \/ UNCHANGED vars
      <3>1. UNCHANGED <<feed, proofs, pass>>
        BY <2>2 DEF Summarise, vars, evidence
      <3> QED BY <3>1 DEF RoutineFollowsProvider
    <2>3. CASE Refresh
      <3> DEFINE window == RoutineWindow
      <3>1. CASE pass' = NoPass
        BY <1>2, <3>1
      <3>2. ASSUME NEW baseline \in Views({}, window, log, edges), RefreshRetained(baseline, window)
            PROVE  RoutineFollowsProvider'
        BY <2>3, <3>2, RefreshCases, RetainedFollows
      <3>3. ASSUME NEW baseline \in Views({}, window, log, edges),
                   DeltaSetting(window, baseline), Passed(window, baseline),
                   NEW view \in Views({Len(log) + 1}, window, log', Superseding(baseline)),
                   Commit(view, window)
            PROVE  RoutineFollowsProvider'
        <4>1. feed' = feed /\ pass'.window = window
          BY <2>3, <3>3, RefreshCases DEF Passed
        <4> QED BY <3>3, <4>1, DeltaFollows
      <3> QED BY <2>3, <3>1, <3>2, <3>3, RefreshCases
    <2> QED BY <2>1, <2>2, <2>3 DEF Next
  <1> QED BY <1>3, <1>4, InvHolds, PTL DEF Spec

(***************************************************************************)
(* A closed day converges                                                  *)
(***************************************************************************)

\* A winner that is not maximal is superseded by one that is.
LEMMA MaximalAbove ==
  ASSUME NEW n \in Nat, NEW acq, NEW rel, Lineage(rel, n), NEW s, NEW P \in SUBSET (1..n),
         NEW w \in Winners(acq, Ancestors(rel), P, s),
         w \notin Maximal(Ancestors(rel), Winners(acq, Ancestors(rel), P, s))
  PROVE  \E m \in Maximal(Ancestors(rel), Winners(acq, Ancestors(rel), P, s)) : w \in Ancestors(rel)[m]
  <1> DEFINE anc == Ancestors(rel)
             W == Winners(acq, anc, P, s)
             Over == {j \in W : w \in anc[j]}
  <1>1. W \subseteq 1..n
    BY DEF Winners
  <1>2. \A i \in 1..n : anc[i] \subseteq 1..(i - 1) /\ \A j \in anc[i] : anc[j] \subseteq anc[i]
    BY AncestorsOf, AncestorsTransitive
  <1> HIDE DEF anc, W
  <1>3. Over # {}
    BY DEF Maximal, anc, W
  <1>4. PICK m \in Over : \A j \in Over : j <= m
    <2>1. Over \subseteq 1..n
      BY <1>1
    <2> HIDE DEF Over
    <2>2. Over \in SUBSET Nat /\ \A j \in Over : j <= n
      BY <2>1
    <2> QED BY <1>3, <2>2, NatSetMaximum
  <1>5. ASSUME NEW j \in W, m \in anc[j] PROVE FALSE
    <2>1. j \in 1..n /\ m \in 1..n /\ w \in anc[m]
      BY <1>1
    <2>2. m < j /\ w \in anc[j]
      BY <1>2, <1>5, <2>1
    <2> QED BY <1>4, <2>1, <2>2
  <1> QED BY <1>4, <1>5 DEF Maximal, anc, W

\* A slot the newest acquisition has a row for needs that one alone, when it
\* supersedes every other winner and what that one supersedes.
LEMMA NewestSettles ==
  ASSUME NEW n \in Nat, NEW acq, NEW rel, Lineage(rel, n), NEW s, NEW A,
         NEW P \in SUBSET (1..n), n \in P,
         ProviderSlot(acq, P, A, Ancestors(rel), s) # Disputed,
         \A w \in Winners(acq, Ancestors(rel), P, s) \ {n} :
           w \in Ancestors(rel)[n] /\ Ancestors(rel)[w] \subseteq Ancestors(rel)[n]
  PROVE  Maximal(Ancestors(rel), Winners(acq, Ancestors(rel), P, s)) = {n}
  <1> DEFINE anc == Ancestors(rel)
             W == Winners(acq, anc, P, s)
  <1>1. W \subseteq P /\ W # {}
    BY DEF Winners, ProviderSlot
  <1>2. \A i \in 1..n : n \notin anc[i]
    <2>1. \A i \in 1..n : anc[i] \subseteq 1..(i - 1)
      BY AncestorsOf
    <2> QED BY <2>1
  <1> HIDE DEF anc
  <1>3. \A w \in W, j \in P : acq[j].pts[s] = acq[w].pts[s] \/ j \in anc[w]
    BY DEF Winners
  <1>4. \A w \in W \ {n} : w \in anc[n] /\ anc[w] \subseteq anc[n]
    BY DEF anc
  <1>5. n \in W
    <2>1. PICK w \in W : TRUE
      BY <1>1
    <2>2. CASE w # n
      <3> HIDE DEF W
      <3>1. acq[n].pts[s] = acq[w].pts[s]
        BY <1>1, <1>2, <1>3
      <3>2. \A j \in P : acq[j].pts[s] = acq[n].pts[s] \/ j \in anc[n]
        BY <1>3, <1>4, <2>2, <3>1
      <3> QED BY <3>2 DEF W, Winners
    <2> QED BY <2>1, <2>2
  <1> HIDE DEF W
  <1>6. \A w \in W : n \notin anc[w]
    BY <1>1, <1>2
  <1> QED BY <1>4, <1>5, <1>6 DEF Maximal, anc, W

\* A pass retires what it finds needless: its own check never refuses.
Rests(view, acq, loaded, rel, window, protected) ==
  /\ view.sources = loaded \ view.retired
  /\ Retires(view.retired, acq, loaded, rel, window, protected)
  /\ view.edges = Contracted(rel, view.retired)
  /\ \A from : Resolution(acq, view.sources, view.edges, from) = Resolution(acq, loaded, rel, from)

LEMMA ViewRetires ==
  ASSUME NEW n \in Nat, NEW stop \in Nat, NEW asked, NEW window, NEW acq, NEW rel, Lineage(rel, n),
         Ends(acq, Overlapping(acq, Ids(asked), window), n, stop),
         NEW view \in Views(asked, window, acq, rel)
  PROVE  Rests(view, acq, Overlapping(acq, Ids(asked), window), rel, window,
               Held \cup (asked \ catalog))
  <1> DEFINE ids     == Ids(asked)
             loaded  == Overlapping(acq, ids, window)
             anchor  == FirstProvider(acq, ids, first)
             begin   == IF ArchivePolicy THEN anchor ELSE None
             before  == Resolution(acq, loaded, rel, begin)
             needed  == Needed(acq, loaded, rel, window, Held \cup (asked \ catalog))
             Shows(retired, left) ==
               [ids |-> ids, sources |-> loaded \ retired, retired |-> retired, edges |-> left,
                first |-> anchor, slots |-> before.slots, horizon |-> before.horizon]
  <1>1. PICK w \in Witnesses(acq, loaded, needed) :
          LET retired == loaded \ (needed \cup w)
              left    == Contracted(rel, retired)
          IN  view = IF retired = {} \/ before = Resolution(acq, loaded \ retired, left, begin)
                     THEN Shows(retired, left) ELSE Shows({}, rel)
    BY DEF Views, Ids
  <1> DEFINE retired == loaded \ (needed \cup w)
             left    == Contracted(rel, retired)
  <1>2. ASSUME NEW from
        PROVE  Resolution(acq, loaded \ retired, left, from) = Resolution(acq, loaded, rel, from)
    <2>1. /\ Ends(acq, loaded, n, stop) /\ loaded \in SUBSET loaded
          /\ \A i \in loaded \ loaded : \A s \in window : acq[i].pts[s] = None
      OBVIOUS
    <2>2. Retires(retired, acq, loaded, rel, window, Held \cup (asked \ catalog))
      BY DEF Retires
    <2> HIDE DEF loaded, retired
    <2> QED BY <2>1, <2>2, RetiringKeepsResolution
  <1>3. view = Shows(retired, left)
    <2>1. view = IF retired = {} \/ before = Resolution(acq, loaded \ retired, left, begin)
                 THEN Shows(retired, left) ELSE Shows({}, rel)
      BY <1>1
    <2>2. before = Resolution(acq, loaded \ retired, left, begin)
      BY <1>2
    <2> HIDE DEF before, retired, left, Shows
    <2> QED BY <2>1, <2>2
  <1> HIDE DEF ids, loaded, anchor, begin, before, needed, retired, left
  <1>4. /\ view.ids = ids /\ view.sources = loaded \ retired /\ view.retired = retired
        /\ view.edges = left
    BY <1>3
  <1>5. /\ Retires(view.retired, acq, loaded, rel, window, Held \cup (asked \ catalog))
        /\ view.edges = Contracted(rel, view.retired)
    BY <1>4 DEF retired, left, needed, Retires
  <1>6. \A from : Resolution(acq, view.sources, view.edges, from) = Resolution(acq, loaded, rel, from)
    BY <1>2, <1>4
  <1> QED BY <1>4, <1>5, <1>6 DEF ids, loaded, Rests

\* What a slot needs is needed.
LEMMA NeededSays ==
  ASSUME NEW acq, NEW ids, NEW rel, NEW window, NEW protected,
         NEW needed, needed = Needed(acq, ids, rel, window, protected)
  PROVE  /\ needed \subseteq ids
         /\ \A i \in ids : acq[i].kind # "provider" \/ ~acq[i].delta \/ i \in protected => i \in needed
         /\ \A i \in ids, s \in DOMAIN acq[1].pts \ window : acq[i].pts[s] # None => i \in needed
         /\ \A s \in DOMAIN acq[1].pts : NeededAt(acq, ids, Ancestors(rel), s) \subseteq needed
         /\ \A i \in needed : \/ acq[i].kind # "provider" \/ ~acq[i].delta \/ i \in protected
                              \/ \E s \in DOMAIN acq[1].pts \ window : acq[i].pts[s] # None
                              \/ \E s \in DOMAIN acq[1].pts : i \in NeededAt(acq, ids, Ancestors(rel), s)
  <1>1. \A s : NeededAt(acq, ids, Ancestors(rel), s) \subseteq ids
    BY DEF NeededAt, Having, Maximal, Winners
  <1> QED BY <1>1 DEF Needed

\* An accepted view disputes no slot of its window.
LEMMA NoConflict ==
  ASSUME NEW view, InConflict(view, RoutineWindow) = {}, NEW s \in RoutineWindow
  PROVE  view.slots[s] # Disputed
  <1>1. PICK h \in HoursOf(RoutineWindow) : s \in SlotsOf(h)
    BY RoutineHours
  <1>2. h \in HourSet /\ Assessed(view, h).status # "source_conflict"
    BY <1>1 DEF InConflict, HoursOf
  <1>3. PICK i \in 1..SlotsPerHour : s = h * SlotsPerHour + i - 1
    BY <1>1, <1>2, HourSlots
  <1> DEFINE points == [k \in 1..SlotsPerHour |-> view.slots[h * SlotsPerHour + k - 1]]
             seen   == {points[k] : k \in 1..SlotsPerHour}
  <1>4. Disputed \notin seen
    <2> HIDE DEF seen
    <2>1. Disputed \in seen => Assessed(view, h) = [status |-> "source_conflict", points |-> <<>>]
      BY DEF Assessed, seen
    <2> QED BY <1>2, <2>1
  <1>5. points[i] = view.slots[s] /\ points[i] \in seen
    BY <1>3
  <1> QED BY <1>4, <1>5

\* What the baseline keeps, and what of it the delta supersedes.
BaselineKeeps(window, baseline) ==
  LET before == Before(window)
      newer  == Ancestors(Superseding(baseline))[Len(log) + 1]
  IN  /\ baseline.sources \subseteq before
      /\ Needed(log, before, edges, window, Held) \subseteq baseline.sources
      /\ \A i \in baseline.sources : log[i].kind = "provider" =>
           i \in newer /\ Ancestors(edges)[i] \subseteq newer
      /\ \A from : Resolution(log, baseline.sources, baseline.edges, from)
                     = Resolution(log, before, edges, from)

LEMMA BaselineSays ==
  ASSUME Inv, NEW window, NEW baseline \in Views({}, window, log, edges),
         DeltaSetting(window, baseline)
  PROVE  BaselineKeeps(window, baseline)
  <1> DEFINE n == Len(log)
             before == Before(window)
             needed == Needed(log, before, edges, window, Held)
  <1>1. n \in Nat /\ Lineage(edges, n) /\ before \in SUBSET (1..n) /\ dataEnd \in Nat
    BY DEF DeltaSetting, Inv
  <1>2. Ends(log, before, n, dataEnd)
    BY <1>1 DEF Ends, Named, Inv, IsAcquisition
  <1>3. Held \cup ({} \ catalog) = Held
    OBVIOUS
  <1>4. /\ baseline.sources = before \ baseline.retired
        /\ Retires(baseline.retired, log, before, edges, window, Held)
        /\ \A from : Resolution(log, baseline.sources, baseline.edges, from)
                       = Resolution(log, before, edges, from)
    <2>1. Rests(baseline, log, before, edges, window, Held \cup ({} \ catalog))
      BY <1>1, <1>2, ViewRetires DEF Before
    <2> HIDE DEF before
    <2> QED BY <1>3, <2>1 DEF Rests
  <1>5. baseline.retired \cap needed = {}
    BY <1>4 DEF Retires
  <1>6. needed \subseteq before
    BY NeededSays
  <1>7. needed \subseteq baseline.sources
    <2> HIDE DEF needed, before
    <2> QED BY <1>4, <1>5, <1>6
  <1>8. \A i \in baseline.sources : log[i].kind = "provider" =>
          /\ i \in Ancestors(Superseding(baseline))[n + 1]
          /\ Ancestors(edges)[i] \subseteq Ancestors(Superseding(baseline))[n + 1]
    BY SourcesKnown, SupersedingSays
  <1> QED BY <1>4, <1>7, <1>8 DEF BaselineKeeps

\* The delta supersedes every other winner of a slot, and what that one does.
LEMMA WinnersSuperseded ==
  ASSUME NEW window, NEW baseline, DeltaSetting(window, baseline), BaselineKeeps(window, baseline),
         NEW s \in SlotSet, NEW rel, rel = Superseding(baseline), NEW n, n = Len(log),
         NEW w \in Winners(log', Ancestors(rel), Having(log', Loaded(window), "provider", s), s),
         w # n + 1
  PROVE  w \in Ancestors(rel)[n + 1] /\ Ancestors(rel)[w] \subseteq Ancestors(rel)[n + 1]
  <1> DEFINE anc == Ancestors(edges)
             bnc == Ancestors(rel)
             before == Before(window)
             loaded == Loaded(window)
             src == baseline.sources
             P == Having(log, before, "provider", s)
             A == Having(log, before, "archive", s)
             W == Winners(log, anc, P, s)
  <1>1. /\ n \in Nat /\ Lineage(edges, n)
        /\ \A i \in 1..n : log'[i] = log[i] /\ bnc[i] = anc[i]
        /\ DOMAIN log[1].pts = SlotSet
        /\ before \in SUBSET (1..n) /\ loaded = before \cup {n + 1}
    BY DEF DeltaSetting
  <1>2. /\ Needed(log, before, edges, window, Held) \subseteq src
        /\ \A i \in src : log[i].kind = "provider" => i \in bnc[n + 1] /\ anc[i] \subseteq bnc[n + 1]
    BY DEF BaselineKeeps
  <1>3. w \in Winners(log', bnc, Having(log', loaded, "provider", s), s)
    OBVIOUS
  <1> HIDE DEF bnc, anc, before, loaded, src
  <1>4. w \in Having(log', loaded, "provider", s) /\ w \in 1..n /\ w \in before
    <2>1. w \in Having(log', loaded, "provider", s)
      BY <1>3 DEF Winners
    <2> QED BY <1>1, <2>1 DEF Having
  <1>5. w \in P /\ P \subseteq before /\ \A j \in P : j \in Having(log', loaded, "provider", s)
    BY <1>1, <1>4 DEF Having
  <1>6. w \in W
    <2>1. \A j \in P : log'[j].pts[s] = log'[w].pts[s] \/ j \in bnc[w]
      BY <1>3, <1>5 DEF Winners
    <2>2. \A j \in P : log[j].pts[s] = log[w].pts[s] \/ j \in anc[w]
      BY <1>1, <1>4, <1>5, <2>1
    <2> QED BY <1>5, <2>2 DEF Winners
  <1>7. W \subseteq P /\ \A i \in P : log[i].kind = "provider"
    BY DEF Winners, Having
  <1>8. CASE w \in src
    BY <1>1, <1>2, <1>4, <1>5, <1>7, <1>8 DEF bnc
  <1>9. CASE w \notin src
    <2>1. NeededAt(log, before, anc, s) \subseteq src
      BY <1>1, <1>2, NeededSays DEF anc
    <2>2. NeededAt(log, before, anc, s) =
            IF P = {} THEN {} ELSE IF ProviderSlot(log, P, A, anc, s) = Disputed THEN P
                                   ELSE Maximal(anc, W)
      BY DEF NeededAt
    <2>3. Maximal(anc, W) \subseteq src /\ w \notin Maximal(anc, W)
      <3> HIDE DEF W, P
      <3> QED BY <1>5, <1>9, <2>1, <2>2
    <2>4. P \in SUBSET (1..n)
      BY <1>1, <1>5
    <2>5. PICK m \in Maximal(anc, W) : w \in anc[m]
      <3> HIDE DEF P
      <3> QED BY <1>1, <1>6, <2>3, <2>4, MaximalAbove DEF anc, W
    <2>6. m \in W /\ m \in src
      BY <2>3, <2>5 DEF Maximal
    <2>7. m \in 1..n /\ log[m].kind = "provider"
      BY <1>7, <2>4, <2>6
    <2>8. anc[m] \subseteq bnc[n + 1]
      BY <1>2, <2>6, <2>7
    <2>9. anc[w] \subseteq anc[m]
      BY <1>1, <2>5, <2>7, AncestorsTransitive DEF anc
    <2> QED BY <1>1, <1>4, <2>5, <2>8, <2>9 DEF bnc
  <1> QED BY <1>8, <1>9

\* A slot with a provider's row is settled by it, whatever archives count.
LEMMA ProviderSays ==
  ASSUME NEW acq, NEW ids, NEW anc, NEW s, Having(acq, ids, "provider", s) # {}
  PROVE  /\ \A from, other : Slot(acq, ids, anc, from, s) = Slot(acq, ids, anc, other, s)
         /\ \A from : Slot(acq, ids, anc, from, s) = Disputed \/ Slot(acq, ids, anc, from, s) # None
         /\ \A from : Slot(acq, ids, anc, from, s) =
                        ProviderSlot(acq, Having(acq, ids, "provider", s),
                                     Having(acq, ids, "archive", s), anc, s)
  <1> DEFINE P == Having(acq, ids, "provider", s)
             A == Having(acq, ids, "archive", s)
             W == Winners(acq, anc, P, s)
             c == CHOOSE i \in W : TRUE
  <1>1. \A from : Slot(acq, ids, anc, from, s) = ProviderSlot(acq, P, A, anc, s)
    BY DEF Slot
  <1>2. ProviderSlot(acq, P, A, anc, s) =
          IF W = {} \/ (acq[c].pts[s] # Gone /\ \E i \in A : acq[i].pts[s] # acq[c].pts[s])
          THEN Disputed ELSE acq[c].pts[s]
    BY DEF ProviderSlot
  <1>3. W # {} => c \in P
    BY DEF Winners
  <1>4. \A i \in P : acq[i].pts[s] # None
    BY DEF Having
  <1> HIDE DEF P, A, W, c
  <1>5. ProviderSlot(acq, P, A, anc, s) = Disputed \/ ProviderSlot(acq, P, A, anc, s) # None
    BY <1>2, <1>3, <1>4
  <1> QED BY <1>1, <1>5 DEF P, A

LEMMA ProviderAgrees ==
  ASSUME NEW acq, NEW ids, NEW anc, NEW s, NEW from, NEW other,
         Having(acq, ids, "provider", s) # {}
  PROVE  /\ Slot(acq, ids, anc, from, s) = Slot(acq, ids, anc, other, s)
         /\ Slot(acq, ids, anc, from, s) = Disputed \/ Slot(acq, ids, anc, from, s) # None
  <1>1. \A x, y : Slot(acq, ids, anc, x, s) = Slot(acq, ids, anc, y, s)
    BY ProviderSays
  <1>2. \A x : Slot(acq, ids, anc, x, s) = Disputed \/ Slot(acq, ids, anc, x, s) # None
    BY ProviderSays
  <1> QED BY <1>1, <1>2

\* A slot the delta has a row for needs the delta alone.
LEMMA ChangedNeeds ==
  ASSUME NEW window, window = RoutineWindow, NEW baseline,
         DeltaSetting(window, baseline), BaselineKeeps(window, baseline),
         NEW rel, rel = Superseding(baseline), NEW n, n = Len(log),
         NEW view \in Views({n + 1}, window, log', rel), InConflict(view, window) = {},
         NEW s \in Changed(baseline, window) \cap SlotSet
  PROVE  NeededAt(log', Loaded(window), Ancestors(rel), s) = {n + 1}
  <1> DEFINE bnc == Ancestors(rel)
             loaded == Loaded(window)
             P == Having(log', loaded, "provider", s)
             A == Having(log', loaded, "archive", s)
  <1>1. /\ n \in Nat /\ n + 1 \in Nat /\ Lineage(rel, n + 1) /\ log'[n + 1].kind = "provider"
        /\ log'[n + 1].pts[s] = feed[s] /\ DOMAIN log'[1].pts = SlotSet
        /\ Before(window) \in SUBSET (1..n) /\ loaded = Before(window) \cup {n + 1}
    BY DEF DeltaSetting
  <1>2. s \in window /\ feed[s] # None
    BY DEF Changed
  <1>3. PICK other : Speaks(view, log', loaded, rel, other)
    BY <1>1, ViewSlots DEF Loaded
  <1> HIDE DEF loaded
  <1>4. n + 1 \in P /\ P \in SUBSET (1..(n + 1))
    BY <1>1, <1>2 DEF Having
  <1>5. Slot(log', loaded, bnc, other, s) # Disputed
    BY <1>2, <1>3, NoConflict DEF Speaks
  <1> HIDE DEF bnc
  <1>6. ProviderSlot(log', P, A, bnc, s) # Disputed
    BY <1>4, <1>5, ProviderSays
  <1>7. ASSUME NEW w \in Winners(log', bnc, P, s) \ {n + 1}
        PROVE  w \in bnc[n + 1] /\ bnc[w] \subseteq bnc[n + 1]
    BY WinnersSuperseded DEF bnc, loaded
  <1> HIDE DEF P, A
  <1>8. Maximal(bnc, Winners(log', bnc, P, s)) = {n + 1}
    BY <1>1, <1>4, <1>6, <1>7, NewestSettles DEF bnc
  <1>9. NeededAt(log', loaded, bnc, s) =
          IF P = {} THEN {} ELSE IF ProviderSlot(log', P, A, bnc, s) = Disputed THEN P
                                 ELSE Maximal(bnc, Winners(log', bnc, P, s))
    BY DEF NeededAt, P, A
  <1> QED BY <1>4, <1>6, <1>8, <1>9 DEF bnc, loaded

\* What a baseline shows is what all that it loaded says, and so does what it
\* keeps.
LEMMA BaselineRests ==
  ASSUME Inv, NEW window, NEW baseline \in Views({}, window, log, edges)
  PROVE  /\ DOMAIN log[1].pts = SlotSet
         /\ \E from : Speaks(baseline, log, Before(window), edges, from)
         /\ \A from : Resolution(log, baseline.sources, baseline.edges, from)
                        = Resolution(log, Before(window), edges, from)
  <1> DEFINE n == Len(log)
             before == Before(window)
  <1>1. n \in Nat \ {0} /\ Lineage(edges, n) /\ dataEnd \in Nat
    BY DEF Inv
  <1>2. before \in SUBSET (1..n)
    <2>1. before \subseteq Ids({})
      BY DEF Before, Overlapping
    <2>2. Ids({}) \subseteq 1..n
      BY HeldKnown DEF Ids, Inv
    <2> QED BY <2>1, <2>2
  <1>3. Ends(log, before, n, dataEnd)
    BY <1>2 DEF Ends, Named, Inv, IsAcquisition
  <1>4. Rests(baseline, log, before, edges, window, Held \cup ({} \ catalog))
    BY <1>1, <1>3, ViewRetires DEF Before
  <1>5. DOMAIN log[1].pts = SlotSet
    <2>1. IsAcquisition(log[1])
      BY <1>1 DEF Inv
    <2> QED BY <2>1 DEF IsAcquisition, Points
  <1>6. \E from : Speaks(baseline, log, before, edges, from)
    BY <1>1, <1>5, ViewSlots DEF Before
  <1> QED BY <1>4, <1>5, <1>6 DEF Rests

\* What a resolution says of a slot.
LEMMA ResolutionSays ==
  ASSUME NEW acq, NEW ids, NEW kept, NEW rel, NEW left, NEW from,
         Resolution(acq, kept, left, from) = Resolution(acq, ids, rel, from),
         NEW s \in DOMAIN acq[1].pts
  PROVE  /\ Slot(acq, kept, Ancestors(left), from, s) = Slot(acq, ids, Ancestors(rel), from, s)
         /\ Having(acq, kept, "provider", s) = {} <=> Having(acq, ids, "provider", s) = {}
  <1> DEFINE Slots(x, y) == [t \in DOMAIN acq[1].pts |-> Slot(acq, x, Ancestors(y), from, t)]
             Basis(x) == [t \in DOMAIN acq[1].pts |-> Having(acq, x, "provider", t) # {}]
  <1>1. Slots(kept, left) = Slots(ids, rel) /\ Basis(kept) = Basis(ids)
    BY DEF Resolution
  <1>2. Slots(kept, left)[s] = Slots(ids, rel)[s] /\ Basis(kept)[s] = Basis(ids)[s]
    BY <1>1
  <1>3. Slots(kept, left)[s] = Slot(acq, kept, Ancestors(left), from, s)
    OBVIOUS
  <1>4. Slots(ids, rel)[s] = Slot(acq, ids, Ancestors(rel), from, s)
    OBVIOUS
  <1>5. /\ Basis(kept)[s] = (Having(acq, kept, "provider", s) # {})
        /\ Basis(ids)[s] = (Having(acq, ids, "provider", s) # {})
    OBVIOUS
  <1> QED BY <1>2, <1>3, <1>4, <1>5

\* A carried day has a changed point.
LEMMA CarriedChanged ==
  ASSUME Inv, NEW window, NEW baseline \in Views({}, window, log, edges),
         NEW d \in Carried(baseline, window)
  PROVE  \E t \in d : t \in Changed(baseline, window)
  <1> DEFINE src == baseline.sources
             bnc == Ancestors(baseline.edges)
             anc == Ancestors(edges)
             before == Before(window)
             settled(s) == Having(log, src, "provider", s) # {} /\ Slot(log, src, bnc, None, s) # Disputed
             needs(s) == NeededAt(log, src, bnc, s)
  <1>1. /\ d \in Days /\ d \subseteq window /\ WonOn(log, src, baseline.edges, d) > 1
        /\ \A s \in d : baseline.slots[s] \notin {None, Disputed} => feed[s] # None
    BY DEF Carried, Compaction
  <1>2. PICK t \in d : settled(t)
    <2> DEFINE all == UNION {needs(s) : s \in {t \in d : settled(t)}}
    <2>1. Cardinality(all) > 1
      BY <1>1 DEF WonOn
    <2>2. ASSUME \A t \in d : ~settled(t) PROVE FALSE
      <3> HIDE DEF settled, needs
      <3>1. all = {}
        BY <2>2
      <3> HIDE DEF all
      <3> QED BY <2>1, <3>1, FS_EmptySet
    <2> QED BY <2>2
  <1>3. t \in SlotSet
    BY <1>1 DEF Days, DayOf
  <1>4. /\ DOMAIN log[1].pts = SlotSet
        /\ \A from : Resolution(log, src, baseline.edges, from) = Resolution(log, before, edges, from)
    BY BaselineRests
  <1>5. PICK from : Speaks(baseline, log, before, edges, from)
    BY BaselineRests
  <1> HIDE DEF src, before
  <1>6. Having(log, before, "provider", t) # {} /\ Slot(log, before, anc, None, t) # Disputed
    <2>1. Resolution(log, src, baseline.edges, None) = Resolution(log, before, edges, None)
      BY <1>4
    <2>2. t \in DOMAIN log[1].pts
      BY <1>3, <1>4
    <2>3. /\ Slot(log, src, bnc, None, t) = Slot(log, before, anc, None, t)
          /\ Having(log, src, "provider", t) = {} <=> Having(log, before, "provider", t) = {}
      BY <2>1, <2>2, ResolutionSays
    <2> QED BY <1>2, <2>3
  <1> HIDE DEF anc
  <1>7. Slot(log, before, anc, from, t) \notin {None, Disputed}
    BY <1>6, ProviderSays
  <1>8. baseline.slots[t] \notin {None, Disputed}
    BY <1>3, <1>5, <1>7 DEF Speaks, anc
  <1> QED BY <1>1, <1>8 DEF Changed

\* A view of a delta keeps what it needs, the delta among it.
KeepsNeeded(view, window, rel) ==
  LET n == Len(log)
  IN  /\ view.sources = Needed(log', Loaded(window), rel, window, Held \cup ({n + 1} \ catalog))
      /\ n + 1 \in view.sources /\ view.sources \subseteq Loaded(window)
      /\ view.retired = Loaded(window) \ view.sources
      /\ view.edges = Contracted(rel, view.retired)
      /\ \A from : Resolution(log', view.sources, view.edges, from)
                     = Resolution(log', Loaded(window), rel, from)

LEMMA ViewKeepsNeeded ==
  ASSUME Inv, NEW window, NEW baseline, DeltaSetting(window, baseline),
         NEW rel, rel = Superseding(baseline),
         NEW view \in Views({Len(log) + 1}, window, log', rel)
  PROVE  KeepsNeeded(view, window, rel)
  <1> DEFINE n == Len(log)
             loaded == Loaded(window)
             guarded == Held \cup ({n + 1} \ catalog)
             needed == Needed(log', loaded, rel, window, guarded)
  <1>1. /\ n \in Nat /\ n + 1 \in Nat /\ Lineage(rel, n + 1)
        /\ \A i \in 1..(n + 1) : IsAcquisition(log'[i])
        /\ log'[n + 1].end = dataEnd
        /\ loaded \in SUBSET (1..(n + 1)) /\ n + 1 \in loaded
    BY DEF DeltaSetting, Delta
  <1>2. catalog \subseteq 1..n /\ dataEnd \in Nat
    BY DEF Inv
  <1>3. Ends(log', loaded, n + 1, dataEnd)
    BY <1>1 DEF Ends, Named, IsAcquisition
  <1>4. Rests(view, log', loaded, rel, window, guarded)
    BY <1>1, <1>2, <1>3, ViewRetires DEF Loaded
  <1>5. needed \subseteq loaded /\ n + 1 \in needed
    <2>1. n + 1 \in guarded
      BY <1>1, <1>2
    <2> HIDE DEF loaded, guarded
    <2> QED BY <1>1, <2>1, NeededSays
  <1> HIDE DEF loaded, guarded, needed
  <1>6. Horizon(log', loaded) = dataEnd
    <2> DEFINE E == {log'[i].end : i \in loaded}
    <2>1. dataEnd \in E /\ \A e \in E : e \in 0..dataEnd
      BY <1>1, <1>3 DEF Ends
    <2>2. Horizon(log', loaded) = Greatest(E)
      BY <1>1 DEF Horizon
    <2> HIDE DEF E
    <2>3. dataEnd \in E /\ \A e \in E : e <= dataEnd /\ e \in Int
      BY <1>2, <2>1
    <2>4. Greatest(E) \in E /\ \A e \in E : e <= Greatest(E)
      BY <2>3 DEF Greatest
    <2>5. Greatest(E) <= dataEnd /\ dataEnd <= Greatest(E) /\ Greatest(E) \in Int
      BY <2>3, <2>4
    <2>6. \A x \in Int, y \in Nat : x <= y /\ y <= x => x = y
      OBVIOUS
    <2>7. Greatest(E) = dataEnd
      BY <1>2, <2>5, <2>6
    <2> QED BY <2>2, <2>7
  <1>7. Witnesses(log', loaded, needed) = {{}}
    <2>1. n + 1 \in {i \in loaded : log'[i].end = Horizon(log', loaded)} \cap needed
      BY <1>1, <1>5, <1>6
    <2> QED BY <2>1 DEF Witnesses
  <1>8. view.retired = loaded \ needed
    <2>1. Retires(view.retired, log', loaded, rel, window, guarded)
      BY <1>4 DEF Rests
    <2>2. \E w \in Witnesses(log', loaded, needed) : view.retired = loaded \ (needed \cup w)
      BY <2>1 DEF Retires, needed
    <2> QED BY <1>7, <2>2
  <1>9. view.sources = needed
    BY <1>4, <1>5, <1>8 DEF Rests
  <1> QED BY <1>4, <1>5, <1>8, <1>9 DEF KeepsNeeded, Rests, loaded, guarded, needed

\* Of what a view of a delta keeps, the delta supersedes all that came from the
\* provider.
LEMMA KeptSuperseded ==
  ASSUME Inv, NEW window, window = RoutineWindow, NEW baseline,
         DeltaSetting(window, baseline), BaselineKeeps(window, baseline),
         NEW rel, rel = Superseding(baseline), NEW n, n = Len(log),
         NEW view \in Views({n + 1}, window, log', rel), InConflict(view, window) = {},
         NEW i \in view.sources, i # n + 1, log'[i].kind = "provider"
  PROVE  i \in Ancestors(rel)[n + 1] /\ Ancestors(rel)[i] \subseteq Ancestors(rel)[n + 1]
  <1> DEFINE anc == Ancestors(edges)
             bnc == Ancestors(rel)
             before == Before(window)
             loaded == Loaded(window)
             guarded == Held \cup ({n + 1} \ catalog)
             needed == Needed(log', loaded, rel, window, guarded)
             had == Needed(log, before, edges, window, Held)
             changed == Changed(baseline, window)
  <1>1. /\ n \in Nat /\ \A j \in 1..n : log'[j] = log[j] /\ bnc[j] = anc[j]
        /\ \A s \in SlotSet : log'[n + 1].pts[s] = IF s \in changed THEN feed[s] ELSE None
        /\ DOMAIN log[1].pts = SlotSet /\ DOMAIN log'[1].pts = SlotSet
        /\ before \in SUBSET (1..n) /\ loaded = before \cup {n + 1}
    BY DEF DeltaSetting
  <1>2. i \in needed
    BY ViewKeepsNeeded DEF KeepsNeeded
  <1>3. /\ had \subseteq baseline.sources
        /\ \A j \in baseline.sources : log[j].kind = "provider" =>
             j \in bnc[n + 1] /\ anc[j] \subseteq bnc[n + 1]
    BY DEF BaselineKeeps
  <1>4. ASSUME NEW s \in SlotSet, s \in changed
        PROVE  NeededAt(log', loaded, bnc, s) = {n + 1}
    <2>1. s \in Changed(baseline, window) \cap SlotSet
      BY <1>4
    <2> QED BY <2>1, ChangedNeeds
  <1>5. ASSUME NEW s \in SlotSet, s \notin changed
        PROVE  NeededAt(log', loaded, bnc, s) = NeededAt(log, before, anc, s)
    <2>1. log'[n + 1].pts[s] = None
      BY <1>1, <1>5
    <2> HIDE DEF before, loaded, anc, bnc
    <2> QED BY <1>1, <2>1, NeededWithoutRow
  <1> HIDE DEF anc, bnc, before, loaded, guarded, needed, changed, had
  <1>6. /\ needed \subseteq loaded
        /\ \/ log'[i].kind # "provider" \/ ~log'[i].delta \/ i \in guarded
           \/ \E s \in SlotSet \ window : log'[i].pts[s] # None
           \/ \E s \in SlotSet : i \in NeededAt(log', loaded, bnc, s)
    <2>1. needed = Needed(log', loaded, rel, window, guarded)
      BY DEF needed
    <2>2. /\ needed \subseteq loaded
          /\ \A j \in needed :
               \/ log'[j].kind # "provider" \/ ~log'[j].delta \/ j \in guarded
               \/ \E s \in DOMAIN log'[1].pts \ window : log'[j].pts[s] # None
               \/ \E s \in DOMAIN log'[1].pts : j \in NeededAt(log', loaded, Ancestors(rel), s)
      BY <2>1, NeededSays
    <2> QED BY <1>1, <1>2, <2>2 DEF bnc
  <1>7. i \in before /\ i \in 1..n /\ log'[i] = log[i] /\ bnc[i] = anc[i]
    BY <1>1, <1>2, <1>6
  <1>8. /\ \A j \in before : log[j].kind # "provider" \/ ~log[j].delta \/ j \in Held => j \in had
        /\ \A j \in before, s \in SlotSet \ window : log[j].pts[s] # None => j \in had
        /\ \A s \in SlotSet : NeededAt(log, before, anc, s) \subseteq had
    BY <1>1, NeededSays DEF had, anc
  <1>9. i \in guarded => i \in Held
    BY <1>1, <1>7 DEF guarded
  <1>10. ASSUME NEW s \in SlotSet, i \in NeededAt(log', loaded, bnc, s)
         PROVE  i \in had
    BY <1>4, <1>5, <1>8, <1>10
  <1>11. i \in had
    BY <1>6, <1>7, <1>8, <1>9, <1>10
  <1> QED BY <1>3, <1>7, <1>11 DEF bnc

\* A point of a carried day that did not change has no provider row.
LEMMA DayUnchanged ==
  ASSUME Inv, NEW window, window = RoutineWindow, NEW baseline \in Views({}, window, log, edges),
         DeltaSetting(window, baseline), NEW rel, rel = Superseding(baseline),
         NEW n, n = Len(log),
         NEW view \in Views({n + 1}, window, log', rel), InConflict(view, window) = {},
         NEW d \in Carried(baseline, window), NEW s \in d, s \notin Changed(baseline, window)
  PROVE  Having(log', Loaded(window), "provider", s) = {}
  <1> DEFINE anc == Ancestors(edges)
             bnc == Ancestors(rel)
             before == Before(window)
             loaded == Loaded(window)
             changed == Changed(baseline, window)
  <1>1. /\ n \in Nat /\ n + 1 \in Nat /\ Lineage(rel, n + 1)
        /\ \A j \in 1..n : log'[j] = log[j] /\ bnc[j] = anc[j]
        /\ \A t \in SlotSet : log'[n + 1].pts[t] = IF t \in changed THEN feed[t] ELSE None
        /\ DOMAIN log'[1].pts = SlotSet
        /\ before \in SUBSET (1..n) /\ loaded = before \cup {n + 1}
    BY DEF DeltaSetting
  <1>2. /\ s \in SlotSet /\ s \in window /\ feed[s] = None
        /\ baseline.slots[s] \in {None, Disputed}
    BY DEF Carried, Compaction, Days, DayOf, Changed
  <1>3. log'[n + 1].pts[s] = None
    BY <1>1, <1>2
  <1>4. PICK from : Speaks(baseline, log, before, edges, from)
    BY BaselineRests
  <1>5. PICK other : Speaks(view, log', loaded, rel, other)
    BY <1>1, ViewSlots DEF Loaded
  <1>6. Slot(log', loaded, bnc, other, s) # Disputed
    BY <1>2, <1>5, NoConflict DEF Speaks
  <1>7. Slot(log, before, anc, from, s) \in {None, Disputed}
    BY <1>2, <1>4 DEF Speaks
  <1> HIDE DEF anc, bnc, before, loaded, changed
  <1>8. /\ NeededAt(log', loaded, bnc, s) = NeededAt(log, before, anc, s)
        /\ Having(log', loaded, "provider", s) = Having(log, before, "provider", s)
    <2>1. n \in Nat /\ before \in SUBSET (1..n) /\ \A j \in 1..n : log'[j] = log[j] /\ bnc[j] = anc[j]
      BY <1>1
    <2>2. /\ NeededAt(log', before \cup {n + 1}, bnc, s) = NeededAt(log, before, anc, s)
          /\ Having(log', before \cup {n + 1}, "provider", s) = Having(log, before, "provider", s)
      BY <1>3, <2>1, NeededWithoutRow
    <2> QED BY <1>1, <2>2
  <1>9. Slot(log', loaded, bnc, other, s) = Slot(log, before, anc, other, s)
    BY <1>1, <1>3, SlotWithoutRow
  <1>10. ASSUME Having(log, before, "provider", s) # {} PROVE FALSE
    <2>1. Slot(log, before, anc, from, s) = Slot(log, before, anc, other, s)
      BY <1>10, ProviderAgrees
    <2>2. Slot(log, before, anc, from, s) = Disputed \/ Slot(log, before, anc, from, s) # None
      BY <1>10, ProviderAgrees
    <2> QED BY <1>6, <1>7, <1>9, <2>1, <2>2
  <1> QED BY <1>8, <1>10 DEF loaded

\* The catalog an accepted delta leaves has, in the window, the rows its view
\* keeps, and resolves them as all that was loaded did.
Leaves(view, window, rel) ==
  LET n == Len(log)
  IN  /\ catalog' \subseteq 1..(n + 1)
      /\ edges' = Contracted(rel, view.retired) /\ Lineage(edges', n + 1)
      /\ \A kind : \A s \in window : Having(log', catalog', kind, s) = Having(log', view.sources, kind, s)
      /\ \A i \in catalog', s \in window : log'[i].pts[s] # None => i \in view.sources
      /\ \A s \in SlotSet :
           /\ Slot(log', view.sources, Ancestors(edges'), None, s)
                = Slot(log', Loaded(window), Ancestors(rel), None, s)
           /\ Having(log', view.sources, "provider", s) = {} <=>
                Having(log', Loaded(window), "provider", s) = {}
      /\ view.sources \cap view.retired = {}
      /\ \A i \in view.sources : Ancestors(edges')[i] = Ancestors(rel)[i] \ view.retired

LEMMA CommitLeaves ==
  ASSUME Inv, NEW window, NEW baseline, DeltaSetting(window, baseline),
         NEW rel, rel = Superseding(baseline),
         NEW view \in Views({Len(log) + 1}, window, log', rel), Commit(view, window)
  PROVE  Leaves(view, window, rel)
  <1> DEFINE n == Len(log)
             ids == Ids({n + 1})
             loaded == Loaded(window)
             kept == view.sources
             bnc == Ancestors(rel)
  <1>1. /\ n \in Nat /\ n + 1 \in Nat /\ Lineage(rel, n + 1)
        /\ DOMAIN log'[1].pts = SlotSet /\ loaded \in SUBSET (1..(n + 1))
        /\ \A i \in ids \ loaded, s \in window : log'[i].pts[s] = None
        /\ ids = Ids({}) \cup {n + 1} /\ Ids({}) \in SUBSET (1..n)
    <2>1. /\ n \in Nat /\ n + 1 \in Nat /\ Lineage(rel, n + 1)
          /\ DOMAIN log'[1].pts = SlotSet
      BY DEF DeltaSetting
    <2>2. Before(window) \in SUBSET (1..n) /\ loaded = Before(window) \cup {n + 1}
      BY DEF DeltaSetting
    <2>3. ids = Ids({}) \cup {n + 1} /\ Ids({}) \in SUBSET (1..n)
      BY DEF DeltaSetting
    <2>4. \A i \in ids \ loaded, s \in window : log'[i].pts[s] = None
      BY DEF DeltaSetting
    <2> HIDE DEF loaded, ids
    <2>5. loaded \in SUBSET (1..(n + 1))
      BY <2>1, <2>2
    <2> QED BY <2>1, <2>3, <2>4, <2>5
  <1>2. /\ kept \subseteq loaded /\ view.retired = loaded \ kept
        /\ view.edges = Contracted(rel, view.retired)
        /\ \A from : Resolution(log', kept, view.edges, from) = Resolution(log', loaded, rel, from)
    BY ViewKeepsNeeded DEF KeepsNeeded
  <1>3. view.ids = ids
    BY <1>1, ViewSays
  <1>4. catalog' = ids \ view.retired /\ edges' = view.edges
    BY <1>3 DEF Commit
  <1> HIDE DEF loaded, kept, ids
  <1>5. loaded \subseteq ids
    BY DEF loaded, ids, Loaded, Overlapping
  <1>6. catalog' = (ids \ loaded) \cup kept
    BY <1>2, <1>4, <1>5
  <1>7. Lineage(edges', n + 1) /\ \A i \in 1..(n + 1) \ view.retired : Ancestors(edges')[i] = bnc[i] \ view.retired
    BY <1>1, <1>2, <1>4, ContractedKeeps
  <1>8. ids \subseteq 1..(n + 1)
    BY <1>1
  <1> HIDE DEF n, bnc
  <1>9. \A kind : \A s \in window : Having(log', catalog', kind, s) = Having(log', kept, kind, s)
    BY <1>1, <1>6 DEF Having
  <1>10. \A i \in catalog', s \in window : log'[i].pts[s] # None => i \in kept
    BY <1>1, <1>6
  <1>11. ASSUME NEW s \in SlotSet
         PROVE  /\ Slot(log', kept, Ancestors(edges'), None, s) = Slot(log', loaded, bnc, None, s)
                /\ Having(log', kept, "provider", s) = {} <=> Having(log', loaded, "provider", s) = {}
    <2>1. Resolution(log', kept, edges', None) = Resolution(log', loaded, rel, None)
      BY <1>2, <1>4
    <2>2. s \in DOMAIN log'[1].pts
      BY <1>1
    <2> QED BY <2>1, <2>2, ResolutionSays DEF bnc
  <1>12. \A i \in kept : i \in 1..(n + 1) \ view.retired
    BY <1>1, <1>2
  <1>13. \A i \in kept : Ancestors(edges')[i] = bnc[i] \ view.retired
    BY <1>7, <1>12
  <1>14. catalog' \subseteq 1..(n + 1) /\ edges' = Contracted(rel, view.retired)
    BY <1>2, <1>4, <1>8
  <1>15. kept \cap view.retired = {}
    BY <1>2
  <1> QED BY <1>7, <1>9, <1>10, <1>11, <1>13, <1>14, <1>15 DEF Leaves, n, kept, loaded, bnc

\* What an accepted pass of a delta comes to.
Accepted(view, window, baseline, rel) ==
  /\ rel = Superseding(baseline) /\ view \in Views({Len(log) + 1}, window, log', rel)
  /\ window = RoutineWindow /\ InConflict(view, window) = {}
  /\ DeltaSetting(window, baseline) /\ BaselineKeeps(window, baseline)
  /\ KeepsNeeded(view, window, rel) /\ Leaves(view, window, rel)

\* After it, a point the delta has a row for is won by the delta alone ...
LEMMA ChangedWon ==
  ASSUME Inv, NEW window, NEW baseline, NEW rel, NEW view, Accepted(view, window, baseline, rel),
         NEW n, n = Len(log), NEW s \in Changed(baseline, window) \cap SlotSet
  PROVE  /\ Having(log', catalog', "provider", s) # {}
         /\ Slot(log', catalog', Ancestors(edges'), None, s) # Disputed
         /\ NeededAt(log', catalog', Ancestors(edges'), s) = {n + 1}
  <1> DEFINE kept == view.sources
             loaded == Loaded(window)
             acc == Ancestors(edges')
             bnc == Ancestors(rel)
             P == Having(log', kept, "provider", s)
             A == Having(log', kept, "archive", s)
  <1>1. /\ n \in Nat /\ n + 1 \in Nat /\ Lineage(rel, n + 1) /\ log'[n + 1].kind = "provider"
        /\ log'[n + 1].pts[s] = feed[s] /\ DOMAIN log'[1].pts = SlotSet
    BY DEF DeltaSetting, Accepted
  <1>2. loaded \in SUBSET (1..(n + 1))
    BY DEF DeltaSetting, Accepted
  <1>3. n + 1 \in kept /\ kept \subseteq loaded
    BY DEF KeepsNeeded, Accepted
  <1>4. s \in window /\ feed[s] # None /\ s \in SlotSet
    BY DEF Changed
  <1>5. /\ Lineage(edges', n + 1)
        /\ \A kind : Having(log', catalog', kind, s) = Having(log', kept, kind, s)
        /\ Slot(log', kept, acc, None, s) = Slot(log', loaded, bnc, None, s)
        /\ \A i \in kept : i \notin view.retired /\ acc[i] = bnc[i] \ view.retired
    BY <1>4 DEF Leaves, Accepted
  <1>6. PICK other : Speaks(view, log', loaded, rel, other)
    BY <1>1, ViewSlots DEF Loaded, Accepted
  <1> HIDE DEF kept, loaded, acc, bnc
  <1>7. n + 1 \in P /\ P \in SUBSET (1..(n + 1))
    BY <1>1, <1>2, <1>3, <1>4 DEF Having
  <1>8. Having(log', loaded, "provider", s) # {}
    BY <1>3, <1>7 DEF Having
  <1>9. Slot(log', loaded, bnc, other, s) # Disputed
    BY <1>4, <1>6, NoConflict DEF Speaks, bnc, Accepted
  <1>10. Slot(log', kept, acc, None, s) # Disputed
    <2>1. Slot(log', loaded, bnc, None, s) = Slot(log', loaded, bnc, other, s)
      BY <1>8, ProviderAgrees
    <2> QED BY <1>5, <1>9, <2>1
  <1>11. ProviderSlot(log', P, A, acc, s) # Disputed
    BY <1>7, <1>10, ProviderSays
  <1>12. ASSUME NEW w \in Winners(log', acc, P, s) \ {n + 1}
         PROVE  w \in acc[n + 1] /\ acc[w] \subseteq acc[n + 1]
    <2>1. w \in kept /\ log'[w].kind = "provider" /\ w # n + 1
      BY <1>12 DEF Winners, Having
    <2>2. w \in bnc[n + 1] /\ bnc[w] \subseteq bnc[n + 1]
      BY <2>1, KeptSuperseded DEF kept, bnc, Accepted
    <2> QED BY <1>3, <1>5, <2>1, <2>2
  <1> HIDE DEF P, A
  <1>13. Maximal(acc, Winners(log', acc, P, s)) = {n + 1}
    BY <1>1, <1>5, <1>7, <1>11, <1>12, NewestSettles DEF acc
  <1>14. NeededAt(log', kept, acc, s) = {n + 1}
    BY <1>7, <1>11, <1>13 DEF NeededAt, P, A
  <1>15. Slot(log', catalog', acc, None, s) = Slot(log', kept, acc, None, s)
    BY <1>5 DEF Slot
  <1>16. NeededAt(log', catalog', acc, s) = NeededAt(log', kept, acc, s)
    BY <1>5 DEF NeededAt
  <1>17. Having(log', catalog', "provider", s) # {}
    BY <1>5, <1>7 DEF P
  <1> QED BY <1>10, <1>14, <1>15, <1>16, <1>17 DEF acc

\* ... and no delta but those held before has rows in a carried day only.
LEMMA CarriedAlone ==
  ASSUME Inv, NEW window, NEW baseline \in Views({}, window, log, edges), NEW rel, NEW view,
         Accepted(view, window, baseline, rel), NEW n, n = Len(log),
         NEW d \in Carried(baseline, window),
         NEW i \in catalog', i \notin Held, log'[i].delta,
         \A s \in SlotSet \ d : log'[i].pts[s] = None
  PROVE  i = n + 1
  <1> DEFINE kept == view.sources
             loaded == Loaded(window)
             guarded == Held \cup ({n + 1} \ catalog)
             needed == Needed(log', loaded, rel, window, guarded)
  <1>1. /\ DOMAIN log'[1].pts = SlotSet /\ \A j \in 1..(n + 1) : IsAcquisition(log'[j])
    BY DEF DeltaSetting, Accepted
  <1>2. i \in 1..(n + 1) /\ \A s \in window : log'[i].pts[s] # None => i \in kept
    BY DEF Leaves, Accepted
  <1>3. log'[i].kind = "provider" /\ \E s \in SlotSet : log'[i].pts[s] # None
    BY <1>1, <1>2 DEF IsAcquisition
  <1>4. d \subseteq window /\ d \subseteq SlotSet
    BY DEF Carried, Compaction, Days, DayOf
  <1>5. i \in needed
    BY <1>2, <1>3, <1>4 DEF KeepsNeeded, Accepted
  <1> HIDE DEF kept, loaded, guarded, needed
  <1>6. SUFFICES ASSUME i # n + 1 PROVE FALSE
    OBVIOUS
  <1>7. i \notin guarded
    BY <1>6 DEF guarded
  <1>8. PICK s \in SlotSet : i \in NeededAt(log', loaded, Ancestors(rel), s)
    <2>1. needed = Needed(log', loaded, rel, window, guarded)
      BY DEF needed
    <2>2. \A j \in needed :
               \/ log'[j].kind # "provider" \/ ~log'[j].delta \/ j \in guarded
               \/ \E s \in DOMAIN log'[1].pts \ window : log'[j].pts[s] # None
               \/ \E s \in DOMAIN log'[1].pts : j \in NeededAt(log', loaded, Ancestors(rel), s)
      BY <2>1, NeededSays
    <2> QED BY <1>1, <1>3, <1>4, <1>5, <1>7, <2>2
  <1>9. i \in Having(log', loaded, "provider", s)
    BY <1>8 DEF NeededAt, Maximal, Winners
  <1>10. s \in d
    BY <1>8, <1>9 DEF Having
  <1>11. CASE s \in Changed(baseline, window)
    <2>1. s \in Changed(baseline, window) \cap SlotSet
      BY <1>10, <1>11
    <2>2. NeededAt(log', loaded, Ancestors(rel), s) = {n + 1}
      BY <2>1, ChangedNeeds DEF Accepted, loaded
    <2> QED BY <1>6, <1>8, <2>2
  <1>12. CASE s \notin Changed(baseline, window)
    <2>1. Having(log', loaded, "provider", s) = {}
      BY <1>10, <1>12, DayUnchanged DEF Accepted, loaded
    <2> QED BY <1>9, <2>1
  <1> QED BY <1>11, <1>12

\* One acquisition wins a carried day, and one at most stays for it alone.
LEMMA CarriedConverges ==
  ASSUME Inv, NEW window, NEW baseline \in Views({}, window, log, edges), NEW rel, NEW view,
         Accepted(view, window, baseline, rel), NEW d \in Carried(baseline, window)
  PROVE  /\ WonOn(log', catalog', edges', d) = 1
         /\ Cardinality({i \in catalog' \ Held :
                           /\ log'[i].delta
                           /\ \A s \in SlotSet \ d : log'[i].pts[s] = None}) <= 1
  <1> DEFINE n == Len(log)
             acc == Ancestors(edges')
             changed == Changed(baseline, window)
             settled(s) == /\ Having(log', catalog', "provider", s) # {}
                           /\ Slot(log', catalog', acc, None, s) # Disputed
             needs(s) == NeededAt(log', catalog', acc, s)
             won == UNION {needs(s) : s \in {t \in d : settled(t)}}
             alone == {i \in catalog' \ Held : /\ log'[i].delta
                                               /\ \A s \in SlotSet \ d : log'[i].pts[s] = None}
  <1>1. d \subseteq window /\ d \subseteq SlotSet
    BY DEF Carried, Compaction, Days, DayOf
  <1>2. ASSUME NEW s \in d, s \in changed
        PROVE  settled(s) /\ needs(s) = {n + 1}
    <2>1. s \in Changed(baseline, window) \cap SlotSet
      BY <1>1, <1>2
    <2> QED BY <2>1, ChangedWon
  <1>3. ASSUME NEW s \in d, s \notin changed
        PROVE  ~settled(s)
    <2>1. Having(log', Loaded(window), "provider", s) = {}
      BY <1>3, DayUnchanged DEF Accepted
    <2>2. Having(log', view.sources, "provider", s) = {}
      <3>1. s \in SlotSet
        BY <1>1
      <3> QED BY <2>1, <3>1 DEF Leaves, Accepted
    <2>3. Having(log', catalog', "provider", s) = Having(log', view.sources, "provider", s)
      BY <1>1 DEF Leaves, Accepted
    <2> QED BY <2>2, <2>3
  <1>4. \E t \in d : t \in changed
    BY CarriedChanged
  <1>5. \A i \in alone : i = n + 1
    BY CarriedAlone
  <1>6. WonOn(log', catalog', edges', d) = Cardinality(won)
    BY DEF WonOn
  <1> HIDE DEF settled, needs, changed
  <1>7. won = {n + 1}
    BY <1>2, <1>3, <1>4
  <1> HIDE DEF won, alone
  <1>8. Cardinality(won) = 1
    BY <1>7, FS_Singleton
  <1>9. alone = {} \/ alone = {n + 1}
    BY <1>5
  <1>10. Cardinality(alone) <= 1
    <2>1. CASE alone = {}
      BY <2>1, FS_EmptySet
    <2>2. CASE alone = {n + 1}
      <3>1. Cardinality(alone) = 1
        BY <2>2, FS_Singleton
      <3> QED BY <3>1
    <2> QED BY <1>9, <2>1, <2>2
  <1> QED BY <1>6, <1>8, <1>10 DEF alone

(***************************************************************************)
(* A closed day that several acquisitions won and whose points the capture *)
(* still has is won by one acquisition after the pass, and no other delta  *)
(* stays selected for that day alone, but one that an hour held in         *)
(* conflict when the pass began.                                           *)
(***************************************************************************)
THEOREM ClosedDaysConvergeHolds == Spec => []ClosedDaysConverge
  <1>1. pass.compacted = {} => ClosedDaysConverge
    BY DEF ClosedDaysConverge
  <1>2. pass'.compacted = {} => ClosedDaysConverge'
    BY DEF ClosedDaysConverge
  <1>3. Init => ClosedDaysConverge
    BY <1>1 DEF Init, NoPass
  <1>4. Inv /\ ClosedDaysConverge /\ [Next]_vars => ClosedDaysConverge'
    <2> SUFFICES ASSUME Inv, ClosedDaysConverge, [Next]_vars PROVE ClosedDaysConverge'
      OBVIOUS
    <2>1. CASE Publish \/ Correct \/ Review \/ Admit
      <3>1. pass' = NoPass
        BY <2>1 DEF Publish, Correct, Review, Admit, Plan
      <3> QED BY <1>2, <3>1 DEF NoPass
    <2>2. CASE Summarise \/ UNCHANGED vars
      <3>1. UNCHANGED <<log, catalog, edges, pass>>
        BY <2>2 DEF Summarise, vars, evidence
      <3> QED BY <3>1 DEF ClosedDaysConverge
    <2>3. CASE Refresh
      <3> DEFINE window == RoutineWindow
      <3>1. CASE pass' = NoPass
        BY <1>2, <3>1 DEF NoPass
      <3>2. ASSUME NEW baseline \in Views({}, window, log, edges), RefreshRetained(baseline, window)
            PROVE  ClosedDaysConverge'
        <4>1. Changed(baseline, window) = {} /\ pass'.compacted = Carried(baseline, window)
          BY <3>2 DEF RefreshRetained, Passed
        <4> HIDE DEF window
        <4>2. Carried(baseline, window) = {}
          BY <3>2, <4>1, CarriedChanged
        <4> QED BY <1>2, <4>1, <4>2
      <3>3. ASSUME NEW baseline \in Views({}, window, log, edges),
                   DeltaSetting(window, baseline), Passed(window, baseline),
                   NEW view \in Views({Len(log) + 1}, window, log', Superseding(baseline)),
                   Commit(view, window), InConflict(view, window) = {}
            PROVE  ClosedDaysConverge'
        <4>1. pass'.compacted = Carried(baseline, window) /\ pass'.held = Held
          BY <3>3 DEF Passed
        <4> DEFINE rel == Superseding(baseline)
        <4> HIDE DEF rel
        <4>2. BaselineKeeps(window, baseline)
          BY <3>3, BaselineSays
        <4>3. KeepsNeeded(view, window, rel) /\ Leaves(view, window, rel)
          BY <3>3, ViewKeepsNeeded, CommitLeaves DEF rel
        <4>4. Accepted(view, window, baseline, rel)
          BY <3>3, <4>2, <4>3 DEF Accepted, rel
        <4>5. ASSUME NEW d \in Carried(baseline, window)
              PROVE  /\ WonOn(log', catalog', edges', d) = 1
                     /\ Cardinality({i \in catalog' \ Held :
                                       /\ log'[i].delta
                                       /\ \A s \in SlotSet \ d : log'[i].pts[s] = None}) <= 1
          BY <3>3, <4>4, CarriedConverges
        <4> QED BY <4>1, <4>5 DEF ClosedDaysConverge
      <3> QED BY <2>3, <3>1, <3>2, <3>3, RefreshCases
    <2> QED BY <2>1, <2>2, <2>3 DEF Next
  <1> QED BY <1>3, <1>4, InvHolds, PTL DEF Spec
=============================================================================
