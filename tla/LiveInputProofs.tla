-------------------------- MODULE LiveInputProofs --------------------------
EXTENDS LiveInput, NaturalsInduction, WellFoundedInduction, TLAPS

-----------------------------------------------------------------------------
(* Queues.                                                                 *)

Below == {ss \in Nat \X Nat : ss[1] < ss[2]}

\* What does not hold of every number up to n has a first one it does not
\* hold of.
LEMMA First ==
  ASSUME NEW S \in SUBSET Nat, S # {}
  PROVE  \E n \in S : \A m \in S : n <= m
<1>1. OpToRel(<, Nat) = Below
  BY Zenon DEF OpToRel, Below
<1>2. IsWellFoundedOn(Below, Nat)
  BY NatLessThanWellFounded, <1>1, Zenon
<1>3. PICK x \in S : \A y \in S : <<y, x>> \notin Below
  BY <1>2, WFMin
<1>4. \A y \in S : x <= y
  <2> SUFFICES ASSUME NEW y \in S, y < x PROVE FALSE
    OBVIOUS
  <2> QED
    BY <1>3 DEF Below
<1> QED
  BY <1>4

\* Each of its entries is in the queue once.
NoDup(q) == \A i, j \in DOMAIN q : q[i] = q[j] => i = j

\* What is in the queue before m comes.
Before(q, m) == {q[i] : i \in {j \in DOMAIN q : \A k \in 1..j : q[k] # m}}

\* w is what Without keeps of the first n entries of q.
Keeps(w, q, S, n) ==
  /\ w \in Seq(Msgs)
  /\ In(w) = {q[i] : i \in 1..n} \ S
  /\ NoDup(q) => NoDup(w)
  /\ \A m \in Msgs \ S :
       \A i \in DOMAIN w : (\A k \in 1..i : w[k] # m) =>
         \E j \in 1..n : q[j] = w[i] /\ \A k \in 1..j : q[k] # m
  /\ w # <<>> => \E j \in 1..n : /\ w[1] = q[j] /\ q[j] \notin S
                                 /\ \A k \in 1..(j - 1) : q[k] \in S

\* One more entry of the queue is kept or left out.
LEMMA KeepsStep ==
  ASSUME NEW q \in Seq(Msgs), NEW S, NEW n \in 1..Len(q), NEW w,
         Keeps(w, q, S, n - 1)
  PROVE  Keeps(IF q[n] \in S THEN w ELSE Append(w, q[n]), q, S, n)
<1>0. /\ n \in Nat /\ n - 1 \in Nat /\ q[n] \in Msgs /\ w \in Seq(Msgs)
      /\ Len(q) \in Nat /\ Len(w) \in Nat /\ DOMAIN q = 1..Len(q)
      /\ DOMAIN w = 1..Len(w)
      /\ 1..n = (1..(n - 1)) \cup {n}
  BY DEF Keeps
<1>1. In(w) = {q[i] : i \in 1..(n - 1)} \ S
  BY DEF Keeps
<1>2. CASE q[n] \in S
  <2>1. {q[i] : i \in 1..n} \ S = {q[i] : i \in 1..(n - 1)} \ S
    BY <1>0, <1>2
  <2>2. Keeps(w, q, S, n)
    BY <1>0, <2>1 DEF Keeps
  <2> QED
    BY <2>2, <1>2
<1>3. CASE q[n] \notin S
  <2> DEFINE v == Append(w, q[n])
  <2>1. /\ v \in Seq(Msgs) /\ Len(v) = Len(w) + 1 /\ DOMAIN v = 1..(Len(w) + 1)
        /\ v[Len(w) + 1] = q[n] /\ \A i \in 1..Len(w) : v[i] = w[i]
    BY <1>0
  <2> HIDE DEF v
  <2>2. In(v) = {q[i] : i \in 1..n} \ S
    <3>1. In(v) = In(w) \cup {q[n]}
      <4>1. DOMAIN v = DOMAIN w \cup {Len(w) + 1}
        BY <1>0, <2>1
      <4> QED
        BY <1>0, <2>1, <4>1 DEF In
    <3>2. {q[i] : i \in 1..n} = {q[i] : i \in 1..(n - 1)} \cup {q[n]}
      BY <1>0
    <3> QED
      BY <1>1, <1>3, <3>1, <3>2
  <2>3. NoDup(q) => NoDup(v)
    <3> SUFFICES ASSUME NoDup(q), NEW i \in DOMAIN v, NEW j \in DOMAIN v,
                        v[i] = v[j]
                 PROVE  i = j
      BY DEF NoDup
    <3>1. NoDup(w)
      BY DEF Keeps
    <3>2. \A k \in DOMAIN w : w[k] # q[n]
      <4> SUFFICES ASSUME NEW k \in DOMAIN w, w[k] = q[n] PROVE FALSE
        OBVIOUS
      <4>1. w[k] \in In(w)
        BY DEF In
      <4>2. PICK l \in 1..(n - 1) : q[l] = q[n]
        BY <1>1, <4>1
      <4>3. l \in DOMAIN q /\ n \in DOMAIN q /\ l # n
        BY <1>0, <4>2
      <4> QED
        BY <4>2, <4>3 DEF NoDup
    <3>3. CASE i \in DOMAIN w /\ j \in DOMAIN w
      BY <2>1, <3>1, <3>3 DEF NoDup
    <3>4. CASE i \notin DOMAIN w \/ j \notin DOMAIN w
      BY <2>1, <3>2, <3>4
    <3> QED
      BY <3>3, <3>4
  <2>4. ASSUME NEW m \in Msgs \ S, NEW i \in DOMAIN v,
               \A k \in 1..i : v[k] # m
        PROVE  \E j \in 1..n : q[j] = v[i] /\ \A k \in 1..j : q[k] # m
    <3>1. CASE i \in DOMAIN w
      <4>1. \A k \in 1..i : w[k] # m
        BY <2>1, <2>4, <3>1
      <4>2. PICK j \in 1..(n - 1) : q[j] = w[i] /\ \A k \in 1..j : q[k] # m
        BY <3>1, <4>1 DEF Keeps
      <4> QED
        BY <2>1, <3>1, <4>2
    <3>2. CASE i \notin DOMAIN w
      <4>1. i = Len(w) + 1 /\ v[i] = q[n]
        BY <1>0, <2>1, <3>2
      <4>2. \A k \in DOMAIN w : w[k] # m
        BY <2>1, <2>4, <4>1
      <4>3. m \notin In(w)
        BY <4>2 DEF In
      <4>4. \A k \in 1..(n - 1) : q[k] # m
        BY <1>1, <4>3
      <4>5. q[n] # m
        BY <1>0, <2>4, <4>1
      <4>6. \A k \in 1..n : q[k] # m
        BY <1>0, <4>4, <4>5
      <4> QED
        BY <1>0, <4>1, <4>6
    <3> QED
      BY <3>1, <3>2
  <2>5. \E j \in 1..n : /\ v[1] = q[j] /\ q[j] \notin S
                        /\ \A k \in 1..(j - 1) : q[k] \in S
    <3>1. CASE w # <<>>
      <4>1. PICK j \in 1..(n - 1) : /\ w[1] = q[j] /\ q[j] \notin S
                                    /\ \A k \in 1..(j - 1) : q[k] \in S
        BY <3>1 DEF Keeps
      <4>2. v[1] = w[1]
        BY <1>0, <2>1, <3>1
      <4> QED
        BY <1>0, <4>1, <4>2
    <3>2. CASE w = <<>>
      <4>1. v[1] = q[n]
        BY <2>1, <3>2
      <4>2. In(w) = {}
        BY <3>2 DEF In
      <4>3. \A k \in 1..(n - 1) : q[k] \in S
        BY <1>1, <4>2
      <4> QED
        BY <1>3, <4>1, <4>3
    <3> QED
      BY <3>1, <3>2
  <2>6. Keeps(v, q, S, n)
    BY <2>1, <2>2, <2>3, <2>4, <2>5 DEF Keeps
  <2> QED
    BY <2>6, <1>3 DEF v
<1> QED
  BY <1>2, <1>3

\* f is Without's recursion on the first n entries of q.
Recursion(f, q, S, n) ==
  f = [i \in 0..n |-> IF i = 0 THEN <<>>
                      ELSE IF q[i] \in S THEN f[i - 1]
                      ELSE Append(f[i - 1], q[i])]

\* Without (removeEntries, takeSteers) keeps the other entries in order.
LEMMA WithoutKeeps ==
  ASSUME NEW q \in Seq(Msgs), NEW S
  PROVE  Keeps(Without(q, S), q, S, Len(q))
<1> DEFINE step(f, i) == IF i = 0 THEN <<>>
                         ELSE IF q[i] \in S THEN f[i - 1]
                         ELSE Append(f[i - 1], q[i])
<1>0. Len(q) \in Nat /\ DOMAIN q = 1..Len(q)
  OBVIOUS
<1>1. \A n \in 0..Len(q) : \E f : Recursion(f, q, S, n)
  <2> DEFINE Bad == {n \in 0..Len(q) : ~\E f : Recursion(f, q, S, n)}
  <2> SUFFICES ASSUME Bad # {} PROVE FALSE
    OBVIOUS
  <2>1. Bad \in SUBSET Nat
    BY <1>0
  <2>2. PICK n \in Bad : \A m \in Bad : n <= m
    <3> HIDE DEF Bad
    <3> QED
      BY <2>1, First
  <2>3. CASE n = 0
    <3>1. Recursion([i \in 0..0 |-> <<>>], q, S, 0)
      BY DEF Recursion
    <3> QED
      BY <2>2, <2>3, <3>1
  <2>4. CASE n # 0
    <3>1. n - 1 \in 0..Len(q) /\ n \in Nat /\ n - 1 \in Nat /\ ~(n <= n - 1)
      BY <1>0, <2>4
    <3>2. n - 1 \notin Bad
      BY <2>2, <3>1
    <3>3. PICK f : Recursion(f, q, S, n - 1)
      BY <3>1, <3>2
    <3> DEFINE g == [i \in 0..n |-> IF i = n THEN step(f, n) ELSE f[i]]
    <3>4. ASSUME NEW i \in 0..n PROVE g[i] = step(g, i)
      <4>1. CASE i = 0
        <5>1. i \in 0..(n - 1) /\ i # n
          BY <3>1, <4>1
        <5>2. f[i] = <<>>
          BY <3>3, <4>1, <5>1 DEF Recursion
        <5> QED
          BY <4>1, <5>1, <5>2
      <4>2. CASE i # 0 /\ i # n
        <5>1. i \in 0..(n - 1) /\ i - 1 \in 0..(n - 1) /\ i - 1 # n /\ i - 1 \in 0..n
          BY <3>1, <4>2
        <5>2. f[i] = step(f, i)
          BY <3>3, <5>1 DEF Recursion
        <5>3. g[i] = f[i] /\ g[i - 1] = f[i - 1]
          BY <4>2, <5>1
        <5> QED
          BY <5>2, <5>3, <4>2
      <4>3. CASE i = n
        <5>1. n - 1 # n /\ n - 1 \in 0..n
          BY <3>1
        <5>2. g[n] = step(f, n) /\ g[n - 1] = f[n - 1]
          BY <4>3, <5>1
        <5> QED
          BY <5>2, <4>3, <2>4
      <4> QED
        BY <4>1, <4>2, <4>3
    <3>5. Recursion(g, q, S, n)
      <4>1. g = [i \in 0..n |-> g[i]]
        OBVIOUS
      <4> HIDE DEF g
      <4> QED
        BY <3>4, <4>1 DEF Recursion
    <3> QED
      BY <2>2, <3>5
  <2> QED
    BY <2>3, <2>4
<1>2. PICK f : /\ Recursion(f, q, S, Len(q)) /\ Without(q, S) = f[Len(q)]
  <2> DEFINE kept == CHOOSE f : Recursion(f, q, S, Len(q))
  <2>1. Recursion(kept, q, S, Len(q))
    BY <1>0, <1>1
  <2>2. Without(q, S) = kept[Len(q)]
    BY DEF Without, Recursion
  <2> QED
    BY <2>1, <2>2
<1>3. \A i \in 0..Len(q) : f[i] = step(f, i)
  BY <1>2 DEF Recursion
<1>4. \A n \in 0..Len(q) : Keeps(f[n], q, S, n)
  <2> DEFINE Bad == {n \in 0..Len(q) : ~Keeps(f[n], q, S, n)}
  <2> SUFFICES ASSUME Bad # {} PROVE FALSE
    OBVIOUS
  <2>1. Bad \in SUBSET Nat
    BY <1>0
  <2>2. PICK n \in Bad : \A m \in Bad : n <= m
    <3> HIDE DEF Bad
    <3> QED
      BY <2>1, First
  <2>3. CASE n = 0
    <3>1. f[0] = <<>>
      BY <1>0, <1>3
    <3>2. Keeps(<<>>, q, S, 0)
      <4>1. <<>> \in Seq(Msgs) /\ DOMAIN <<>> = {} /\ 1..0 = {}
        OBVIOUS
      <4> QED
        BY <4>1 DEF Keeps, In, NoDup
    <3> QED
      BY <2>3, <3>1, <3>2
  <2>4. CASE n # 0
    <3>1. n - 1 \in 0..Len(q) /\ n \in 1..Len(q) /\ ~(n <= n - 1)
      BY <1>0, <2>4
    <3>2. n - 1 \notin Bad
      BY <2>2, <3>1
    <3>3. Keeps(f[n - 1], q, S, n - 1)
      BY <3>1, <3>2
    <3>4. Keeps(step(f, n), q, S, n)
      <4>1. Keeps(IF q[n] \in S THEN f[n - 1] ELSE Append(f[n - 1], q[n]), q, S, n)
        BY <3>1, <3>3, KeepsStep
      <4> QED
        BY <2>4, <4>1
    <3>5. f[n] = step(f, n)
      BY <1>3
    <3> QED
      BY <2>2, <3>4, <3>5
  <2> QED
    BY <2>3, <2>4
<1> QED
  BY <1>0, <1>2, <1>4

\* What Without keeps of a queue, and that nothing passes another in it.
LEMMA WithoutIs ==
  ASSUME NEW q \in Seq(Msgs), NEW S
  PROVE  /\ Without(q, S) \in Seq(Msgs)
         /\ In(Without(q, S)) = In(q) \ S
         /\ NoDup(q) => NoDup(Without(q, S))
         /\ \A m \in Msgs \ S : Before(Without(q, S), m) \subseteq Before(q, m)
<1> DEFINE w == Without(q, S)
<1>1. Keeps(w, q, S, Len(q))
  BY WithoutKeeps
<1>2. DOMAIN q = 1..Len(q)
  OBVIOUS
<1> HIDE DEF w
<1>3. In(w) = In(q) \ S
  BY <1>1, <1>2 DEF Keeps, In
<1>4. ASSUME NEW m \in Msgs \ S PROVE Before(w, m) \subseteq Before(q, m)
  <2> SUFFICES ASSUME NEW i \in DOMAIN w, \A k \in 1..i : w[k] # m
               PROVE  w[i] \in Before(q, m)
    BY DEF Before
  <2>1. PICK j \in 1..Len(q) : q[j] = w[i] /\ \A k \in 1..j : q[k] # m
    BY <1>1 DEF Keeps
  <2> QED
    BY <1>2, <2>1 DEF Before
<1>5. w \in Seq(Msgs) /\ (NoDup(q) => NoDup(w))
  BY <1>1 DEF Keeps
<1> QED
  BY <1>3, <1>4, <1>5 DEF w

\* The oldest message in S: there is none, or none in S comes before it.
LEMMA OldestIs ==
  ASSUME NEW q \in Seq(Msgs), NEW S \in SUBSET Msgs
  PROVE  \/ Oldest(q, S) = None /\ In(q) \cap S = {}
         \/ /\ Oldest(q, S) \in In(q) \cap S
            /\ Before(q, Oldest(q, S)) \cap S = {}
<1> DEFINE w == Without(q, Msgs \ S)
<1>1. Keeps(w, q, Msgs \ S, Len(q))
  BY WithoutKeeps
<1>2. DOMAIN q = 1..Len(q) /\ Len(q) \in Nat /\ In(q) \subseteq Msgs
  BY DEF In
<1>3. Oldest(q, S) = IF w = <<>> THEN None ELSE Head(w)
  BY DEF Oldest
<1> HIDE DEF w
<1>4. In(w) = In(q) \cap S
  BY <1>1, <1>2 DEF Keeps, In
<1>5. CASE w = <<>>
  BY <1>3, <1>4, <1>5 DEF In
<1>6. CASE w # <<>>
  <2>1. w \in Seq(Msgs)
    BY <1>1 DEF Keeps
  <2>2. PICK j \in 1..Len(q) : /\ w[1] = q[j] /\ q[j] \notin Msgs \ S
                               /\ \A k \in 1..(j - 1) : q[k] \in Msgs \ S
    BY <1>1, <1>6 DEF Keeps
  <2>3. Oldest(q, S) = q[j]
    BY <1>3, <1>6, <2>1, <2>2
  <2>4. q[j] \in In(q) \cap S
    BY <1>2, <2>2 DEF In
  <2>5. \A i \in DOMAIN q : (\A k \in 1..i : q[k] # q[j]) => q[i] \notin S
    <3> SUFFICES ASSUME NEW i \in DOMAIN q, \A k \in 1..i : q[k] # q[j]
                 PROVE  q[i] \notin S
      OBVIOUS
    <3>1. i < j
      BY <1>2
    <3>2. i \in 1..(j - 1)
      BY <1>2, <3>1
    <3> QED
      BY <2>2, <3>2
  <2> QED
    BY <2>3, <2>4, <2>5 DEF Before
<1> QED
  BY <1>5, <1>6

\* Adding what is already there changes nothing.
LEMMA AddedIs ==
  ASSUME NEW q \in Seq(Msgs), NEW m \in Msgs
  PROVE  /\ Added(q, m) \in Seq(Msgs)
         /\ In(Added(q, m)) = In(q) \cup {m}
         /\ NoDup(q) => NoDup(Added(q, m))
<1>1. CASE m \in In(q)
  BY <1>1 DEF Added
<1>2. CASE m \notin In(q)
  <2> DEFINE v == Append(q, m)
  <2>1. /\ v \in Seq(Msgs) /\ DOMAIN v = DOMAIN q \cup {Len(q) + 1}
        /\ v[Len(q) + 1] = m /\ \A i \in DOMAIN q : v[i] = q[i]
    OBVIOUS
  <2>2. Added(q, m) = v
    BY <1>2 DEF Added
  <2> HIDE DEF v
  <2>3. \A i \in DOMAIN q : q[i] # m
    BY <1>2 DEF In
  <2> QED
    BY <2>1, <2>2, <2>3 DEF In, NoDup
<1> QED
  BY <1>1, <1>2

\* One queue after another.
LEMMA JoinedIs ==
  ASSUME NEW p \in Seq(Msgs), NEW q \in Seq(Msgs)
  PROVE  /\ p \o q \in Seq(Msgs)
         /\ In(p \o q) = In(p) \cup In(q)
         /\ NoDup(p) /\ NoDup(q) /\ In(p) \cap In(q) = {} => NoDup(p \o q)
<1> DEFINE r == p \o q
<1>1. /\ r \in Seq(Msgs) /\ DOMAIN r = 1..(Len(p) + Len(q))
      /\ Len(p) \in Nat /\ Len(q) \in Nat
      /\ DOMAIN p = 1..Len(p) /\ DOMAIN q = 1..Len(q)
      /\ \A i \in 1..Len(p) : r[i] = p[i]
      /\ \A i \in 1..Len(q) : r[Len(p) + i] = q[i]
  OBVIOUS
<1> HIDE DEF r
<1>2. \A i \in DOMAIN r : \/ i \in DOMAIN p /\ r[i] = p[i]
                          \/ /\ i \notin DOMAIN p /\ i - Len(p) \in DOMAIN q
                             /\ r[i] = q[i - Len(p)]
  <2> SUFFICES ASSUME NEW i \in DOMAIN r, i \notin DOMAIN p
               PROVE  i - Len(p) \in DOMAIN q /\ r[i] = q[i - Len(p)]
    BY <1>1
  <2>1. i - Len(p) \in 1..Len(q) /\ Len(p) + (i - Len(p)) = i
    BY <1>1
  <2> QED
    BY <1>1, <2>1
<1>3. \A i \in DOMAIN q : Len(p) + i \in DOMAIN r
  BY <1>1
<1>4. \A i \in DOMAIN p : i \in DOMAIN r
  BY <1>1
<1>5. In(r) = In(p) \cup In(q)
  <2>1. In(r) \subseteq In(p) \cup In(q)
    BY <1>2 DEF In
  <2>2. In(p) \subseteq In(r)
    BY <1>1, <1>4 DEF In
  <2>3. In(q) \subseteq In(r)
    <3> SUFFICES ASSUME NEW i \in DOMAIN q PROVE q[i] \in In(r)
      BY DEF In
    <3> QED
      BY <1>1, <1>3 DEF In
  <2> QED
    BY <2>1, <2>2, <2>3
<1>6. ASSUME NoDup(p), NoDup(q), In(p) \cap In(q) = {},
             NEW i \in DOMAIN r, NEW j \in DOMAIN r, r[i] = r[j]
      PROVE  i = j
  <2>1. \A k \in DOMAIN p, l \in DOMAIN q : p[k] # q[l]
    BY <1>6 DEF In
  <2>2. CASE i \in DOMAIN p /\ j \in DOMAIN p
    BY <1>1, <1>6, <2>2 DEF NoDup
  <2>3. CASE i \notin DOMAIN p /\ j \notin DOMAIN p
    <3>1. i - Len(p) = j - Len(p)
      BY <1>2, <1>6, <2>3 DEF NoDup
    <3> QED
      BY <1>1, <3>1
  <2>4. CASE (i \in DOMAIN p) # (j \in DOMAIN p)
    BY <1>2, <1>6, <2>1, <2>4
  <2> QED
    BY <2>2, <2>3, <2>4
<1> QED
  BY <1>1, <1>5, <1>6 DEF r, NoDup

\* What a save makes of the queue on disk.
LEMMA MergedIs ==
  ASSUME memQ \in Seq(Msgs), diskQ \in Seq(Msgs)
  PROVE  /\ Merged(diskQ) \in Seq(Msgs)
         /\ In(Merged(diskQ)) = (In(diskQ) \ (base \ In(memQ)))
                                  \cup (In(memQ) \ base)
         /\ NoDup(diskQ) /\ NoDup(memQ) => NoDup(Merged(diskQ))
<1> DEFINE p == Without(diskQ, base \ In(memQ))
           q == Without(memQ, base \cup In(diskQ))
<1>1. /\ p \in Seq(Msgs) /\ In(p) = In(diskQ) \ (base \ In(memQ))
      /\ NoDup(diskQ) => NoDup(p)
  BY WithoutIs
<1>2. /\ q \in Seq(Msgs) /\ In(q) = In(memQ) \ (base \cup In(diskQ))
      /\ NoDup(memQ) => NoDup(q)
  BY WithoutIs
<1>3. Merged(diskQ) = p \o q
  BY DEF Merged
<1> HIDE DEF p, q
<1>4. /\ p \o q \in Seq(Msgs) /\ In(p \o q) = In(p) \cup In(q)
      /\ NoDup(p) /\ NoDup(q) /\ In(p) \cap In(q) = {} => NoDup(p \o q)
  BY <1>1, <1>2, JoinedIs
<1>5. In(p) \cap In(q) = {}
  BY <1>1, <1>2
<1>6. In(p) \cup In(q) = (In(diskQ) \ (base \ In(memQ)))
                           \cup (In(memQ) \ base)
  BY <1>1, <1>2
<1> QED
  BY <1>1, <1>2, <1>3, <1>4, <1>5, <1>6

-----------------------------------------------------------------------------
(* The broker's jobs and the journal's chain of saves.                     *)

\* Taking the first entry off a sequence, or putting one at its end.
LEMMA TailIs ==
  ASSUME NEW M, NEW q \in Seq(M), q # <<>>
  PROVE  /\ Head(q) \in M /\ Tail(q) \in Seq(M)
         /\ In(q) = {Head(q)} \cup In(Tail(q))
         /\ Head(q) = q[1] /\ 1 \in DOMAIN q
         /\ \A i \in DOMAIN Tail(q) : i + 1 \in DOMAIN q /\ Tail(q)[i] = q[i + 1]
                                      /\ i \in Nat /\ i + 1 # 1
<1>1. /\ Head(q) \in M /\ Tail(q) \in Seq(M) /\ Len(q) \in Nat /\ Len(q) >= 1
      /\ DOMAIN q = 1..Len(q) /\ DOMAIN Tail(q) = 1..(Len(q) - 1)
      /\ Head(q) = q[1]
      /\ \A i \in 1..(Len(q) - 1) : Tail(q)[i] = q[i + 1]
  OBVIOUS
<1>2. \A i \in DOMAIN q : i = 1 \/ (i - 1 \in DOMAIN Tail(q) /\ (i - 1) + 1 = i)
  BY <1>1
<1>3. \A i \in DOMAIN Tail(q) : i + 1 \in DOMAIN q /\ Tail(q)[i] = q[i + 1]
                                /\ i \in Nat /\ i + 1 # 1
  BY <1>1
<1>4. 1 \in DOMAIN q
  BY <1>1
<1>5. In(q) \subseteq {Head(q)} \cup In(Tail(q))
  <2> SUFFICES ASSUME NEW i \in DOMAIN q, i # 1 PROVE q[i] \in In(Tail(q))
    BY <1>1 DEF In
  <2>1. i - 1 \in DOMAIN Tail(q) /\ Tail(q)[i - 1] = q[i]
    BY <1>2, <1>3
  <2> QED
    BY <2>1 DEF In
<1>6. {Head(q)} \cup In(Tail(q)) \subseteq In(q)
  BY <1>1, <1>3, <1>4 DEF In
<1> QED
  BY <1>4, <1>5, <1>6

\* What a sequence holds after an entry was put at its end.
LEMMA AppendIs ==
  ASSUME NEW M, NEW q \in Seq(M), NEW e \in M
  PROVE  /\ Append(q, e) \in Seq(M) /\ Append(q, e) # <<>>
         /\ In(Append(q, e)) = In(q) \cup {e}
         /\ q # <<>> => Head(Append(q, e)) = Head(q)
         /\ q = <<>> => Head(Append(q, e)) = e
         /\ \A i \in DOMAIN Append(q, e) :
              \/ i \in DOMAIN q /\ Append(q, e)[i] = q[i]
              \/ i = Len(q) + 1 /\ Append(q, e)[i] = e
         /\ \A i \in DOMAIN q : i < Len(q) + 1
<1> DEFINE v == Append(q, e)
<1>1. /\ v \in Seq(M) /\ Len(v) = Len(q) + 1 /\ Len(q) \in Nat
      /\ DOMAIN v = 1..(Len(q) + 1) /\ DOMAIN q = 1..Len(q)
      /\ v[Len(q) + 1] = e /\ \A i \in 1..Len(q) : v[i] = q[i]
  OBVIOUS
<1> HIDE DEF v
<1>2. DOMAIN v = DOMAIN q \cup {Len(q) + 1}
  BY <1>1
<1>3. In(v) = In(q) \cup {e}
  BY <1>1, <1>2 DEF In
<1>4. v # <<>> /\ (q # <<>> => Head(v) = Head(q)) /\ (q = <<>> => Head(v) = e)
  BY <1>1
<1> QED
  BY <1>3, <1>4 DEF v

\* No message is submitted twice.
OneSubmit(q) ==
  \A i, j \in DOMAIN q :
    q[i].kind = "submit" /\ q[j].kind = "submit" /\ q[i].msg = q[j].msg => i = j

\* Nothing but a requeue is in the chain twice.
OneSave(q) == \A i, j \in DOMAIN q : q[i] = q[j] /\ q[i][1] # "requeue" => i = j

\* Every save of a in the chain comes before every one of b.
Precede(a, b, q) ==
  \A i, j \in DOMAIN q : q[i][1] = a /\ q[j][1] = b => i < j
\* The requeues in the chain come before the save of a job.
RequeuesFirst(q) == Precede("requeue", "job", q)

Submits(m) == \E e \in In(tail) : e.kind = "submit" /\ e.msg = m

\* Finishing the first job leaves one submit per message.
LEMMA TailOneSubmit ==
  ASSUME NEW q \in Seq(JobType), q # <<>>, OneSubmit(q)
  PROVE  /\ OneSubmit(Tail(q))
         /\ Head(q).kind = "submit" =>
              \A e \in In(Tail(q)) : e.kind = "submit" => e.msg # Head(q).msg
<1>1. /\ Head(q) = q[1] /\ 1 \in DOMAIN q
      /\ \A i \in DOMAIN Tail(q) : i + 1 \in DOMAIN q /\ Tail(q)[i] = q[i + 1]
                                   /\ i \in Nat /\ i + 1 # 1
  BY TailIs
<1>2. OneSubmit(Tail(q))
  <2> SUFFICES ASSUME NEW i \in DOMAIN Tail(q), NEW j \in DOMAIN Tail(q),
                      Tail(q)[i].kind = "submit", Tail(q)[j].kind = "submit",
                      Tail(q)[i].msg = Tail(q)[j].msg
               PROVE  i = j
    BY DEF OneSubmit
  <2>1. i + 1 = j + 1
    BY <1>1 DEF OneSubmit
  <2> QED
    BY <1>1, <2>1
<1>3. ASSUME Head(q).kind = "submit", NEW i \in DOMAIN Tail(q),
             Tail(q)[i].kind = "submit"
      PROVE  Tail(q)[i].msg # Head(q).msg
  BY <1>1, <1>3 DEF OneSubmit
<1> QED
  BY <1>2, <1>3 DEF In

\* So does a job that joins, unless its message has one.
LEMMA AppendOneSubmit ==
  ASSUME NEW q \in Seq(JobType), NEW e \in JobType, OneSubmit(q),
         e.kind = "submit" => \A d \in In(q) : d.kind = "submit" => d.msg # e.msg
  PROVE  OneSubmit(Append(q, e))
<1> DEFINE v == Append(q, e)
<1>1. \A i \in DOMAIN v : \/ i \in DOMAIN q /\ v[i] = q[i]
                          \/ i = Len(q) + 1 /\ v[i] = e
  BY AppendIs
<1> HIDE DEF v
<1>2. e.kind = "submit" => \A i \in DOMAIN q :
                             q[i].kind = "submit" => q[i].msg # e.msg
  BY DEF In
<1>3. OneSubmit(v)
  <2> SUFFICES ASSUME NEW i \in DOMAIN v, NEW j \in DOMAIN v,
                      v[i].kind = "submit", v[j].kind = "submit",
                      v[i].msg = v[j].msg
               PROVE  i = j
    BY DEF OneSubmit
  <2>1. CASE i \in DOMAIN q /\ v[i] = q[i] /\ j \in DOMAIN q /\ v[j] = q[j]
    BY <2>1 DEF OneSubmit
  <2>2. CASE i \in DOMAIN q /\ v[i] = q[i] /\ v[j] = e
    <3>1. q[i].kind = "submit" /\ q[i].msg = e.msg /\ e.kind = "submit"
      BY <2>2
    <3> QED
      BY <1>2, <2>2, <3>1
  <2>3. CASE v[i] = e /\ j \in DOMAIN q /\ v[j] = q[j]
    <3>1. q[j].kind = "submit" /\ q[j].msg = e.msg /\ e.kind = "submit"
      BY <2>3
    <3> QED
      BY <1>2, <2>3, <3>1
  <2>4. CASE i = Len(q) + 1 /\ j = Len(q) + 1
    BY <2>4
  <2> QED
    BY <1>1, <2>1, <2>2, <2>3, <2>4
<1> QED
  BY <1>3 DEF v

\* Making the first save leaves no save asked for twice.
LEMMA TailOneSave ==
  ASSUME NEW q \in Seq(SaveType), q # <<>>, OneSave(q)
  PROVE  /\ OneSave(Tail(q))
         /\ Head(q)[1] # "requeue" => Head(q) \notin In(Tail(q))
<1>1. /\ Head(q) = q[1] /\ 1 \in DOMAIN q
      /\ \A i \in DOMAIN Tail(q) : i + 1 \in DOMAIN q /\ Tail(q)[i] = q[i + 1]
                                   /\ i \in Nat /\ i + 1 # 1
  BY TailIs
<1>2. OneSave(Tail(q))
  <2> SUFFICES ASSUME NEW i \in DOMAIN Tail(q), NEW j \in DOMAIN Tail(q),
                      Tail(q)[i] = Tail(q)[j], Tail(q)[i][1] # "requeue"
               PROVE  i = j
    BY DEF OneSave
  <2>1. i + 1 = j + 1
    BY <1>1 DEF OneSave
  <2> QED
    BY <1>1, <2>1
<1>3. ASSUME Head(q)[1] # "requeue", NEW i \in DOMAIN Tail(q)
      PROVE  Tail(q)[i] # Head(q)
  BY <1>1, <1>3 DEF OneSave
<1> QED
  BY <1>2, <1>3 DEF In

\* So does asking for one nobody waits for yet.
LEMMA AppendOneSave ==
  ASSUME NEW q \in Seq(SaveType), NEW e \in SaveType, OneSave(q),
         e \notin In(q) \/ e[1] = "requeue"
  PROVE  OneSave(Append(q, e))
<1> DEFINE v == Append(q, e)
<1>1. \A i \in DOMAIN v : \/ i \in DOMAIN q /\ v[i] = q[i]
                          \/ i = Len(q) + 1 /\ v[i] = e
  BY AppendIs
<1> HIDE DEF v
<1>2. e[1] # "requeue" => \A i \in DOMAIN q : q[i] # e
  BY DEF In
<1>3. OneSave(v)
  BY <1>1, <1>2 DEF OneSave
<1> QED
  BY <1>3 DEF v

\* The chain without its first save, and with one more.
LEMMA TailPrecede ==
  ASSUME NEW q \in Seq(SaveType), q # <<>>, NEW a, NEW b, Precede(a, b, q)
  PROVE  /\ Precede(a, b, Tail(q))
         /\ Head(q)[1] = b => \A e \in In(Tail(q)) : e[1] # a
<1>1. /\ Head(q) = q[1] /\ 1 \in DOMAIN q
      /\ \A i \in DOMAIN Tail(q) : i + 1 \in DOMAIN q /\ Tail(q)[i] = q[i + 1]
                                   /\ i \in Nat /\ i + 1 # 1
  BY TailIs
<1>2. Precede(a, b, Tail(q))
  <2> SUFFICES ASSUME NEW i \in DOMAIN Tail(q), NEW j \in DOMAIN Tail(q),
                      Tail(q)[i][1] = a, Tail(q)[j][1] = b
               PROVE  i < j
    BY DEF Precede
  <2>1. i + 1 < j + 1
    BY <1>1 DEF Precede
  <2> QED
    BY <1>1, <2>1
<1>3. ASSUME Head(q)[1] = b, NEW i \in DOMAIN Tail(q)
      PROVE  Tail(q)[i][1] # a
  <2> SUFFICES ASSUME Tail(q)[i][1] = a PROVE FALSE
    OBVIOUS
  <2>1. i + 1 < 1 /\ i \in Nat
    BY <1>1, <1>3 DEF Precede
  <2> QED
    BY <2>1
<1> QED
  BY <1>2, <1>3 DEF In

\* A b at the end comes after every a.
LEMMA AppendPrecede ==
  ASSUME NEW q \in Seq(SaveType), NEW e \in SaveType, NEW a, NEW b, a # b,
         Precede(a, b, q), e[1] = a => \A d \in In(q) : d[1] # b
  PROVE  Precede(a, b, Append(q, e))
<1> DEFINE v == Append(q, e)
<1>1. /\ \A i \in DOMAIN v : \/ i \in DOMAIN q /\ v[i] = q[i]
                             \/ i = Len(q) + 1 /\ v[i] = e
      /\ \A i \in DOMAIN q : i < Len(q) + 1
  BY AppendIs
<1> HIDE DEF v
<1>2. e[1] = a => \A i \in DOMAIN q : q[i][1] # b
  BY DEF In
<1>3. Precede(a, b, v)
  BY <1>1, <1>2 DEF Precede
<1> QED
  BY <1>3 DEF v

-----------------------------------------------------------------------------
(* The invariant.                                                          *)

Awaits == {"record", "recordNext", "queue", "mark"}
Wrote(who, m) == <<who, m>> \in In(writes)

\* What there is of a turn before its ledger is bound, and after.
Shape ==
  /\ bound => turn \notin {"none", "starting", "read", "claiming"}
  /\ turn \in {"open", "completing", "saving", "unwinding"} => bound
  /\ pending \/ port => bound
  /\ port => turn # "closing"
  /\ ~bound => /\ tail = <<>> /\ delivered = {}
               /\ writes = IF turn = "claiming" THEN << <<"start", None>> >>
                           ELSE <<>>
  /\ turn \in {"none", "starting"} => memQ = <<>> /\ memFlag = {} /\ base = {}
  /\ turn = "claiming" => active # None
  /\ turn \in {"read", "claiming"} => In(memQ) \subseteq base
  /\ bound => ~Wrote("start", None)
  /\ Wrote("end", None) => turn = "saving"
  /\ Wrote("flush", None) => turn = "unwinding"

\* The running job, the messages submitted and the save a job waits for.
JobsShape ==
  /\ tail = <<>> => at = "ready"
  /\ at \in {"offer", "record", "queue"} => Doing.kind = "submit"
  /\ at \in {"offer", "record"} => item = Doing.msg
  /\ at \in {"offerNext", "recordNext"} => item \in Msgs
  /\ saved # "none" => at \in Awaits
  /\ Wrote("job", None) => at \in Awaits /\ saved = "none"
  /\ \A m \in Msgs : bound /\ takeback[m] = "waiting" => tail = <<>>
  /\ \A m \in Msgs : answer[m] = "sent" <=> Submits(m)
  /\ OneSubmit(tail)

\* The chain of saves.  A message that goes back into the queue is not marked,
\* unless a job that comes after it in the chain marks it.
WritesShape ==
  /\ \A m \in Msgs : Wrote("takeBack", m) => takeback[m] = "saving"
  /\ OneSave(writes) /\ RequeuesFirst(writes)
  /\ \A m \in Msgs : Wrote("requeue", m) =>
       /\ answer[m] \in Answered
       /\ m \notin memFlag \/ (at = "mark" /\ saved = "none")

\* Typed, and not yet handed to the journal by its submit.
Fresh(m) ==
  \/ answer[m] \in {"none", "typed"}
  \/ /\ answer[m] = "sent"
     /\ ~(/\ tail # <<>> /\ Doing.kind = "submit" /\ Doing.msg = m
          /\ at \notin {"ready", "offer"})

Nowhere(m) ==
  /\ m \notin In(memQ) \cup memFlag \cup base \cup inTurn
  /\ m \notin In(diskQ) \cup diskFlag \cup savedTurn
  /\ m \notin ran \cup delivered \cup back \cup held \cup picked
  /\ m # active /\ takeback[m] \notin {"writing", "saving"}
  /\ at \in {"offerNext", "recordNext"} => item # m

FreshIsNowhere == \A m \in Msgs : Fresh(m) => Nowhere(m)

NoTwice == NoDup(memQ) /\ NoDup(diskQ)

\* What a turn has claimed is in no queue a turn still works on.
RanIsOver ==
  /\ bound /\ active # None => active \in ran
  /\ ran \cap In(diskQ) = {}
  /\ bound \/ turn \in {"read", "claiming"}
       => ran \cap (In(memQ) \cup delivered) = {}
  /\ turn = "claiming" => active \in base /\ active \notin In(memQ) \cup ran
  /\ \A m \in Msgs : answer[m] = "sent" => m \notin ran
  /\ at \in {"offerNext", "recordNext"} => item \notin ran

\* Nothing marked waits ahead of what is being offered.
InOrder ==
  /\ at = "offer" => In(memQ) \cap memFlag = {}
  /\ at = "offerNext" => /\ item \in In(memQ) \cap memFlag
                         /\ Before(memQ, item) \cap memFlag = {}

\* A take-back that the journal of a turn that ended still has to save.
Owes(j, m) == <<"takeBack", m>> \in In(j.writes)

\* What those journals still have to save: one of them at most answers a
\* take-back, and none knows a message that was not submitted.
LateShape ==
  /\ \A j \in late : j.writes # <<>> /\ OneSave(j.writes)
  /\ \A j \in late, m \in Msgs :
       /\ Owes(j, m) => takeback[m] = "saving" /\ ~Wrote("takeBack", m)
       /\ Fresh(m) => m \notin j.inTurn
  /\ \A j, k \in late, m \in Msgs : Owes(j, m) /\ Owes(k, m) => j = k

IInv == /\ TypeOK /\ Shape /\ JobsShape /\ WritesShape /\ FreshIsNowhere
        /\ NoTwice /\ RanIsOver /\ InOrder /\ LateShape

USE DEF turnVars, memVars, diskVars, jobVars, userVars, endVars

\* Before the first turn every queue is empty.
LEMMA InitHolds ==
  ASSUME Init
  PROVE  IInv
<1>1. TypeOK
  <2>1. turns \in 0..MaxTurns
    BY LiveInputAssumption DEF Init
  <2>2. /\ bound \in BOOLEAN /\ pending \in BOOLEAN /\ port \in BOOLEAN
        /\ keeps \in BOOLEAN
    BY DEF Init
  <2> QED
    BY <2>1, <2>2 DEF Init, TypeOK, Running
<1>2. Shape
  BY DEF Init, Shape, Wrote, In
<1>3. JobsShape
  BY DEF Init, JobsShape, Wrote, In, Submits, OneSubmit
<1>4. WritesShape
  BY DEF Init, WritesShape, Wrote, In, OneSave, RequeuesFirst, Precede
<1>5. FreshIsNowhere
  BY LiveInputAssumption DEF Init, FreshIsNowhere, Nowhere, In
<1>6. NoTwice /\ InOrder
  BY DEF Init, NoTwice, NoDup, InOrder
<1>7. RanIsOver /\ LateShape
  BY DEF Init, RanIsOver, LateShape
<1> QED
  BY <1>1, <1>2, <1>3, <1>4, <1>5, <1>6, <1>7 DEF IInv

\* What is left to save stays as it is while no message becomes new again and
\* no take-back is asked for twice.
LEMMA LateStays ==
  ASSUME IInv, late' = late,
         \A m \in Msgs : Fresh(m)' => Fresh(m),
         \A m \in Msgs : \/ takeback'[m] = takeback[m] \/ takeback[m] # "saving"
                         \/ Wrote("takeBack", m),
         \A m \in Msgs : Wrote("takeBack", m)' =>
           Wrote("takeBack", m) \/ takeback[m] # "saving"
  PROVE  LateShape'
<1>1. LateShape
  BY DEF IInv
<1> QED
  BY <1>1 DEF LateShape, Owes

\* Before the ledger is bound the broker has nothing to do, and nobody waits
\* for a save but the claim.
LEMMA UnboundIs ==
  ASSUME IInv, ~bound
  PROVE  /\ at = "ready" /\ saved = "none" /\ tail = <<>> /\ delivered = {}
         /\ ~pending /\ ~port
         /\ \A m \in Msgs : answer[m] # "sent"
         /\ \A m \in Msgs : ~Wrote("requeue", m) /\ ~Wrote("takeBack", m)
         /\ ~Wrote("job", None) /\ ~Wrote("end", None)
         /\ ~Wrote("flush", None)
         /\ turn # "claiming" => writes = <<>>
         /\ turn = "claiming" => writes = << <<"start", None>> >>
<1>1. /\ tail = <<>> /\ delivered = {} /\ ~pending
      /\ ~port
      /\ writes = IF turn = "claiming" THEN << <<"start", None>> >> ELSE <<>>
  BY DEF IInv, Shape
<1>2. at = "ready" /\ saved = "none"
  BY <1>1 DEF IInv, JobsShape, Awaits
<1>3. \A m \in Msgs : answer[m] # "sent"
  BY <1>1 DEF IInv, JobsShape, Submits, In
<1>4. \A e \in In(writes) : e = <<"start", None>>
  BY <1>1 DEF In
<1>5. /\ \A m \in Msgs : ~Wrote("requeue", m) /\ ~Wrote("takeBack", m)
      /\ ~Wrote("job", None) /\ ~Wrote("end", None)
      /\ ~Wrote("flush", None)
  BY <1>4 DEF Wrote
<1> QED
  BY <1>1, <1>2, <1>3, <1>5

\* A job, and the message it submits.
LEMMA DoingIs ==
  ASSUME IInv, tail # <<>>
  PROVE  /\ Doing \in JobType /\ bound
         /\ Doing.kind = "submit" =>
              /\ Doing.msg \in Msgs /\ Doing.steer \in BOOLEAN
              /\ answer[Doing.msg] = "sent" /\ Doing.msg \notin ran
              /\ at \in {"ready", "offer"} => Fresh(Doing.msg)
<1>1. Doing \in JobType /\ Doing \in In(tail)
  BY TailIs DEF IInv, TypeOK, Doing
<1>2. bound
  BY DEF IInv, Shape
<1>3. Doing.kind = "submit" => Doing.msg \in Msgs /\ Doing.steer \in BOOLEAN
  BY <1>1 DEF JobType
<1>4. Doing.kind = "submit" => answer[Doing.msg] = "sent"
  BY <1>1, <1>3 DEF IInv, JobsShape, Submits
<1>5. Doing.kind = "submit" => Doing.msg \notin ran
  BY <1>3, <1>4 DEF IInv, RanIsOver
<1>6. Doing.kind = "submit" /\ at \in {"ready", "offer"} => Fresh(Doing.msg)
  BY <1>4 DEF Fresh
<1> QED
  BY <1>1, <1>2, <1>3, <1>4, <1>5, <1>6

\* The running job is taken off.
LEMMA JobOver ==
  ASSUME IInv, tail # <<>>, tail' = Tail(tail)
  PROVE  /\ tail' \in Seq(JobType) /\ OneSubmit(tail')
         /\ \A m \in Msgs : Submits(m)' <=>
              Submits(m) /\ ~(Doing.kind = "submit" /\ Doing.msg = m)
<1>1. tail' \in Seq(JobType) /\ In(tail) = {Doing} \cup In(tail')
  BY TailIs DEF IInv, TypeOK, Doing
<1>2. /\ OneSubmit(tail')
      /\ Doing.kind = "submit" =>
           \A e \in In(tail') : e.kind = "submit" => e.msg # Doing.msg
  BY TailOneSubmit DEF IInv, TypeOK, JobsShape, Doing
<1> QED
  BY <1>1, <1>2 DEF Submits

\* The running job is done: the next one is, or nothing is.
LEMMA JobDoneIs ==
  ASSUME IInv, tail # <<>>, NEW known, JobDone(known)
  PROVE  /\ tail' \in Seq(JobType) /\ OneSubmit(tail')
         /\ at' = "ready" /\ item' = None
         /\ answer' \in [Msgs -> {"none", "typed", "sent"} \cup Answered]
         /\ \A m \in Msgs : answer'[m] = "sent" <=> Submits(m)'
         /\ \A m \in Msgs : answer'[m] = answer[m] \/ answer'[m] \in Answered
         /\ \A m \in Msgs : Fresh(m)' => Fresh(m)
<1>1. /\ tail' \in Seq(JobType) /\ OneSubmit(tail')
      /\ \A m \in Msgs : Submits(m)' <=>
           Submits(m) /\ ~(Doing.kind = "submit" /\ Doing.msg = m)
  BY JobOver DEF JobDone
<1>2. /\ answer \in [Msgs -> {"none", "typed", "sent"} \cup Answered]
      /\ \A m \in Msgs : answer[m] = "sent" <=> Submits(m)
  BY DEF IInv, TypeOK, JobsShape
<1>3. at' = "ready" /\ item' = None
  BY DEF JobDone
<1>4. CASE Doing.kind = "submit"
  <2>1. Doing.msg \in Msgs /\ answer[Doing.msg] = "sent"
    BY <1>4, DoingIs
  <2>2. PICK told \in {"steered", "queued"} :
          answer' = [answer EXCEPT ![Doing.msg] = told]
    BY <1>4 DEF JobDone
  <2>3. /\ answer'[Doing.msg] \in Answered
        /\ \A m \in Msgs \ {Doing.msg} : answer'[m] = answer[m]
        /\ answer' \in [Msgs -> {"none", "typed", "sent"} \cup Answered]
    BY <1>2, <2>1, <2>2 DEF Answered
  <2>4. \A m \in Msgs : answer'[m] = "sent" <=> Submits(m)'
    BY <1>1, <1>2, <1>4, <2>3 DEF Answered
  <2>5. \A m \in Msgs : Fresh(m)' => Fresh(m)
    BY <1>3, <2>3 DEF Fresh, Answered
  <2> QED
    BY <1>1, <1>3, <2>3, <2>4, <2>5
<1>5. CASE Doing.kind # "submit"
  <2>1. answer' = answer
    BY <1>5 DEF JobDone
  <2>2. \A m \in Msgs : Fresh(m)' => Fresh(m)
    BY <1>5, <2>1 DEF Fresh
  <2>3. \A m \in Msgs : answer'[m] = "sent" <=> Submits(m)'
    BY <1>1, <1>2, <1>5, <2>1
  <2> QED
    BY <1>1, <1>2, <1>3, <2>1, <2>2, <2>3
<1> QED
  BY <1>4, <1>5

\* The first save of the chain is over.
LEMMA SaveOver ==
  ASSUME IInv, writes # <<>>, writes' = Tail(writes)
  PROVE  /\ writes' \in Seq(SaveType) /\ Head(writes) \in In(writes)
         /\ In(writes) = {Head(writes)} \cup In(writes')
         /\ OneSave(writes') /\ RequeuesFirst(writes')
         /\ Head(writes)[1] # "requeue" => Head(writes) \notin In(writes')
         /\ Head(writes)[1] = "job" => \A e \in In(writes') : e[1] # "requeue"
<1>1. /\ writes \in Seq(SaveType) /\ OneSave(writes) /\ RequeuesFirst(writes)
  BY DEF IInv, TypeOK, WritesShape
<1> QED
  BY <1>1, TailIs, TailOneSave, TailPrecede DEF RequeuesFirst

\* One more save is waited for.
LEMMA Asked ==
  ASSUME IInv, NEW e \in SaveType, writes' = Append(writes, e),
         e \notin In(writes) \/ e[1] = "requeue",
         e[1] = "requeue" => ~Wrote("job", None)
  PROVE  /\ writes' \in Seq(SaveType) /\ In(writes') = In(writes) \cup {e}
         /\ OneSave(writes') /\ RequeuesFirst(writes')
<1>1. /\ writes \in Seq(SaveType) /\ OneSave(writes) /\ RequeuesFirst(writes)
  BY DEF IInv, TypeOK, WritesShape
<1>2. writes' \in Seq(SaveType) /\ In(writes') = In(writes) \cup {e}
  BY <1>1, AppendIs
<1>3. OneSave(writes')
  BY <1>1, AppendOneSave
<1>4. In(writes) \subseteq SaveType
  BY <1>1 DEF In
<1>5. e[1] = "requeue" => \A d \in In(writes) : d[1] # "job"
  BY <1>4 DEF SaveType, Wrote
<1> QED
  BY <1>1, <1>2, <1>3, <1>5, AppendPrecede DEF RequeuesFirst

\* A save merges the copy into what is stored: nothing twice, and nothing
\* that was not in one of them.
LEMMA StoreIs ==
  ASSUME IInv, Store
  PROVE  /\ diskQ' \in Seq(Msgs) /\ NoDup(diskQ')
         /\ In(diskQ') = (In(diskQ) \ (base \ In(memQ))) \cup (In(memQ) \ base)
         /\ diskFlag' \subseteq (diskFlag \cup memFlag) \cap In(diskQ')
         /\ base' = In(memQ) /\ savedTurn' = inTurn
         /\ memQ' = memQ /\ memFlag' = memFlag /\ inTurn' = inTurn
         /\ base' \subseteq Msgs
<1>1. memQ \in Seq(Msgs) /\ diskQ \in Seq(Msgs) /\ NoDup(memQ) /\ NoDup(diskQ)
  BY DEF IInv, TypeOK, NoTwice
<1>2. /\ Merged(diskQ) \in Seq(Msgs)
      /\ In(Merged(diskQ)) = (In(diskQ) \ (base \ In(memQ)))
                               \cup (In(memQ) \ base)
      /\ NoDup(Merged(diskQ))
  BY <1>1, MergedIs
<1>3. In(memQ) \subseteq Msgs
  BY <1>1 DEF In
<1> QED
  BY <1>2, <1>3 DEF Store, MergedFlags

\* A job that offers the next message, or is done.
LEMMA JobGoesOn ==
  ASSUME IInv, tail # <<>>, NEW known, NextOffer(known) \/ JobDone(known)
  PROVE  /\ tail' \in Seq(JobType) /\ OneSubmit(tail')
         /\ answer' \in [Msgs -> {"none", "typed", "sent"} \cup Answered]
         /\ \A m \in Msgs : answer'[m] = "sent" <=> Submits(m)'
         /\ \A m \in Msgs : answer'[m] = answer[m] \/ answer'[m] \in Answered
         /\ \A m \in Msgs : Fresh(m)' => Fresh(m)
         /\ \/ at' = "ready" /\ item' = None
            \/ /\ at' = "offerNext" /\ tail' = tail /\ port
               /\ item' \in In(memQ) \cap memFlag /\ item' \in Msgs \ ran
               /\ Before(memQ, item') \cap memFlag = {}
<1>1. CASE JobDone(known)
  BY <1>1, JobDoneIs
<1>2. CASE NextOffer(known) /\ ~JobDone(known)
  <2>1. /\ at' = "offerNext" /\ item' = NextSteer /\ NextSteer # None /\ port
        /\ tail' = tail /\ answer' = answer
    BY <1>2 DEF NextOffer
  <2>2. memQ \in Seq(Msgs) /\ memFlag \in SUBSET Msgs
    BY DEF IInv, TypeOK
  <2>3. /\ NextSteer \in In(memQ) \cap memFlag
        /\ Before(memQ, NextSteer) \cap memFlag = {}
    BY <2>1, <2>2, OldestIs DEF NextSteer
  <2>4. \A m \in Msgs : Fresh(m)' => Fresh(m)
    BY <2>1 DEF Fresh, Doing
  <2>5. \A m \in Msgs : Submits(m)' <=> Submits(m)
    BY <2>1 DEF Submits
  <2>6. NextSteer \in Msgs \ ran
    BY <2>2, <2>3, DoingIs DEF IInv, RanIsOver
  <2> QED
    BY <2>1, <2>3, <2>4, <2>5, <2>6 DEF IInv, TypeOK, JobsShape
<1> QED
  BY <1>1, <1>2

\* A save that a job waits for.
LEMMA JobAsks ==
  ASSUME IInv, ~Wrote("job", None), writes' = Append(writes, <<"job", None>>)
  PROVE  /\ writes' \in Seq(SaveType)
         /\ In(writes') = In(writes) \cup {<<"job", None>>}
         /\ OneSave(writes') /\ RequeuesFirst(writes')
<1> DEFINE e == <<"job", None>>
<1>1. e \in SaveType /\ e[1] = "job" /\ e \notin In(writes)
  BY DEF SaveType, Wrote
<1>2. writes' = Append(writes, e)
  OBVIOUS
<1> HIDE DEF e
<1>3. /\ writes' \in Seq(SaveType) /\ In(writes') = In(writes) \cup {e}
      /\ OneSave(writes') /\ RequeuesFirst(writes')
  BY <1>1, <1>2, Asked
<1> QED
  BY <1>3 DEF e

\* A message put into the queue of the turn's copy.
LEMMA QueuedIs ==
  ASSUME IInv, ~Wrote("job", None), NEW m \in Msgs, NEW steer, QueueIt(m, steer)
  PROVE  /\ writes' \in Seq(SaveType)
         /\ In(writes') = In(writes) \cup {<<"job", None>>}
         /\ OneSave(writes') /\ RequeuesFirst(writes') /\ at' = "queue"
         /\ memQ' \in Seq(Msgs)
         /\ NoDup(memQ')
         /\ In(memQ') = In(memQ) \cup {m}
         /\ memFlag' \subseteq memFlag \cup {m} /\ memFlag' \subseteq Msgs
<1>1. memQ' \in Seq(Msgs) /\ NoDup(memQ') /\ In(memQ') = In(memQ) \cup {m}
  BY AddedIs DEF IInv, TypeOK, NoTwice, QueueIt
<1>2. memFlag' \subseteq memFlag \cup {m} /\ memFlag' \subseteq Msgs
  BY DEF IInv, TypeOK, QueueIt
<1> QED
  BY <1>1, <1>2, JobAsks DEF QueueIt, Ask

\* A job that submits nothing comes last, or none does.
LEMMA JobComes ==
  ASSUME IInv,
         \/ tail' = tail
         \/ \E e \in {Job("deliver", None, FALSE), Job("sendNow", None, TRUE)} :
              tail' = Append(tail, e)
  PROVE  /\ tail' \in Seq(JobType) /\ OneSubmit(tail')
         /\ tail' # <<>> \/ tail = <<>>
         /\ \A m \in Msgs : Submits(m)' <=> Submits(m)
         /\ tail # <<>> => Doing' = Doing
<1>1. tail \in Seq(JobType) /\ OneSubmit(tail)
  BY DEF IInv, TypeOK, JobsShape
<1>2. CASE tail' = tail
  BY <1>1, <1>2 DEF Submits, Doing
<1>3. CASE tail' # tail
  <2>1. PICK e : /\ e \in JobType /\ e.kind # "submit"
                 /\ tail' = Append(tail, e)
    BY <1>3 DEF Job, JobType
  <2>2. OneSubmit(tail')
    BY <1>1, <2>1, AppendOneSubmit
  <2>3. /\ tail' \in Seq(JobType)
        /\ tail' # <<>>
        /\ In(tail') = In(tail) \cup {e}
        /\ tail # <<>> => Head(tail') = Head(tail)
    BY <1>1, <2>1, AppendIs
  <2>4. \A m \in Msgs : Submits(m)' <=> Submits(m)
    BY <2>1, <2>3 DEF Submits
  <2> QED
    BY <2>2, <2>3, <2>4 DEF Doing
<1> QED
  BY <1>2, <1>3

\* A waiting message is taken out of the queue of the turn's copy.
LEMMA TakenOut ==
  ASSUME IInv, NEW m \in Msgs, takeback[m] # "saving",
         writes' = Append(writes, <<"takeBack", m>>)
  PROVE  /\ writes' \in Seq(SaveType)
         /\ In(writes') = In(writes) \cup {<<"takeBack", m>>}
         /\ OneSave(writes') /\ RequeuesFirst(writes')
<1> DEFINE e == <<"takeBack", m>>
<1>1. e \in SaveType /\ e[1] = "takeBack" /\ e \notin In(writes)
  BY DEF SaveType, Wrote, IInv, WritesShape
<1>2. writes' = Append(writes, e)
  OBVIOUS
<1> HIDE DEF e
<1>3. /\ writes' \in Seq(SaveType) /\ In(writes') = In(writes) \cup {e}
      /\ OneSave(writes') /\ RequeuesFirst(writes')
  BY <1>1, <1>2, Asked
<1> QED
  BY <1>3 DEF e
-----------------------------------------------------------------------------
(* What each action does to the invariant.                                *)

\* Picking an entry of the queue to run only notes the choice.
LEMMA PickHolds ==
  ASSUME IInv, NEW m \in Msgs, Pick(m)
  PROVE  IInv'
<1> USE DEF IInv
<1>1. m \in In(diskQ)
  BY DEF Pick, In, TypeOK
<1>2. TypeOK' /\ Shape' /\ JobsShape' /\ WritesShape' /\ NoTwice' /\
      RanIsOver' /\ InOrder'
  BY DEF Pick, TypeOK, Running, Live, Answered, Shape, Wrote, JobsShape,
     Submits, Doing, Awaits, WritesShape, NoTwice, RanIsOver, InOrder
<1>3. FreshIsNowhere'
  BY <1>1 DEF Pick, FreshIsNowhere, Nowhere, Fresh, Doing
<1>4. LateShape'
  BY LateStays DEF Pick, Fresh, Doing, Wrote
<1> QED
  BY <1>2, <1>3, <1>4

\* The choice is let go: nothing else knows of it.
LEMMA DropPickHolds ==
  ASSUME IInv, NEW m \in Msgs, DropPick(m)
  PROVE  IInv'
<1> USE DEF IInv
<1>1. TypeOK' /\ Shape' /\ JobsShape' /\ WritesShape' /\ FreshIsNowhere' /\
      NoTwice' /\ RanIsOver' /\ InOrder'
  BY DEF DropPick, TypeOK, Running, Live, Answered, Shape, Wrote, JobsShape,
     Submits, Doing, Awaits, WritesShape, FreshIsNowhere, Nowhere, Fresh,
     NoTwice, RanIsOver, InOrder
<1>2. LateShape'
  BY LateStays DEF DropPick, Fresh, Doing, Wrote
<1> QED
  BY <1>1, <1>2

\* A turn starts before it has read any copy.
LEMMA StartTurnHolds ==
  ASSUME IInv, NEW m \in picked \cup {None}, StartTurn(m)
  PROVE  IInv'
<1> USE DEF IInv
<1>1. ~bound
  BY DEF Shape, StartTurn
<1>2. /\ at = "ready" /\ saved = "none" /\ tail = <<>> /\ delivered = {}
      /\ ~pending /\ ~port
      /\ \A x \in Msgs : answer[x] # "sent"
      /\ \A x \in Msgs : ~Wrote("requeue", x) /\ ~Wrote("takeBack", x)
      /\ ~Wrote("job", None) /\ ~Wrote("end", None)
      /\ ~Wrote("flush", None)
      /\ turn # "claiming" => writes = <<>>
      /\ turn = "claiming" => writes = << <<"start", None>> >>
  BY <1>1, UnboundIs
<1>3. Shape' /\ JobsShape' /\ WritesShape' /\ FreshIsNowhere' /\ NoTwice' /\
      RanIsOver' /\ InOrder'
  BY LiveInputAssumption DEF StartTurn, Shape, Wrote, JobsShape, Submits,
     Doing, Awaits, WritesShape, Answered, FreshIsNowhere, Nowhere, Fresh,
     NoTwice, RanIsOver, InOrder
<1>4. TypeOK'
  <2>1. turns' \in 0..MaxTurns
    BY LiveInputAssumption DEF StartTurn, TypeOK
  <2>2. active' \in Msgs \cup {None} /\ picked' \subseteq Msgs
    BY DEF StartTurn, TypeOK
  <2> QED
    BY <2>1, <2>2 DEF StartTurn, TypeOK, Running, Live, Answered
<1>5. LateShape'
  BY LateStays DEF StartTurn, Fresh, Doing, Wrote
<1> QED
  BY <1>3, <1>4, <1>5

\* The turn's copy of the queue is what is on disk at that moment.
LEMMA ReadCopyHolds ==
  ASSUME IInv, ReadCopy
  PROVE  IInv'
<1> USE DEF IInv
<1>1. ~bound
  BY DEF Shape, ReadCopy
<1>2. /\ at = "ready" /\ saved = "none" /\ tail = <<>> /\ delivered = {}
      /\ ~pending /\ ~port
      /\ \A m \in Msgs : answer[m] # "sent"
      /\ \A m \in Msgs : ~Wrote("requeue", m) /\ ~Wrote("takeBack", m)
      /\ ~Wrote("job", None) /\ ~Wrote("end", None)
      /\ ~Wrote("flush", None)
      /\ turn # "claiming" => writes = <<>>
      /\ turn = "claiming" => writes = << <<"start", None>> >>
  BY <1>1, UnboundIs
<1>3. Shape' /\ JobsShape' /\ FreshIsNowhere' /\ NoTwice' /\ RanIsOver'
  BY DEF ReadCopy, Shape, Wrote, JobsShape, Submits, Doing, Awaits,
     FreshIsNowhere, Nowhere, Fresh, NoTwice, RanIsOver, Answered
<1>4. TypeOK'
  <2>1. In(diskQ) \subseteq Msgs
    BY DEF In, TypeOK
  <2> QED
    BY <1>1, <1>2, <2>1 DEF ReadCopy, TypeOK, Running, Live, Answered
<1>5. WritesShape'
  BY <1>1, <1>2 DEF ReadCopy, WritesShape, Wrote, Answered
<1>6. InOrder'
  BY <1>1, <1>2 DEF ReadCopy, InOrder
<1>7. LateShape'
  BY LateStays DEF ReadCopy, Fresh, Doing, Wrote
<1> QED
  BY <1>3, <1>4, <1>5, <1>6, <1>7

\* The claimed message leaves the turn's copy and waits for the first save.
LEMMA ClaimHolds ==
  ASSUME IInv, Claim
  PROVE  IInv'
<1> USE DEF IInv
<1>1. ~bound
  BY DEF Shape, Claim
<1>2. /\ at = "ready" /\ saved = "none" /\ tail = <<>> /\ delivered = {}
      /\ ~pending /\ ~port
      /\ \A m \in Msgs : answer[m] # "sent"
      /\ \A m \in Msgs : ~Wrote("requeue", m) /\ ~Wrote("takeBack", m)
      /\ ~Wrote("job", None) /\ ~Wrote("end", None)
      /\ ~Wrote("flush", None)
      /\ turn # "claiming" => writes = <<>>
      /\ turn = "claiming" => writes = << <<"start", None>> >>
  BY <1>1, UnboundIs
<1>3. /\ Without(memQ, {active}) \in Seq(Msgs)
      /\ In(Without(memQ, {active})) = In(memQ) \ {active}
      /\ NoDup(memQ) => NoDup(Without(memQ, {active}))
  BY WithoutIs DEF TypeOK
<1>4. IF turn' = "claiming"
      THEN /\ writes' = << <<"start", None>> >>
           /\ In(writes') = {<<"start", None>>} /\ writes' \in Seq(SaveType)
      ELSE writes' = <<>> /\ In(writes') = {} /\ writes' \in Seq(SaveType)
  <2> DEFINE s == <<"start", None>>
  <2>1. s \in SaveType
    BY DEF SaveType
  <2> HIDE DEF s
  <2>2. <<s>> \in Seq(SaveType) /\ In(<<s>>) = {s} /\ In(<<>>) = {}
        /\ Append(<<>>, s) = <<s>>
    BY <2>1 DEF In
  <2>3. writes' = IF active \in In(memQ) THEN <<s>> ELSE <<>>
    BY <1>1, <1>2, <2>2 DEF Claim, s
  <2>4. active \in In(memQ) <=> turn' = "claiming"
    BY DEF Claim, EndsUnbound
  <2> QED
    BY <2>2, <2>3, <2>4 DEF s
<1>5. TypeOK'
  BY <1>3, <1>4 DEF Claim, EndsUnbound, TypeOK, Running, Live, Answered
<1>6. Shape'
  <2>1. bound' = FALSE /\ pending' = FALSE /\ port' = FALSE
    BY <1>1, <1>2 DEF Claim
  <2>2. /\ tail' = <<>> /\ delivered' = {}
        /\ active' # None /\ turn' \in {"claiming", "settling"}
    BY <1>2 DEF Claim, EndsUnbound
  <2>3. turn' = "claiming" => In(memQ') \subseteq base'
    BY <1>3 DEF Claim, EndsUnbound, Shape
  <2>4. ~Wrote("end", None)' /\ ~Wrote("flush", None)'
    BY <1>4 DEF Wrote
  <2> QED
    BY <1>4, <2>1, <2>2, <2>3, <2>4 DEF Shape
<1>7. JobsShape'
  BY <1>3, <1>4 DEF Claim, EndsUnbound, JobsShape, Wrote, Submits, Doing,
     Awaits
<1>8. WritesShape'
  BY <1>3, <1>4 DEF Claim, EndsUnbound, WritesShape, Wrote, Answered, In,
     OneSave, RequeuesFirst, Precede
<1>9. FreshIsNowhere'
  BY <1>3, <1>4 DEF Claim, EndsUnbound, FreshIsNowhere, Nowhere, Fresh, Doing
<1>10. NoTwice'
  BY <1>3, <1>4 DEF Claim, EndsUnbound, NoTwice
<1>11. RanIsOver'
  BY <1>3, <1>4 DEF Claim, EndsUnbound, RanIsOver, Shape, Answered
<1>12. InOrder'
  BY <1>2, <1>3, <1>4 DEF Claim, EndsUnbound, InOrder
<1>13. LateShape'
  BY <1>2, <1>4, LateStays DEF Claim, EndsUnbound, Fresh, Doing, Wrote
<1> QED
  BY <1>5, <1>6, <1>7, <1>8, <1>9, <1>10, <1>11, <1>12, <1>13

\* A turn that claims nothing binds its ledger at once.
LEMMA BeginFreshHolds ==
  ASSUME IInv, BeginFresh
  PROVE  IInv'
<1> USE DEF IInv
<1>1. ~bound
  BY DEF Shape, BeginFresh
<1>2. /\ at = "ready" /\ saved = "none" /\ tail = <<>> /\ delivered = {}
      /\ ~pending /\ ~port
      /\ \A m \in Msgs : answer[m] # "sent"
      /\ \A m \in Msgs : ~Wrote("requeue", m) /\ ~Wrote("takeBack", m)
      /\ ~Wrote("job", None) /\ ~Wrote("end", None)
      /\ ~Wrote("flush", None)
      /\ turn # "claiming" => writes = <<>>
      /\ turn = "claiming" => writes = << <<"start", None>> >>
  BY <1>1, UnboundIs
<1>3. TypeOK' /\ Shape' /\ WritesShape' /\ FreshIsNowhere' /\ NoTwice' /\
      RanIsOver' /\ InOrder'
  BY DEF BeginFresh, Bind, TypeOK, Running, Live, Answered, Shape, Wrote, In,
     WritesShape, FreshIsNowhere, Nowhere, Fresh, Doing, NoTwice, RanIsOver,
     InOrder
<1>4. JobsShape'
  BY <1>1, <1>2 DEF BeginFresh, Bind, JobsShape, Wrote, Submits, Doing, Awaits
<1>5. LateShape'
  BY LateStays DEF BeginFresh, Bind, Fresh, Doing, Wrote
<1> QED
  BY <1>3, <1>4, <1>5

\* A typed message is nowhere until it is submitted.
LEMMA TypeHolds ==
  ASSUME IInv, NEW m \in Msgs, Type(m)
  PROVE  IInv'
<1> USE DEF IInv
<1>1. TypeOK' /\ Shape' /\ JobsShape' /\ WritesShape' /\ FreshIsNowhere' /\
      NoTwice' /\ RanIsOver' /\ InOrder'
  BY DEF Type, TypeOK, Running, Live, Answered, Shape, Wrote, JobsShape,
     Submits, Doing, Awaits, WritesShape, FreshIsNowhere, Nowhere, Fresh,
     NoTwice, RanIsOver, InOrder
<1>2. LateShape'
  BY LateStays DEF Type, TypeOK, Answered, Fresh, Doing, Wrote
<1> QED
  BY <1>1, <1>2

\* A submit that finds the turn closing changes only its answer.
LEMMA SubmitRejectedHolds ==
  ASSUME IInv, NEW m \in Msgs, SubmitRejected(m)
  PROVE  IInv'
<1> USE DEF IInv
<1>1. TypeOK' /\ Shape' /\ JobsShape' /\ WritesShape' /\ FreshIsNowhere' /\
      NoTwice' /\ RanIsOver' /\ InOrder'
  BY DEF SubmitRejected, TypeOK, Running, Live, Answered, Shape, Wrote,
     JobsShape, Submits, Doing, Awaits, WritesShape, FreshIsNowhere, Nowhere,
     Fresh, NoTwice, RanIsOver, InOrder
<1>2. LateShape'
  BY LateStays DEF SubmitRejected, TypeOK, Answered, Fresh, Doing, Wrote
<1> QED
  BY <1>1, <1>2

\* The vendor stops taking messages; the broker finds out by itself.
LEMMA PortClosesHolds ==
  ASSUME IInv, PortCloses
  PROVE  IInv'
<1> USE DEF IInv
<1>1. Shape' /\ JobsShape' /\ WritesShape' /\ FreshIsNowhere' /\ NoTwice' /\
      RanIsOver' /\ InOrder'
  BY DEF PortCloses, Shape, Wrote, JobsShape, Submits, Doing, Awaits,
     WritesShape, Answered, FreshIsNowhere, Nowhere, Fresh, NoTwice,
     RanIsOver, InOrder
<1>2. TypeOK'
  <2>1. port' \in BOOLEAN
    BY DEF PortCloses
  <2> QED
    BY <2>1 DEF PortCloses, TypeOK, Running, Live, Answered
<1>3. LateShape'
  BY LateStays DEF PortCloses, Fresh, Doing, Wrote
<1> QED
  BY <1>1, <1>2, <1>3

\* The vendor's work is over; what waits in the copy stays there.
LEMMA FinishHolds ==
  ASSUME IInv, Finish
  PROVE  IInv'
<1> USE DEF IInv
<1>1. TypeOK' /\ Shape' /\ JobsShape' /\ WritesShape' /\ FreshIsNowhere' /\
      NoTwice' /\ RanIsOver' /\ InOrder'
  BY DEF Finish, AttemptOver, TypeOK, Running, Live, Answered, Shape, Wrote,
     JobsShape, Submits, Doing, Awaits, WritesShape, FreshIsNowhere, Nowhere,
     Fresh, NoTwice, RanIsOver, InOrder
<1>2. LateShape'
  BY LateStays DEF Finish, Fresh, Doing, Wrote
<1> QED
  BY <1>1, <1>2

\* The attempt breaks off; what waits in the copy stays there, and a last
\* flush is asked for, unless it was cut off by force.
LEMMA BreakHolds ==
  ASSUME IInv, NEW how \in {"cancelled", "failed"}, Break(how)
  PROVE  IInv'
<1> USE DEF IInv
<1>1. \/ writes' = writes /\ turn' = "settling"
      \/ /\ turn = "open" /\ turn' = "unwinding" /\ bound
         /\ writes' = Append(writes, <<"flush", None>>)
  BY DEF Break, AttemptOver, Unwinds, Ask, Shape
<1>2. /\ writes' \in Seq(SaveType) /\ OneSave(writes') /\ RequeuesFirst(writes')
      /\ \/ writes' = writes
         \/ bound /\ In(writes') = In(writes) \cup {<<"flush", None>>}
      /\ <<"flush", None>> \in In(writes') => turn' = "unwinding"
  <2> DEFINE e == <<"flush", None>>
  <2>1. e \in SaveType /\ e[1] = "flush" /\ (e \in In(writes) => turn = "unwinding")
    BY DEF SaveType, Shape, Wrote
  <2>2. CASE writes' = writes
    <3>1. turn # "unwinding"
      BY DEF Break, AttemptOver
    <3> QED
      BY <2>1, <2>2, <3>1 DEF TypeOK, WritesShape
  <2>3. CASE writes' # writes
    <3>1. writes' = Append(writes, e) /\ e \notin In(writes)
      BY <1>1, <2>1, <2>3
    <3> HIDE DEF e
    <3>2. /\ writes' \in Seq(SaveType) /\ In(writes') = In(writes) \cup {e}
          /\ OneSave(writes') /\ RequeuesFirst(writes')
      BY <2>1, <3>1, Asked
    <3> QED
      BY <1>1, <2>3, <3>2 DEF e
  <2> QED
    BY <2>2, <2>3
<1>3. /\ \A who, m : who # "flush" => (Wrote(who, m)' <=> Wrote(who, m))
      /\ Wrote("flush", None)' => turn' = "unwinding"
  BY <1>2 DEF Wrote
<1>4. /\ turn \in {"open", "starting"} /\ outcome' = how
      /\ turn' \in {"settling", "unwinding"} /\ (turn' = "unwinding" => bound)
      /\ ~bound => writes' = writes
  BY <1>1, <1>2 DEF Break, AttemptOver, Unwinds, Shape
<1>5. TypeOK'
  BY <1>2, <1>4 DEF Break, TypeOK, Running, Live, Answered
<1>6. Shape'
  BY <1>3, <1>4 DEF Break, Shape
<1>7. JobsShape'
  BY <1>3 DEF Break, JobsShape, Submits, Doing, Awaits
<1>8. WritesShape'
  BY <1>2, <1>3 DEF Break, WritesShape
<1>9. FreshIsNowhere' /\ NoTwice' /\ InOrder'
  BY DEF Break, FreshIsNowhere, Nowhere, Fresh, Doing, NoTwice, InOrder
<1>10. RanIsOver'
  BY <1>4 DEF Break, RanIsOver
<1>11. LateShape'
  BY <1>3, LateStays DEF Break, Fresh, Doing
<1> QED
  BY <1>5, <1>6, <1>7, <1>8, <1>9, <1>10, <1>11

\* A stopped turn looks at what is on disk of it.
LEMMA CountHolds ==
  ASSUME IInv, Count
  PROVE  IInv'
<1> USE DEF IInv
<1>1. keeps' \in BOOLEAN
  BY DEF Count
<1>2. TypeOK' /\ Shape' /\ JobsShape' /\ WritesShape' /\ FreshIsNowhere' /\
      NoTwice' /\ RanIsOver' /\ InOrder'
  BY <1>1 DEF Count, TypeOK, Running, Live, Answered, Shape, Wrote, JobsShape,
     Submits, Doing, Awaits, WritesShape, FreshIsNowhere, Nowhere, Fresh,
     NoTwice, RanIsOver, InOrder
<1>3. LateShape'
  BY LateStays DEF Count, Fresh, Doing, Wrote
<1> QED
  BY <1>2, <1>3

\* What a stopped turn has on disk is kept or deleted.
LEMMA DiscardHolds ==
  ASSUME IInv, NEW ok \in BOOLEAN, Discard(ok)
  PROVE  IInv'
<1> USE DEF IInv
<1>1. /\ savedTurn' \subseteq savedTurn /\ back' \subseteq back \cup held
      /\ keeps' \in BOOLEAN /\ port' \in BOOLEAN /\ held' = {}
  BY DEF Discard
<1>2. TypeOK'
  BY <1>1 DEF Discard, TypeOK, Running, Live, Answered
<1>3. Shape' /\ JobsShape' /\ WritesShape' /\ NoTwice' /\ RanIsOver' /\ InOrder'
  BY DEF Discard, Shape, Wrote, JobsShape, Submits, Doing, Awaits, WritesShape,
     Answered, NoTwice, RanIsOver, InOrder
<1>4. FreshIsNowhere'
  BY <1>1 DEF Discard, FreshIsNowhere, Nowhere, Fresh, Doing
<1>5. LateShape'
  BY LateStays DEF Discard, Fresh, Doing, Wrote
<1> QED
  BY <1>2, <1>3, <1>4, <1>5

\* A turn that broke off reads which of the stored messages are marked.
LEMMA ReadHeldHolds ==
  ASSUME IInv, ReadHeld
  PROVE  IInv'
<1> USE DEF IInv
<1>1. TypeOK' /\ Shape' /\ JobsShape' /\ WritesShape' /\ FreshIsNowhere' /\
      NoTwice' /\ RanIsOver' /\ InOrder'
  BY DEF ReadHeld, TypeOK, Running, Live, Answered, Shape, Wrote, JobsShape,
     Submits, Doing, Awaits, WritesShape, FreshIsNowhere, Nowhere, Fresh,
     NoTwice, RanIsOver, InOrder
<1>2. LateShape'
  BY LateStays DEF ReadHeld, Fresh, Doing, Wrote
<1> QED
  BY <1>1, <1>2

\* The session leaves the turn, and its copy; what is stored stays, and what
\* its journal still has to save is left over.
LEMMA EndTurnHolds ==
  ASSUME IInv, EndTurn
  PROVE  IInv'
<1> USE DEF IInv
<1>1. /\ \A m \in Msgs : answer[m] \notin {"typed", "sent"}
      /\ writes' = <<>> /\ tail' = <<>> /\ answer' = answer
      /\ \A who, m : ~Wrote(who, m)'
  BY DEF EndTurn, Wrote, In
<1>2. \A m \in Msgs : Fresh(m)' => Fresh(m)
  BY <1>1 DEF Fresh
<1>3. Shape' /\ WritesShape' /\ NoTwice' /\ RanIsOver' /\ InOrder'
  BY <1>1 DEF EndTurn, Shape, WritesShape, NoTwice, NoDup, OneSave,
     RequeuesFirst, Precede, RanIsOver, InOrder
<1>4. JobsShape'
  BY <1>1 DEF EndTurn, JobsShape, Awaits, Submits, OneSubmit, In
<1>5. FreshIsNowhere'
  <2> SUFFICES ASSUME NEW y \in Msgs, Fresh(y)' PROVE Nowhere(y)'
    BY DEF FreshIsNowhere
  <2>1. Nowhere(y)
    BY <1>2 DEF FreshIsNowhere
  <2> QED
    BY <2>1, LiveInputAssumption DEF EndTurn, Nowhere, In
<1>6. /\ DOMAIN LeftOver = {"drop", "inTurn", "writes"}
      /\ LeftOver.drop \cup LeftOver.inTurn \subseteq Msgs
      /\ LeftOver.writes \in Seq(SaveType)
      /\ LeftOver.inTurn = inTurn /\ LeftOver.writes = writes
  BY DEF LeftOver, TypeOK
<1>7. \A j \in late' : j \in late \/ (j = LeftOver /\ writes # <<>>)
  BY DEF EndTurn
<1>8. TypeOK'
  <2>1. bound' \in BOOLEAN /\ pending' \in BOOLEAN
    BY DEF EndTurn
  <2>2. memQ' \in Seq(Msgs) /\ writes' \in Seq(SaveType) /\ tail' \in Seq(JobType)
    BY DEF EndTurn
  <2>3. owed' \subseteq Msgs /\ inTurn' \subseteq Msgs
    BY DEF EndTurn, TypeOK
  <2>4. \A j \in late' : /\ DOMAIN j = {"drop", "inTurn", "writes"}
                         /\ j.drop \cup j.inTurn \subseteq Msgs
                         /\ j.writes \in Seq(SaveType)
    BY <1>6, <1>7 DEF TypeOK
  <2> QED
    BY <2>1, <2>2, <2>3, <2>4 DEF EndTurn, TypeOK, Running, Live, Answered
<1>9. LateShape'
  <2>1. \A j \in late' : j.writes # <<>> /\ OneSave(j.writes)
    BY <1>6, <1>7 DEF LateShape, WritesShape
  <2>2. \A m \in Msgs : Owes(LeftOver, m) <=> Wrote("takeBack", m)
    BY <1>6 DEF Owes, Wrote
  <2>3. takeback' = takeback
    BY DEF EndTurn
  <2>4. ASSUME NEW j \in late', NEW m \in Msgs
        PROVE  /\ Owes(j, m) => takeback'[m] = "saving" /\ ~Wrote("takeBack", m)'
               /\ Fresh(m)' => m \notin j.inTurn
    <3>1. CASE j \in late
      BY <1>1, <1>2, <2>3, <3>1 DEF LateShape
    <3>2. CASE j = LeftOver
      <4>1. Fresh(m)' => m \notin inTurn
        BY <1>2 DEF FreshIsNowhere, Nowhere
      <4> QED
        BY <1>1, <1>6, <2>2, <2>3, <3>2, <4>1 DEF WritesShape
    <3> QED
      BY <1>7, <3>1, <3>2
  <2>5. ASSUME NEW j \in late', NEW k \in late', NEW m \in Msgs,
               Owes(j, m), Owes(k, m)
        PROVE  j = k
    BY <1>7, <2>2, <2>5 DEF LateShape
  <2> HIDE DEF IInv
  <2>6. LateShape' <=>
          /\ \A j \in late' : j.writes # <<>> /\ OneSave(j.writes)
          /\ \A j \in late', m \in Msgs :
               /\ Owes(j, m) => takeback'[m] = "saving" /\ ~Wrote("takeBack", m)'
               /\ Fresh(m)' => m \notin j.inTurn
          /\ \A j, k \in late', m \in Msgs : Owes(j, m) /\ Owes(k, m) => j = k
    BY DEF LateShape, Owes
  <2> QED
    BY <2>1, <2>4, <2>5, <2>6
<1> QED
  BY <1>3, <1>4, <1>5, <1>8, <1>9

\* A save that the journal of a turn that ended still had to make is made, or
\* fails.
LEMMA LateSaveHolds ==
  ASSUME IInv, NEW j \in late, NEW ok \in BOOLEAN, LateSave(j, ok)
  PROVE  IInv'
<1> DEFINE h == Head(j.writes)
           left == [j EXCEPT !.writes = Tail(@)]
<1> USE DEF IInv
<1>1. /\ DOMAIN j = {"drop", "inTurn", "writes"}
      /\ j.drop \subseteq Msgs /\ j.inTurn \subseteq Msgs
      /\ j.writes \in Seq(SaveType)
      /\ j.writes # <<>> /\ OneSave(j.writes)
  BY DEF TypeOK, LateShape
<1>2. /\ h \in SaveType /\ In(j.writes) = {h} \cup In(Tail(j.writes))
      /\ Tail(j.writes) \in Seq(SaveType) /\ OneSave(Tail(j.writes))
      /\ h[1] # "requeue" => h \notin In(Tail(j.writes))
  BY <1>1, TailIs, TailOneSave
<1>3. /\ DOMAIN left = {"drop", "inTurn", "writes"}
      /\ left.drop = j.drop /\ left.inTurn = j.inTurn
      /\ left.writes = Tail(j.writes)
  BY <1>1
<1>4. \A l \in late' : \/ l \in late /\ l # j
                       \/ l = left /\ left.writes # <<>>
  BY DEF LateSave
<1>5. h[1] = "takeBack" =>
        /\ h[2] \in Msgs /\ h = <<"takeBack", h[2]>> /\ Owes(j, h[2])
        /\ takeback[h[2]] = "saving" /\ ~Wrote("takeBack", h[2])
        /\ ~Fresh(h[2])
  <2>1. h[1] = "takeBack" => h[2] \in Msgs /\ h = <<"takeBack", h[2]>>
    BY <1>2 DEF SaveType
  <2>2. h \in In(j.writes)
    BY <1>2
  <2> HIDE DEF h
  <2>3. h[1] = "takeBack" => Owes(j, h[2])
    BY <2>1, <2>2 DEF Owes
  <2>4. h[1] = "takeBack" => takeback[h[2]] = "saving" /\ ~Wrote("takeBack", h[2])
    BY <2>1, <2>3 DEF LateShape
  <2> QED
    BY <2>1, <2>3, <2>4 DEF FreshIsNowhere, Nowhere
<1> HIDE DEF left
<1>6. /\ Without(diskQ, j.drop) \in Seq(Msgs)
      /\ In(Without(diskQ, j.drop)) = In(diskQ) \ j.drop
      /\ NoDup(Without(diskQ, j.drop))
  BY WithoutIs DEF TypeOK, NoTwice
<1>7. /\ diskQ' \in Seq(Msgs) /\ In(diskQ') \subseteq In(diskQ) /\ NoDup(diskQ')
      /\ diskFlag' \subseteq diskFlag
      /\ savedTurn' = savedTurn \/ savedTurn' = j.inTurn
  BY <1>6 DEF LateSave, TypeOK, NoTwice
<1>8. IF h[1] = "takeBack"
      THEN /\ takeback' = [takeback EXCEPT ![h[2]] = IF ok THEN "removed" ELSE "error"]
           /\ back' \subseteq back \cup {h[2]}
      ELSE takeback' = takeback /\ back' = back
  BY DEF LateSave, Returned
<1> HIDE DEF h
<1>9. /\ takeback' \in [Msgs -> {"none", "waiting", "reading", "writing", "saving",
                            "removed", "running", "gone", "error"}]
      /\ back' \subseteq Msgs
      /\ \A m \in Msgs : \/ takeback'[m] = takeback[m]
                         \/ /\ h = <<"takeBack", m>> /\ Owes(j, m) /\ ~Fresh(m)
                            /\ takeback[m] = "saving" /\ ~Wrote("takeBack", m)
                            /\ takeback'[m] \in {"removed", "error"}
      /\ \A m \in Msgs : m \in back' => m \in back \/ ~Fresh(m)
  BY <1>5, <1>8 DEF TypeOK
<1>10. /\ UNCHANGED <<turnVars, port, memVars, jobVars, writes, earlier, keeps,
                      held, stalled, picked, answer, ran, owed>>
       /\ \A m \in Msgs : Fresh(m)' <=> Fresh(m)
       /\ \A who, m : Wrote(who, m)' <=> Wrote(who, m)
  BY DEF LateSave, Fresh, Doing, Wrote
<1>11. TypeOK'
  <2>1. \A l \in late' : /\ DOMAIN l = {"drop", "inTurn", "writes"}
                         /\ l.drop \cup l.inTurn \subseteq Msgs
                         /\ l.writes \in Seq(SaveType)
    BY <1>1, <1>2, <1>3, <1>4 DEF TypeOK
  <2>2. diskFlag' \subseteq Msgs /\ savedTurn' \subseteq Msgs
    BY <1>1, <1>7 DEF TypeOK
  <2> QED
    BY <1>7, <1>9, <1>10, <2>1, <2>2 DEF TypeOK
<1>12. Shape' /\ NoTwice' /\ InOrder'
  BY <1>7, <1>10 DEF Shape, NoTwice, InOrder
<1>13. JobsShape'
  BY <1>9, <1>10 DEF JobsShape, Submits, Doing
<1>14. WritesShape'
  BY <1>9, <1>10 DEF WritesShape
<1>15. FreshIsNowhere'
  <2> SUFFICES ASSUME NEW y \in Msgs, Fresh(y)' PROVE Nowhere(y)'
    BY DEF FreshIsNowhere
  <2>1. Fresh(y) /\ Nowhere(y) /\ y \notin j.inTurn
    BY <1>10 DEF FreshIsNowhere, LateShape
  <2> QED
    BY <2>1, <1>7, <1>9, <1>10 DEF Nowhere
<1>16. RanIsOver'
  BY <1>7, <1>10 DEF RanIsOver
<1>17. LateShape'
  <2>1. \A l \in late' : l.writes # <<>> /\ OneSave(l.writes)
    BY <1>2, <1>3, <1>4 DEF LateShape
  <2>2. \A m \in Msgs : Owes(left, m) => Owes(j, m) /\ h # <<"takeBack", m>>
    BY <1>2, <1>3 DEF Owes
  <2>3. ASSUME NEW l \in late', NEW m \in Msgs
        PROVE  /\ Owes(l, m) => takeback'[m] = "saving" /\ ~Wrote("takeBack", m)'
               /\ Fresh(m)' => m \notin l.inTurn
    <3>1. CASE l \in late /\ l # j
      <4>1. Owes(l, m) => ~Owes(j, m)
        BY <3>1 DEF LateShape
      <4>2. Owes(l, m) => takeback[m] = "saving" /\ ~Wrote("takeBack", m)
        BY <3>1 DEF LateShape
      <4>3. Fresh(m) => m \notin l.inTurn
        BY <3>1 DEF LateShape
      <4> QED
        BY <1>9, <1>10, <4>1, <4>2, <4>3
    <3>2. CASE l = left
      <4>1. Owes(j, m) => takeback[m] = "saving" /\ ~Wrote("takeBack", m)
        BY DEF LateShape
      <4>2. Fresh(m) => m \notin j.inTurn
        BY DEF LateShape
      <4> QED
        BY <1>3, <1>9, <1>10, <2>2, <3>2, <4>1, <4>2
    <3> QED
      BY <1>4, <3>1, <3>2
  <2>4. ASSUME NEW k \in late', NEW l \in late', NEW m \in Msgs,
               Owes(k, m), Owes(l, m)
        PROVE  k = l
    BY <1>4, <2>2, <2>4 DEF LateShape
  <2> HIDE DEF IInv
  <2>5. LateShape' <=>
          /\ \A l \in late' : l.writes # <<>> /\ OneSave(l.writes)
          /\ \A l \in late', m \in Msgs :
               /\ Owes(l, m) => takeback'[m] = "saving" /\ ~Wrote("takeBack", m)'
               /\ Fresh(m)' => m \notin l.inTurn
          /\ \A k, l \in late', m \in Msgs : Owes(k, m) /\ Owes(l, m) => k = l
    BY DEF LateShape, Owes
  <2> QED
    BY <2>1, <2>3, <2>4, <2>5
<1> QED
  BY <1>11, <1>12, <1>13, <1>14, <1>15, <1>16, <1>17

\* The save the running job waits for is made, or fails.
LEMMA SaveJobHolds ==
  ASSUME IInv, NEW ok \in BOOLEAN, SaveJob(ok)
  PROVE  IInv'
<1> USE DEF IInv
<1>1. /\ writes' \in Seq(SaveType) /\ Head(writes) \in In(writes)
      /\ In(writes) = {Head(writes)} \cup In(writes')
      /\ OneSave(writes') /\ RequeuesFirst(writes')
      /\ Head(writes)[1] # "requeue" => Head(writes) \notin In(writes')
      /\ Head(writes)[1] = "job" => \A e \in In(writes') : e[1] # "requeue"
  BY SaveOver DEF SaveJob
<1>2. ok =>
         /\ diskQ' \in Seq(Msgs) /\ NoDup(diskQ')
         /\ In(diskQ') = (In(diskQ) \ (base \ In(memQ))) \cup (In(memQ) \ base)
         /\ diskFlag' \subseteq (diskFlag \cup memFlag) \cap In(diskQ')
         /\ base' = In(memQ) /\ savedTurn' = inTurn
         /\ memQ' = memQ /\ memFlag' = memFlag /\ inTurn' = inTurn
         /\ base' \subseteq Msgs
  BY StoreIs DEF SaveJob, StoreOrFail
<1>3. Wrote("job", None) /\ ~Wrote("job", None)'
  BY <1>1 DEF SaveJob, Wrote
<1>4. bound /\ tail # <<>> /\ tail' = tail /\ at' = at /\ answer' = answer
  BY <1>3 DEF SaveJob, Shape, JobsShape, Awaits, Wrote, In
<1>5. TypeOK'
  BY <1>2, <1>3, <1>4 DEF SaveJob, StoreOrFail, TypeOK, Running, Live,
     Answered
<1>6. Shape'
  BY <1>1, <1>3, <1>4 DEF SaveJob, StoreOrFail, Shape, Wrote
<1>7. JobsShape'
  BY <1>3, <1>4 DEF SaveJob, StoreOrFail, JobsShape, Wrote, Submits, Doing,
     Awaits
<1>8. WritesShape'
  BY <1>1, <1>3, <1>4 DEF SaveJob, StoreOrFail, WritesShape, Wrote, Answered
<1>9. FreshIsNowhere'
  BY <1>2, <1>3, <1>4 DEF SaveJob, StoreOrFail, FreshIsNowhere, Nowhere,
     Fresh, Doing
<1>10. NoTwice'
  BY <1>2, <1>3, <1>4 DEF SaveJob, StoreOrFail, NoTwice
<1>11. RanIsOver'
  BY <1>2, <1>3, <1>4 DEF SaveJob, StoreOrFail, RanIsOver, Shape, Answered
<1>12. InOrder'
  BY <1>2, <1>3, <1>4 DEF SaveJob, StoreOrFail, InOrder
<1>13. LateShape'
  BY <1>1, LateStays DEF SaveJob, Fresh, Doing, Wrote
<1> QED
  BY <1>5, <1>6, <1>7, <1>8, <1>9, <1>10, <1>11, <1>12, <1>13

\* The first save makes the claim; one that fails puts the message back
\* in front of the copy.
LEMMA SaveStartHolds ==
  ASSUME IInv, NEW ok \in BOOLEAN, SaveStart(ok)
  PROVE  IInv'
<1> USE DEF IInv
<1>1. /\ writes' \in Seq(SaveType) /\ Head(writes) \in In(writes)
      /\ In(writes) = {Head(writes)} \cup In(writes')
      /\ OneSave(writes') /\ RequeuesFirst(writes')
      /\ Head(writes)[1] # "requeue" => Head(writes) \notin In(writes')
      /\ Head(writes)[1] = "job" => \A e \in In(writes') : e[1] # "requeue"
  BY SaveOver DEF SaveStart
<1>2. ok =>
         /\ diskQ' \in Seq(Msgs) /\ NoDup(diskQ')
         /\ In(diskQ') = (In(diskQ) \ (base \ In(memQ))) \cup (In(memQ) \ base)
         /\ diskFlag' \subseteq (diskFlag \cup memFlag) \cap In(diskQ')
         /\ base' = In(memQ) /\ savedTurn' = inTurn
         /\ memQ' = memQ /\ memFlag' = memFlag /\ inTurn' = inTurn
         /\ base' \subseteq Msgs
  BY StoreIs DEF SaveStart
<1>3. /\ turn = "claiming" /\ ~bound /\ active \in Msgs
      /\ writes = << <<"start", None>> >>
  BY <1>1 DEF SaveStart, Shape, Wrote, TypeOK
<1>4. /\ at = "ready" /\ saved = "none" /\ tail = <<>> /\ delivered = {}
      /\ ~pending /\ ~port
      /\ \A m \in Msgs : answer[m] # "sent"
      /\ active \notin In(memQ) /\ ~Fresh(active)
  BY <1>3, UnboundIs DEF FreshIsNowhere, Nowhere, RanIsOver
<1>5. writes' = <<>> /\ In(writes') = {}
  BY <1>3 DEF SaveStart, In
<1>6. /\ <<active>> \o memQ \in Seq(Msgs) /\ NoDup(<<active>> \o memQ)
      /\ In(<<active>> \o memQ) = {active} \cup In(memQ)
  <2>1. <<active>> \in Seq(Msgs) /\ In(<<active>>) = {active} /\ NoDup(<<active>>)
    BY <1>3 DEF In, NoDup
  <2>2. /\ memQ \in Seq(Msgs)
        /\ NoDup(memQ)
        /\ In(<<active>>) \cap In(memQ) = {}
    BY <1>4, <2>1 DEF TypeOK, NoTwice
  <2> DEFINE p == <<active>>
  <2> HIDE DEF p
  <2>3. p \in Seq(Msgs) /\ NoDup(p) /\ In(p) = {active} /\ In(p) \cap In(memQ) = {}
    BY <2>1, <2>2 DEF p
  <2>4. /\ p \o memQ \in Seq(Msgs) /\ NoDup(p \o memQ)
        /\ In(p \o memQ) = {active} \cup In(memQ)
    BY <2>2, <2>3, JoinedIs
  <2> QED
    BY <2>4 DEF p
<1>7. memQ' \in Seq(Msgs) /\ ran' \subseteq Msgs /\ memFlag' \subseteq Msgs
  BY <1>2, <1>3, <1>6 DEF SaveStart, TypeOK
<1>8. TypeOK'
  <2>1. bound' \in BOOLEAN /\ pending' \in BOOLEAN
    BY <1>3, <1>4 DEF SaveStart, Bind, EndsUnbound, TypeOK
  <2> QED
    BY <1>2, <1>3, <1>4, <1>5, <1>6, <1>7, <2>1 DEF SaveStart, Bind,
       EndsUnbound, TypeOK, Running, Live, Answered
<1>9. Shape'
  BY <1>3, <1>4, <1>5, <1>6, <1>7 DEF SaveStart, Bind, EndsUnbound, Shape,
     Wrote
<1>10. JobsShape'
  BY <1>3, <1>4, <1>5, <1>6, <1>7 DEF SaveStart, Bind, EndsUnbound, JobsShape,
     Wrote, Submits, Doing, Awaits
<1>11. WritesShape'
  BY <1>1, <1>3, <1>4, <1>5, <1>6, <1>7 DEF SaveStart, Bind, EndsUnbound,
     WritesShape, Wrote, Answered
<1>12. FreshIsNowhere'
  <2> SUFFICES ASSUME NEW y \in Msgs, Fresh(y)' PROVE Nowhere(y)'
    BY DEF FreshIsNowhere
  <2>1. Fresh(y) /\ y # active
    BY <1>4 DEF SaveStart, Fresh, Doing
  <2>2. Nowhere(y)
    BY <2>1 DEF FreshIsNowhere
  <2>3. CASE ok
    BY <2>2, <1>1, <1>2, <1>3, <1>4, <1>5, <1>6, <1>7, <2>3 DEF Nowhere,
       SaveStart, Bind, EndsUnbound
  <2>4. CASE ~ok
    BY <2>2, <1>1, <1>2, <1>3, <1>4, <1>5, <1>6, <1>7, <2>4 DEF Nowhere,
       SaveStart, Bind, EndsUnbound
  <2> QED
    BY <2>3, <2>4
<1>13. NoTwice'
  BY <1>2, <1>3, <1>4, <1>5, <1>6, <1>7 DEF SaveStart, Bind, EndsUnbound,
     NoTwice
<1>14. RanIsOver'
  BY <1>2, <1>3, <1>4, <1>5, <1>6, <1>7 DEF SaveStart, Bind, EndsUnbound,
     RanIsOver, Shape, Answered
<1>15. InOrder'
  BY <1>3, <1>4, <1>5, <1>6, <1>7 DEF SaveStart, Bind, EndsUnbound, InOrder
<1>16. LateShape'
  BY <1>5, LateStays DEF SaveStart, Fresh, Doing, Wrote
<1> QED
  BY <1>8, <1>9, <1>10, <1>11, <1>12, <1>13, <1>14, <1>15, <1>16

\* The save of the finished record is over: a flush is waited for.
LEMMA SaveEndHolds ==
  ASSUME IInv, NEW ok \in BOOLEAN, SaveEnd(ok)
  PROVE  IInv'
<1> USE DEF IInv
<1>1. /\ turn = "saving" /\ bound /\ writes # <<>>
      /\ Head(writes) = <<"end", None>> /\ Wrote("end", None)
  <2>1. Wrote("end", None)
    <3>1. writes \in Seq(SaveType) /\ writes # <<>>
          /\ Head(writes) = <<"end", None>>
      BY DEF SaveEnd, TypeOK
    <3>2. Head(writes) \in In(writes)
      BY <3>1, TailIs
    <3> QED
      BY <3>1, <3>2 DEF Wrote
  <2> QED
    BY <2>1 DEF SaveEnd, Shape
<1>2. /\ writes' \in Seq(SaveType) /\ OneSave(writes') /\ RequeuesFirst(writes')
      /\ <<"end", None>> \notin In(writes')
      /\ In(writes') \subseteq In(writes) \cup {<<"flush", None>>}
      /\ \A e \in In(writes) : e # <<"end", None>> => e \in In(writes')
  <2> DEFINE t == Tail(writes)
             e == <<"flush", None>>
             d == <<"end", None>>
  <2>1. /\ t \in Seq(SaveType) /\ In(writes) = {d} \cup In(t)
        /\ OneSave(t) /\ RequeuesFirst(t) /\ d \notin In(t)
    <3>1. writes \in Seq(SaveType) /\ OneSave(writes) /\ RequeuesFirst(writes)
      BY DEF TypeOK, WritesShape
    <3> QED
      BY <1>1, <3>1, TailIs, TailOneSave, TailPrecede DEF RequeuesFirst
  <2>2. e \in SaveType /\ e[1] = "flush" /\ e \notin In(writes) /\ e # d
    BY <1>1 DEF SaveType, Shape, Wrote
  <2>3. writes' = Append(t, e)
    BY DEF SaveEnd
  <2> HIDE DEF t, e, d
  <2>4. writes' \in Seq(SaveType) /\ In(writes') = In(t) \cup {e}
    BY <2>1, <2>2, <2>3, AppendIs
  <2>5. OneSave(writes')
    BY <2>1, <2>2, <2>3, AppendOneSave
  <2>6. RequeuesFirst(writes')
    BY <2>1, <2>2, <2>3, AppendPrecede DEF RequeuesFirst
  <2>7. /\ d \notin In(writes') /\ In(writes') \subseteq In(writes) \cup {e}
        /\ \A x \in In(writes) : x # d => x \in In(writes')
    BY <2>1, <2>2, <2>4
  <2> QED
    BY <2>4, <2>5, <2>6, <2>7 DEF e, d
<1>3. /\ \A who, m : who \notin {"end", "flush"} => (Wrote(who, m)' <=> Wrote(who, m))
      /\ ~Wrote("end", None)'
  BY <1>2 DEF Wrote
<1>4. ok =>
         /\ diskQ' \in Seq(Msgs) /\ NoDup(diskQ')
         /\ In(diskQ') = (In(diskQ) \ (base \ In(memQ))) \cup (In(memQ) \ base)
         /\ diskFlag' \subseteq (diskFlag \cup memFlag) \cap In(diskQ')
         /\ base' = In(memQ) /\ savedTurn' = inTurn
         /\ memQ' = memQ /\ memFlag' = memFlag /\ inTurn' = inTurn
         /\ base' \subseteq Msgs
  BY StoreIs DEF SaveEnd, StoreOrFail
<1>5. TypeOK'
  BY <1>2, <1>4 DEF SaveEnd, StoreOrFail, TypeOK, Running, Live, Answered
<1>6. Shape'
  BY <1>1, <1>3 DEF SaveEnd, StoreOrFail, Shape
<1>7. JobsShape'
  BY <1>3 DEF SaveEnd, StoreOrFail, JobsShape, Submits, Doing, Awaits
<1>8. WritesShape'
  BY <1>2, <1>3, <1>4 DEF SaveEnd, StoreOrFail, WritesShape
<1>9. FreshIsNowhere'
  BY <1>4 DEF SaveEnd, StoreOrFail, FreshIsNowhere, Nowhere, Fresh, Doing
<1>10. NoTwice'
  BY <1>4 DEF SaveEnd, StoreOrFail, NoTwice
<1>11. RanIsOver'
  BY <1>1, <1>4 DEF SaveEnd, StoreOrFail, RanIsOver
<1>12. InOrder'
  BY <1>4 DEF SaveEnd, StoreOrFail, InOrder
<1>13. LateShape'
  BY <1>3, LateStays DEF SaveEnd, Fresh, Doing
<1> QED
  BY <1>5, <1>6, <1>7, <1>8, <1>9, <1>10, <1>11, <1>12, <1>13

\* The flush is over: the turn closes, or is settled.
LEMMA SaveFlushHolds ==
  ASSUME IInv, NEW ok \in BOOLEAN, SaveFlush(ok)
  PROVE  IInv'
<1> USE DEF IInv
<1>1. /\ writes' \in Seq(SaveType) /\ Head(writes) \in In(writes)
      /\ In(writes) = {Head(writes)} \cup In(writes')
      /\ OneSave(writes') /\ RequeuesFirst(writes')
      /\ Head(writes)[1] # "requeue" => Head(writes) \notin In(writes')
  BY SaveOver DEF SaveFlush
<1>2. /\ \A who, m : Wrote(who, m)' => Wrote(who, m)
      /\ Wrote("flush", None) /\ ~Wrote("flush", None)'
  BY <1>1 DEF SaveFlush, Wrote
<1>3. turn = "unwinding" /\ bound
  BY <1>2 DEF Shape
<1>4. \/ /\ diskQ' \in Seq(Msgs) /\ NoDup(diskQ')
         /\ In(diskQ') = (In(diskQ) \ (base \ In(memQ))) \cup (In(memQ) \ base)
         /\ diskFlag' \subseteq (diskFlag \cup memFlag) \cap In(diskQ')
         /\ base' = In(memQ) /\ savedTurn' = inTurn
         /\ memQ' = memQ /\ memFlag' = memFlag /\ inTurn' = inTurn
         /\ base' \subseteq Msgs
      \/ UNCHANGED <<memVars, diskVars>>
  BY StoreIs DEF SaveFlush, StoreOrFail
<1>5. /\ turn' \in {"closing", "settling"} /\ port' \in BOOLEAN
      /\ (turn' = "closing" => port' = FALSE) /\ (port' => port)
      /\ outcome' \in {outcome, "failed"}
      /\ UNCHANGED <<active, turns, bound, pending, jobVars, endVars, stalled,
                     picked, userVars, ran, owed>>
  BY DEF SaveFlush, TypeOK
<1>6. TypeOK'
  BY <1>1, <1>4, <1>5 DEF TypeOK, Running, Live, Answered
<1>7. Shape'
  BY <1>2, <1>3, <1>5 DEF Shape
<1>8. JobsShape'
  BY <1>2, <1>5 DEF JobsShape, Submits, Doing, Awaits
<1>9. WritesShape'
  BY <1>1, <1>2, <1>4, <1>5 DEF WritesShape
<1>10. FreshIsNowhere'
  BY <1>4, <1>5 DEF FreshIsNowhere, Nowhere, Fresh, Doing
<1>11. NoTwice' /\ InOrder'
  BY <1>4, <1>5 DEF NoTwice, InOrder
<1>12. RanIsOver'
  BY <1>3, <1>4, <1>5 DEF RanIsOver
<1>13. LateShape'
  BY <1>2, <1>5, LateStays DEF Fresh, Doing
<1> QED
  BY <1>6, <1>7, <1>8, <1>9, <1>10, <1>11, <1>12, <1>13

\* The save a take-back waits for: the message is the user's again, or
\* the command fails.
LEMMA SaveTakeBackHolds ==
  ASSUME IInv, NEW m \in Msgs, NEW ok \in BOOLEAN, SaveTakeBack(m, ok)
  PROVE  IInv'
<1> USE DEF IInv
<1>1. /\ writes' \in Seq(SaveType) /\ Head(writes) \in In(writes)
      /\ In(writes) = {Head(writes)} \cup In(writes')
      /\ OneSave(writes') /\ RequeuesFirst(writes')
      /\ Head(writes)[1] # "requeue" => Head(writes) \notin In(writes')
      /\ Head(writes)[1] = "job" => \A e \in In(writes') : e[1] # "requeue"
  BY SaveOver DEF SaveTakeBack
<1>2. ok =>
         /\ diskQ' \in Seq(Msgs) /\ NoDup(diskQ')
         /\ In(diskQ') = (In(diskQ) \ (base \ In(memQ))) \cup (In(memQ) \ base)
         /\ diskFlag' \subseteq (diskFlag \cup memFlag) \cap In(diskQ')
         /\ base' = In(memQ) /\ savedTurn' = inTurn
         /\ memQ' = memQ /\ memFlag' = memFlag /\ inTurn' = inTurn
         /\ base' \subseteq Msgs
  BY StoreIs DEF SaveTakeBack, StoreOrFail
<1>3. /\ Wrote("takeBack", m)
      /\ ~Wrote("takeBack", m)'
      /\ takeback[m] = "saving"
      /\ ~Fresh(m)
  BY <1>1 DEF SaveTakeBack, Wrote, WritesShape, FreshIsNowhere, Nowhere
<1>4. bound
  BY <1>3, UnboundIs
<1>5. /\ takeback' \in [Msgs -> {"none", "waiting", "reading", "writing", "saving",
                            "removed", "running", "gone", "error"}]
      /\ takeback'[m] \in {"removed", "error"}
      /\ \A x \in Msgs \ {m} : takeback'[x] = takeback[x]
  BY DEF SaveTakeBack, Returned, TypeOK
<1>6. \A x \in Msgs : Fresh(x)' => Fresh(x)
  BY DEF SaveTakeBack, Fresh, Doing
<1>7. TypeOK'
  BY <1>2, <1>3, <1>4, <1>5, <1>6 DEF SaveTakeBack, StoreOrFail, Returned,
     TypeOK, Running, Live, Answered
<1>8. Shape'
  BY <1>1, <1>3, <1>4, <1>5, <1>6 DEF SaveTakeBack, StoreOrFail, Returned,
     Shape, Wrote
<1>9. JobsShape'
  BY <1>1, <1>3, <1>4, <1>5, <1>6 DEF SaveTakeBack, StoreOrFail, Returned,
     JobsShape, Wrote, Submits, Doing, Awaits
<1>10. WritesShape'
  BY <1>1, <1>2, <1>3, <1>4, <1>5, <1>6 DEF SaveTakeBack, StoreOrFail,
       Returned, WritesShape, Wrote, Answered
<1>11. FreshIsNowhere'
  BY <1>2, <1>3, <1>4, <1>5, <1>6 DEF SaveTakeBack, StoreOrFail, Returned,
     FreshIsNowhere, Nowhere
<1>12. NoTwice'
  BY <1>2, <1>3, <1>4, <1>5, <1>6 DEF SaveTakeBack, StoreOrFail, Returned,
     NoTwice
<1>13. RanIsOver'
  BY <1>2, <1>3, <1>4, <1>5, <1>6 DEF SaveTakeBack, StoreOrFail, Returned,
     RanIsOver, Shape, Answered
<1>14. InOrder'
  BY <1>2, <1>3, <1>4, <1>5, <1>6 DEF SaveTakeBack, StoreOrFail, Returned,
     InOrder
<1>15. LateShape'
  BY <1>1, <1>3, <1>5, <1>6, LateStays DEF SaveTakeBack, Wrote
<1> QED
  BY <1>7, <1>8, <1>9, <1>10, <1>11, <1>12, <1>13, <1>14, <1>15

\* The save after a message went back into the queue.
LEMMA SaveRequeueHolds ==
  ASSUME IInv, NEW m \in Msgs, NEW ok \in BOOLEAN, SaveRequeue(m, ok)
  PROVE  IInv'
<1> USE DEF IInv
<1>1. /\ writes' \in Seq(SaveType) /\ Head(writes) \in In(writes)
      /\ In(writes) = {Head(writes)} \cup In(writes')
      /\ OneSave(writes') /\ RequeuesFirst(writes')
      /\ Head(writes)[1] # "requeue" => Head(writes) \notin In(writes')
      /\ Head(writes)[1] = "job" => \A e \in In(writes') : e[1] # "requeue"
  BY SaveOver DEF SaveRequeue
<1>2. ok =>
         /\ diskQ' \in Seq(Msgs) /\ NoDup(diskQ')
         /\ In(diskQ') = (In(diskQ) \ (base \ In(memQ))) \cup (In(memQ) \ base)
         /\ diskFlag' \subseteq (diskFlag \cup memFlag) \cap In(diskQ')
         /\ base' = In(memQ) /\ savedTurn' = inTurn
         /\ memQ' = memQ /\ memFlag' = memFlag /\ inTurn' = inTurn
         /\ base' \subseteq Msgs
  BY StoreIs DEF SaveRequeue
<1>3. /\ Wrote("requeue", m)
  BY <1>1 DEF SaveRequeue, Wrote
<1>4. bound
  BY <1>3, UnboundIs
<1>5. /\ Without(memQ, {m}) \in Seq(Msgs)
      /\ In(Without(memQ, {m})) = In(memQ) \ {m}
      /\ NoDup(Without(memQ, {m}))
      /\ \A x \in Msgs \ {m} :
           Before(Without(memQ, {m}), x) \subseteq Before(memQ, x)
  BY WithoutIs DEF TypeOK, NoTwice
<1>6. TypeOK'
  BY <1>2, <1>3, <1>4, <1>5 DEF SaveRequeue, StoreOrFail, TypeOK, Running,
     Live, Answered
<1>7. Shape'
  BY <1>1, <1>3, <1>4, <1>5 DEF SaveRequeue, StoreOrFail, Shape, Wrote
<1>8. JobsShape'
  BY <1>1, <1>3, <1>4, <1>5 DEF SaveRequeue, StoreOrFail, JobsShape, Wrote,
     Submits, Doing, Awaits
<1>9. WritesShape'
  BY <1>1, <1>2, <1>3, <1>4, <1>5 DEF SaveRequeue, StoreOrFail, WritesShape,
       Wrote, Answered
<1>10. FreshIsNowhere'
  BY <1>2, <1>3, <1>4, <1>5 DEF SaveRequeue, StoreOrFail, FreshIsNowhere,
     Nowhere, Fresh, Doing
<1>11. NoTwice'
  BY <1>2, <1>3, <1>4, <1>5 DEF SaveRequeue, StoreOrFail, NoTwice
<1>12. RanIsOver'
  BY <1>2, <1>3, <1>4, <1>5 DEF SaveRequeue, StoreOrFail, RanIsOver, Shape,
     Answered
<1>13. InOrder'
  BY <1>2, <1>3, <1>4, <1>5 DEF SaveRequeue, StoreOrFail, InOrder,
     WritesShape, JobsShape
<1>14. LateShape'
  BY <1>1, LateStays DEF SaveRequeue, Fresh, Doing, Wrote
<1> QED
  BY <1>6, <1>7, <1>8, <1>9, <1>10, <1>11, <1>12, <1>13, <1>14

\* A take-back without a turn reads the stored queue.
LEMMA ReadTakeBackHolds ==
  ASSUME IInv, NEW m \in Msgs, ReadTakeBack(m)
  PROVE  IInv'
<1> USE DEF IInv
<1>1. TypeOK' /\ Shape' /\ JobsShape' /\ WritesShape' /\ FreshIsNowhere' /\
      NoTwice' /\ RanIsOver' /\ InOrder'
  BY DEF ReadTakeBack, TypeOK, Running, Live, Answered, Shape, Wrote,
     JobsShape, Submits, Doing, Awaits, WritesShape, FreshIsNowhere, Nowhere,
     Fresh, NoTwice, RanIsOver, InOrder
<1>2. LateShape'
  BY LateStays DEF ReadTakeBack, TypeOK, Fresh, Doing, Wrote
<1> QED
  BY <1>1, <1>2

\* A take-back without a turn takes the message off the stored queue.
LEMMA WriteTakeBackHolds ==
  ASSUME IInv, NEW m \in Msgs, NEW ok \in BOOLEAN, WriteTakeBack(m, ok)
  PROVE  IInv'
<1> USE DEF IInv
<1>1. /\ Without(diskQ, {m}) \in Seq(Msgs)
      /\ In(Without(diskQ, {m})) = In(diskQ) \ {m}
      /\ NoDup(Without(diskQ, {m}))
  BY WithoutIs DEF TypeOK, NoTwice
<1>2. takeback[m] = "writing" /\ ~Fresh(m)
  BY DEF WriteTakeBack, FreshIsNowhere, Nowhere
<1>3. /\ takeback' \in [Msgs -> {"none", "waiting", "reading", "writing", "saving",
                            "removed", "running", "gone", "error"}]
      /\ takeback'[m] \in {"removed", "error"}
      /\ \A x \in Msgs \ {m} : takeback'[x] = takeback[x]
  BY DEF WriteTakeBack, Returned, TypeOK
<1>4. /\ In(diskQ') \subseteq In(diskQ) /\ diskFlag' \subseteq diskFlag
      /\ savedTurn' = savedTurn /\ back' \subseteq back \cup {m}
  BY <1>1 DEF WriteTakeBack, DiskDrop, Returned
<1>5. Shape' /\ InOrder'
  BY DEF WriteTakeBack, DiskDrop, Returned, Shape, Wrote, InOrder
<1>6. TypeOK'
  BY <1>1, <1>3, <1>4 DEF WriteTakeBack, DiskDrop, Returned, TypeOK, Running,
     Live, Answered
<1>7. JobsShape'
  BY <1>3, <1>4 DEF WriteTakeBack, DiskDrop, Returned, JobsShape, Wrote,
     Submits, Doing, Awaits
<1>8. WritesShape'
  BY <1>3, <1>4 DEF WriteTakeBack, DiskDrop, Returned, WritesShape, Wrote,
     Answered
<1>9. FreshIsNowhere'
  <2> SUFFICES ASSUME NEW y \in Msgs, Fresh(y)' PROVE Nowhere(y)'
    BY DEF FreshIsNowhere
  <2>1. Fresh(y) /\ y # m /\ takeback'[y] = takeback[y]
    BY <1>2, <1>3 DEF WriteTakeBack, Fresh, Doing
  <2>2. Nowhere(y)
    BY <2>1 DEF FreshIsNowhere
  <2>3. CASE ok
    BY <2>2, <1>1, <1>2, <1>3, <1>4, <2>3 DEF Nowhere, WriteTakeBack,
       DiskDrop, Returned
  <2>4. CASE ~ok
    BY <2>2, <1>1, <1>2, <1>3, <1>4, <2>4 DEF Nowhere, WriteTakeBack,
       DiskDrop, Returned
  <2> QED
    BY <2>3, <2>4
<1>10. NoTwice'
  BY <1>1, <1>3, <1>4 DEF WriteTakeBack, DiskDrop, Returned, NoTwice
<1>11. RanIsOver'
  BY <1>3, <1>4 DEF WriteTakeBack, DiskDrop, Returned, RanIsOver, Shape,
     Answered
<1>12. LateShape'
  BY <1>2, <1>3, LateStays DEF WriteTakeBack, Fresh, Doing, Wrote
<1> QED
  BY <1>5, <1>6, <1>7, <1>8, <1>9, <1>10, <1>11, <1>12

\* Without a turn a message is put at the end of the stored queue.
LEMMA TypeToDiskHolds ==
  ASSUME IInv, NEW m \in Msgs, NEW ok \in BOOLEAN, TypeToDisk(m, ok)
  PROVE  IInv'
<1> USE DEF IInv
<1>1. /\ Added(diskQ, m) \in Seq(Msgs) /\ NoDup(Added(diskQ, m))
      /\ In(Added(diskQ, m)) = In(diskQ) \cup {m}
  BY AddedIs DEF TypeOK, NoTwice
<1>2. Fresh(m) /\ m \notin ran /\ answer[m] = "none"
  BY DEF TypeToDisk, FreshIsNowhere, Nowhere, Fresh
<1>3. /\ answer' \in [Msgs -> {"none", "typed", "sent"} \cup Answered]
      /\ answer'[m] \in Answered
      /\ \A x \in Msgs \ {m} : answer'[x] = answer[x]
  BY DEF TypeToDisk, TypeOK, Answered
<1>4. \A x \in Msgs : Fresh(x)' => Fresh(x) /\ x # m
  BY <1>3 DEF TypeToDisk, Fresh, Doing, Answered
<1>5. Shape' /\ InOrder'
  BY DEF TypeToDisk, DiskAdd, Shape, Wrote, InOrder
<1>6. TypeOK'
  BY <1>1, <1>3, <1>4 DEF TypeToDisk, DiskAdd, TypeOK, Running, Live, Answered
<1>7. JobsShape'
  BY <1>3, <1>4 DEF TypeToDisk, DiskAdd, JobsShape, Wrote, Submits, Doing,
     Awaits
<1>8. WritesShape'
  BY <1>3, <1>4 DEF TypeToDisk, DiskAdd, WritesShape, Wrote, Answered
<1>9. FreshIsNowhere'
  BY <1>1, <1>3, <1>4 DEF TypeToDisk, DiskAdd, FreshIsNowhere, Nowhere
<1>10. NoTwice'
  BY <1>1, <1>3, <1>4 DEF TypeToDisk, DiskAdd, NoTwice
<1>11. RanIsOver'
  BY <1>1, <1>2, <1>3, <1>4 DEF TypeToDisk, DiskAdd, RanIsOver, Shape,
       Answered
<1>12. LateShape'
  BY <1>4, LateStays DEF TypeToDisk, Wrote
<1> QED
  BY <1>5, <1>6, <1>7, <1>8, <1>9, <1>10, <1>11, <1>12

\* ... takes them off the stored queue and gives them back.
LEMMA ReturnHeldHolds ==
  ASSUME IInv, NEW ok \in BOOLEAN, ReturnHeld(ok)
  PROVE  IInv'
<1> USE DEF IInv
<1>1. /\ Without(diskQ, held) \in Seq(Msgs)
      /\ In(Without(diskQ, held)) = In(diskQ) \ held
      /\ NoDup(Without(diskQ, held))
  BY WithoutIs DEF TypeOK, NoTwice
<1>2. Shape' /\ JobsShape' /\ WritesShape' /\ InOrder'
  BY DEF ReturnHeld, DiskDrop, Shape, Wrote, JobsShape, Submits, Doing,
     Awaits, WritesShape, Answered, InOrder
<1>3. TypeOK'
  <2>1. port' \in BOOLEAN
    BY DEF ReturnHeld, TypeOK
  <2> QED
    BY <1>1, <2>1 DEF ReturnHeld, DiskDrop, TypeOK, Running, Live, Answered
<1>4. FreshIsNowhere'
  BY <1>1 DEF ReturnHeld, DiskDrop, FreshIsNowhere, Nowhere, Fresh, Doing
<1>5. NoTwice'
  BY <1>1 DEF ReturnHeld, DiskDrop, NoTwice
<1>6. RanIsOver'
  BY <1>1 DEF ReturnHeld, DiskDrop, RanIsOver, Shape, Answered
<1>7. LateShape'
  BY LateStays DEF ReturnHeld, Fresh, Doing, Wrote
<1> QED
  BY <1>2, <1>3, <1>4, <1>5, <1>6, <1>7

\* A queued turn that failed takes its own message off the stored queue.
LEMMA ConsumeHolds ==
  ASSUME IInv, NEW ok \in BOOLEAN, Consume(ok)
  PROVE  IInv'
<1> USE DEF IInv
<1>1. /\ Without(diskQ, {active}) \in Seq(Msgs)
      /\ In(Without(diskQ, {active})) = In(diskQ) \ {active}
      /\ NoDup(Without(diskQ, {active}))
  BY WithoutIs DEF TypeOK, NoTwice
<1>2. ~bound => at = "ready" /\ \A m \in Msgs : answer[m] # "sent"
  BY UnboundIs
<1>3. /\ ran' \subseteq Msgs /\ ran' \cap In(diskQ') = {}
      /\ ran' = ran \/ (~bound /\ ran' = ran \cup {active})
      /\ In(diskQ') \subseteq In(diskQ) /\ diskQ' \in Seq(Msgs)
  <2>1. In(diskQ) \subseteq Msgs
    BY DEF In, TypeOK
  <2> QED
    BY <1>1, <2>1, LiveInputAssumption DEF Consume, DiskDrop, TypeOK,
       RanIsOver, Shape
<1>4. Shape' /\ JobsShape' /\ WritesShape' /\ InOrder'
  BY DEF Consume, DiskDrop, Shape, Wrote, JobsShape, Submits, Doing, Awaits,
     WritesShape, Answered, InOrder
<1>5. TypeOK'
  <2>1. port' \in BOOLEAN
    BY DEF Consume, TypeOK
  <2>2. /\ stalled' \in Msgs \cup {None}
        /\ diskFlag' \subseteq Msgs /\ savedTurn' \subseteq Msgs
    BY DEF Consume, DiskDrop, TypeOK
  <2> QED
    BY <1>3, <2>1, <2>2 DEF Consume, DiskDrop, TypeOK, Running, Live, Answered
<1>6. FreshIsNowhere'
  <2> SUFFICES ASSUME NEW y \in Msgs, Fresh(y)' PROVE Nowhere(y)'
    BY DEF FreshIsNowhere
  <2>1. Fresh(y) /\ (y \in ran' => y \in ran \/ y = active)
    BY <1>3 DEF Consume, Fresh, Doing
  <2>2. Nowhere(y)
    BY <2>1 DEF FreshIsNowhere
  <2>3. CASE ok
    BY <2>2, <1>1, <1>2, <1>3, <2>3 DEF Nowhere, Consume, DiskDrop
  <2>4. CASE ~ok
    BY <2>2, <1>1, <1>2, <1>3, <2>4 DEF Nowhere, Consume, DiskDrop
  <2> QED
    BY <2>3, <2>4
<1>7. NoTwice'
  BY <1>1, <1>2, <1>3 DEF Consume, DiskDrop, NoTwice
<1>8. RanIsOver'
  BY <1>1, <1>2, <1>3 DEF Consume, DiskDrop, RanIsOver, Shape, Answered
<1>9. LateShape'
  BY LateStays DEF Consume, Fresh, Doing, Wrote
<1> QED
  BY <1>4, <1>5, <1>6, <1>7, <1>8, <1>9

\* Closing the turn asks for the last save.
LEMMA CompleteHolds ==
  ASSUME IInv, Complete
  PROVE  IInv'
<1> USE DEF IInv
<1>1. <<"end", None>> \in SaveType /\ <<"end", None>> \notin In(writes)
  BY DEF Complete, Shape, Wrote, SaveType
<1>2. /\ writes' \in Seq(SaveType)
      /\ In(writes') = In(writes) \cup {<<"end", None>>}
      /\ OneSave(writes') /\ RequeuesFirst(writes')
  BY <1>1, Asked DEF Complete, Ask
<1>3. bound
  BY DEF Complete, Shape
<1>4. FreshIsNowhere' /\ NoTwice' /\ RanIsOver' /\ InOrder'
  BY DEF Complete, Ask, FreshIsNowhere, Nowhere, Fresh, Doing, NoTwice,
     RanIsOver, Shape, Answered, InOrder
<1>5. TypeOK'
  <2>1. pending' \in BOOLEAN
    BY DEF Complete
  <2> QED
    BY <1>2, <1>3, <2>1 DEF Complete, Ask, TypeOK, Running, Live, Answered
<1>6. Shape'
  BY <1>1, <1>2, <1>3 DEF Complete, Ask, Shape, Wrote
<1>7. JobsShape'
  BY <1>1, <1>2, <1>3 DEF Complete, Ask, JobsShape, Wrote, Submits, Doing,
       Awaits
<1>8. WritesShape'
  BY <1>1, <1>2, <1>3 DEF Complete, Ask, WritesShape, Wrote, Answered
<1>9. LateShape'
  BY <1>2, LateStays DEF Complete, Ask, Fresh, Doing, Wrote
<1> QED
  BY <1>4, <1>5, <1>6, <1>7, <1>8, <1>9

\* Delivering starts with the oldest marked message of the copy, which
\* nothing marked waits ahead of.
LEMMA StartDeliverHolds ==
  ASSUME IInv, StartDeliver
  PROVE  IInv'
<1> USE DEF IInv
<1>1. tail # <<>> /\ ~Wrote("job", None) /\ saved = "none" /\ bound
  BY DoingIs DEF StartDeliver, JobsShape, Awaits
<1>2. /\ tail' \in Seq(JobType) /\ OneSubmit(tail')
      /\ answer' \in [Msgs -> {"none", "typed", "sent"} \cup Answered]
      /\ \A x \in Msgs : answer'[x] = "sent" <=> Submits(x)'
      /\ \A x \in Msgs : answer'[x] = answer[x] \/ answer'[x] \in Answered
      /\ \A x \in Msgs : Fresh(x)' => Fresh(x)
      /\ \/ at' = "ready" /\ item' = None
         \/ /\ at' = "offerNext" /\ tail' = tail /\ port
            /\ item' \in In(memQ) \cap memFlag /\ item' \in Msgs \ ran
            /\ Before(memQ, item') \cap memFlag = {}
  BY <1>1, JobGoesOn DEF StartDeliver
<1>3. saved' = saved /\ turn' = turn /\ bound' = bound
  BY DEF StartDeliver
<1>4. Shape' /\ NoTwice'
  BY DEF StartDeliver, Shape, Wrote, NoTwice
<1>5. TypeOK'
  BY <1>1, <1>2, <1>3 DEF StartDeliver, TypeOK, Running, Live, Answered
<1>6. JobsShape'
  BY <1>1, <1>2, <1>3 DEF StartDeliver, JobsShape, Wrote, Doing, Awaits
<1>7. WritesShape'
  BY <1>1, <1>2, <1>3 DEF StartDeliver, WritesShape, Wrote, Answered
<1>8. FreshIsNowhere'
  <2> SUFFICES ASSUME NEW y \in Msgs, Fresh(y)' PROVE Nowhere(y)'
    BY DEF FreshIsNowhere
  <2>1. Fresh(y)
    BY <1>2
  <2>2. Nowhere(y)
    BY <2>1 DEF FreshIsNowhere
  <2> QED
    BY <2>2, <1>1, <1>2, <1>3 DEF Nowhere, StartDeliver
<1>9. RanIsOver'
  BY <1>1, <1>2, <1>3 DEF StartDeliver, RanIsOver, Shape, Answered
<1>10. InOrder'
  BY <1>1, <1>2, <1>3 DEF StartDeliver, InOrder
<1>11. LateShape'
  BY <1>2, LateStays DEF StartDeliver, Wrote
<1> QED
  BY <1>4, <1>5, <1>6, <1>7, <1>8, <1>9, <1>10, <1>11

\* After the save of a mark the job offers the oldest marked message.
LEMMA AfterMarkHolds ==
  ASSUME IInv, AfterMark
  PROVE  IInv'
<1> USE DEF IInv
<1>1. tail # <<>> /\ ~Wrote("job", None) /\ saved' = "none" /\ bound
  BY DoingIs DEF AfterMark, Resumed, JobsShape, Awaits
<1>2. /\ tail' \in Seq(JobType) /\ OneSubmit(tail')
      /\ answer' \in [Msgs -> {"none", "typed", "sent"} \cup Answered]
      /\ \A x \in Msgs : answer'[x] = "sent" <=> Submits(x)'
      /\ \A x \in Msgs : answer'[x] = answer[x] \/ answer'[x] \in Answered
      /\ \A x \in Msgs : Fresh(x)' => Fresh(x)
      /\ \/ at' = "ready" /\ item' = None
         \/ /\ at' = "offerNext" /\ tail' = tail /\ port
            /\ item' \in In(memQ) \cap memFlag /\ item' \in Msgs \ ran
            /\ Before(memQ, item') \cap memFlag = {}
  BY <1>1, JobGoesOn DEF AfterMark
<1>3. TypeOK'
  BY <1>1, <1>2 DEF AfterMark, Resumed, TypeOK, Running, Live, Answered
<1>4. Shape'
  BY <1>1, <1>2 DEF AfterMark, Resumed, Shape, Wrote
<1>5. JobsShape'
  BY <1>1, <1>2 DEF AfterMark, Resumed, JobsShape, Wrote, Doing, Awaits
<1>6. WritesShape'
  BY <1>1, <1>2 DEF AfterMark, Resumed, WritesShape, Wrote, Answered
<1>7. FreshIsNowhere'
  <2> SUFFICES ASSUME NEW y \in Msgs, Fresh(y)' PROVE Nowhere(y)'
    BY DEF FreshIsNowhere
  <2>1. Fresh(y)
    BY <1>2
  <2>2. Nowhere(y)
    BY <2>1 DEF FreshIsNowhere
  <2> QED
    BY <2>2, <1>1, <1>2 DEF Nowhere, AfterMark, Resumed
<1>8. NoTwice'
  BY DEF AfterMark, Resumed, NoTwice
<1>9. RanIsOver'
  BY <1>1, <1>2 DEF AfterMark, Resumed, RanIsOver, Shape, Answered
<1>10. InOrder'
  BY <1>1, <1>2 DEF AfterMark, Resumed, InOrder
<1>11. LateShape'
  BY <1>2, LateStays DEF AfterMark, Wrote
<1> QED
  BY <1>3, <1>4, <1>5, <1>6, <1>7, <1>8, <1>9, <1>10, <1>11

\* After the save of a message the vendor took, the job goes on to the
\* next marked one.
LEMMA AfterRecordNextHolds ==
  ASSUME IInv, AfterRecordNext
  PROVE  IInv'
<1> USE DEF IInv
<1>1. /\ tail # <<>> /\ ~Wrote("job", None) /\ saved' = "none" /\ bound
      /\ item \in Msgs \ ran
  BY DoingIs DEF AfterRecordNext, Resumed, JobsShape, Awaits, RanIsOver
<1>2. /\ tail' \in Seq(JobType) /\ OneSubmit(tail')
      /\ answer' \in [Msgs -> {"none", "typed", "sent"} \cup Answered]
      /\ \A x \in Msgs : answer'[x] = "sent" <=> Submits(x)'
      /\ \A x \in Msgs : answer'[x] = answer[x] \/ answer'[x] \in Answered
      /\ \A x \in Msgs : Fresh(x)' => Fresh(x)
      /\ \/ at' = "ready" /\ item' = None
         \/ /\ at' = "offerNext" /\ tail' = tail /\ port
            /\ item' \in In(memQ) \cap memFlag /\ item' \in Msgs \ ran
            /\ Before(memQ, item') \cap memFlag = {}
  BY <1>1, JobGoesOn DEF AfterRecordNext
<1>3. delivered' \subseteq delivered \cup {item}
  BY DEF AfterRecordNext
<1>4. TypeOK'
  BY <1>1, <1>2, <1>3 DEF AfterRecordNext, Resumed, TypeOK, Running, Live,
       Answered
<1>5. Shape'
  BY <1>1, <1>2, <1>3 DEF AfterRecordNext, Resumed, Shape, Wrote
<1>6. JobsShape'
  BY <1>1, <1>2, <1>3 DEF AfterRecordNext, Resumed, JobsShape, Wrote, Doing,
       Awaits
<1>7. WritesShape'
  BY <1>1, <1>2, <1>3 DEF AfterRecordNext, Resumed, WritesShape, Wrote,
       Answered
<1>8. FreshIsNowhere'
  <2> SUFFICES ASSUME NEW y \in Msgs, Fresh(y)' PROVE Nowhere(y)'
    BY DEF FreshIsNowhere
  <2>1. Fresh(y) /\ y # item
    BY <1>2 DEF FreshIsNowhere, Nowhere, AfterRecordNext, Resumed
  <2>2. Nowhere(y)
    BY <2>1 DEF FreshIsNowhere
  <2> QED
    BY <2>2, <1>1, <1>2, <1>3 DEF Nowhere, AfterRecordNext, Resumed
<1>9. NoTwice'
  BY DEF AfterRecordNext, Resumed, NoTwice
<1>10. RanIsOver'
  BY <1>1, <1>2, <1>3 DEF AfterRecordNext, Resumed, RanIsOver, Shape, Answered
<1>11. InOrder'
  BY <1>1, <1>2, <1>3 DEF AfterRecordNext, Resumed, InOrder
<1>12. LateShape'
  BY <1>2, LateStays DEF AfterRecordNext, Wrote
<1> QED
  BY <1>4, <1>5, <1>6, <1>7, <1>8, <1>9, <1>10, <1>11, <1>12

\* A submitted message is offered at once only if nothing is marked;
\* else it goes to the end of the copy.
LEMMA StartSubmitHolds ==
  ASSUME IInv, StartSubmit
  PROVE  IInv'
<1> USE DEF IInv
<1>1. tail # <<>> /\ ~Wrote("job", None) /\ saved = "none" /\ at = "ready"
      /\ Doing.kind = "submit"
  BY DEF StartSubmit, JobsShape, Awaits
<1>2. /\ Doing \in JobType /\ bound
      /\ Doing.kind = "submit" =>
           /\ Doing.msg \in Msgs /\ Doing.steer \in BOOLEAN
           /\ answer[Doing.msg] = "sent" /\ Doing.msg \notin ran
           /\ at \in {"ready", "offer"} => Fresh(Doing.msg)
  BY <1>1, DoingIs
<1>3. \/ /\ at' = "offer" /\ item' = Doing.msg /\ In(memQ) \cap memFlag = {}
         /\ memQ' = memQ
         /\ memFlag' = memFlag
         /\ writes' = writes
         /\ In(writes') = In(writes)
      \/ /\ writes' \in Seq(SaveType)
         /\ In(writes') = In(writes) \cup {<<"job", None>>}
         /\ OneSave(writes') /\ RequeuesFirst(writes') /\ at' = "queue"
         /\ memQ' \in Seq(Msgs)
         /\ NoDup(memQ')
         /\ In(memQ') = In(memQ) \cup {Doing.msg}
         /\ memFlag' \subseteq memFlag \cup {Doing.msg}
         /\ memFlag' \subseteq Msgs
         /\ item' = item
  <2>1. NextSteer = None => In(memQ) \cap memFlag = {}
    <3>1. memQ \in Seq(Msgs) /\ memFlag \in SUBSET Msgs
      BY DEF TypeOK
    <3>2. None \notin In(memQ)
      BY <3>1, LiveInputAssumption DEF In
    <3> QED
      BY <3>1, <3>2, OldestIs DEF NextSteer
  <2>2. CASE Doing.steer /\ port /\ NextSteer = None
    BY <2>1, <2>2 DEF StartSubmit
  <2>3. CASE ~(Doing.steer /\ port /\ NextSteer = None)
    <3>1. QueueIt(Doing.msg, Doing.steer) /\ item' = item
      BY <2>3 DEF StartSubmit
    <3> QED
      BY <1>1, <1>2, <3>1, QueuedIs
  <2> QED
    BY <2>2, <2>3
<1>4. /\ tail' = tail /\ Doing' = Doing /\ answer' = answer /\ saved' = saved
      /\ base' = base /\ inTurn' = inTurn
  BY DEF StartSubmit, Doing
<1>5. \A x \in Msgs : Fresh(x)' => Fresh(x) /\ (at' = "offer" \/ x # Doing.msg)
  <2>1. at' \in {"offer", "queue"}
    BY <1>3
  <2> QED
    BY <1>1, <1>2, <1>4, <2>1 DEF Fresh
<1>6. TypeOK'
  BY <1>2, <1>3, <1>4, <1>5 DEF StartSubmit, TypeOK, Running, Live, Answered
<1>7. Shape'
  BY <1>3, <1>4, <1>5 DEF StartSubmit, Shape, Wrote
<1>8. JobsShape'
  BY <1>3, <1>4, <1>5 DEF StartSubmit, JobsShape, Wrote, Submits, Doing,
     Awaits
<1>9. WritesShape'
  BY <1>2, <1>3, <1>4, <1>5 DEF StartSubmit, WritesShape, Wrote, Answered
<1>10. FreshIsNowhere'
  <2> SUFFICES ASSUME NEW y \in Msgs, Fresh(y)' PROVE Nowhere(y)'
    BY DEF FreshIsNowhere
  <2>1. Fresh(y) /\ (at' = "offer" \/ y # Doing.msg)
    BY <1>5
  <2>2. Nowhere(y)
    BY <2>1 DEF FreshIsNowhere
  <2> QED
    BY <2>2, <1>1, <1>2, <1>3, <1>4, <1>5 DEF Nowhere, StartSubmit
<1>11. NoTwice'
  BY <1>3, <1>4, <1>5 DEF StartSubmit, NoTwice
<1>12. RanIsOver'
  BY <1>2, <1>3, <1>4, <1>5 DEF StartSubmit, RanIsOver, Shape, Answered
<1>13. InOrder'
  BY <1>3, <1>4, <1>5 DEF StartSubmit, InOrder
<1>14. LateShape'
  BY <1>3, <1>5, LateStays DEF StartSubmit, Wrote
<1> QED
  BY <1>6, <1>7, <1>8, <1>9, <1>10, <1>11, <1>12, <1>13, <1>14

\* Sending what is queued marks the oldest message, and saves the mark.
LEMMA StartSendNowHolds ==
  ASSUME IInv, StartSendNow
  PROVE  IInv'
<1> USE DEF IInv
<1>1. tail # <<>> /\ ~Wrote("job", None) /\ saved = "none" /\ at = "ready"
      /\ bound
  BY DoingIs DEF StartSendNow, JobsShape, Awaits
<1>2. \/ /\ tail' \in Seq(JobType) /\ OneSubmit(tail')
         /\ answer' \in [Msgs -> {"none", "typed", "sent"} \cup Answered]
         /\ \A x \in Msgs : answer'[x] = "sent" <=> Submits(x)'
         /\ \A x \in Msgs : answer'[x] = answer[x] \/ answer'[x] \in Answered
         /\ \A x \in Msgs : Fresh(x)' => Fresh(x)
         /\ \/ at' = "ready" /\ item' = None
            \/ /\ at' = "offerNext" /\ tail' = tail /\ port
               /\ item' \in In(memQ) \cap memFlag /\ item' \in Msgs \ ran
               /\ Before(memQ, item') \cap memFlag = {}
         /\ memFlag' = memFlag /\ writes' = writes /\ In(writes') = In(writes)
      \/ /\ at' = "mark" /\ tail' = tail /\ item' = item /\ answer' = answer
         /\ memFlag' \subseteq memFlag \cup In(memQ) /\ memFlag' \subseteq Msgs
         /\ writes' \in Seq(SaveType)
         /\ In(writes') = In(writes) \cup {<<"job", None>>}
         /\ OneSave(writes') /\ RequeuesFirst(writes')
         /\ \A x \in Msgs : Fresh(x)' => Fresh(x)
         /\ \A x \in Msgs : answer'[x] = "sent" <=> Submits(x)'
  <2>1. CASE JobDone(delivered) /\ UNCHANGED <<memFlag, writes>>
    BY <1>1, <2>1, JobGoesOn
  <2>2. CASE NextOffer(delivered) /\ UNCHANGED <<memFlag, writes>>
    BY <1>1, <2>2, JobGoesOn
  <2>3. CASE /\ memQ # <<>> /\ memFlag' = memFlag \cup {Head(memQ)}
             /\ Ask("job") /\ at' = "mark" /\ UNCHANGED <<tail, item, answer>>
    <3>1. Head(memQ) \in In(memQ) /\ In(memQ) \subseteq Msgs
      BY <2>3, TailIs DEF TypeOK, In
    <3>2. /\ writes' \in Seq(SaveType)
          /\ In(writes') = In(writes) \cup {<<"job", None>>}
          /\ OneSave(writes') /\ RequeuesFirst(writes')
      BY <1>1, <2>3, JobAsks DEF Ask
    <3>3. \A x \in Msgs : Fresh(x)' => Fresh(x)
      BY <1>1, <2>3 DEF Fresh, Doing
    <3>4. \A x \in Msgs : answer'[x] = "sent" <=> Submits(x)'
      BY <2>3 DEF Submits, JobsShape
    <3> QED
      BY <2>3, <3>1, <3>2, <3>3, <3>4 DEF TypeOK
  <2> QED
    BY <2>1, <2>2, <2>3 DEF StartSendNow
<1>3. saved' = saved /\ turn' = turn /\ bound' = bound /\ memQ' = memQ
  BY DEF StartSendNow
<1>4. TypeOK'
  BY <1>1, <1>2, <1>3 DEF StartSendNow, TypeOK, Running, Live, Answered
<1>5. Shape'
  BY <1>1, <1>2, <1>3 DEF StartSendNow, Shape, Wrote
<1>6. JobsShape'
  BY <1>1, <1>2, <1>3 DEF StartSendNow, JobsShape, Wrote, Doing, Awaits
<1>7. WritesShape'
  BY <1>1, <1>2, <1>3 DEF StartSendNow, WritesShape, Wrote, Answered
<1>8. FreshIsNowhere'
  <2> SUFFICES ASSUME NEW y \in Msgs, Fresh(y)' PROVE Nowhere(y)'
    BY DEF FreshIsNowhere
  <2>1. Fresh(y)
    BY <1>2
  <2>2. Nowhere(y)
    BY <2>1 DEF FreshIsNowhere
  <2> QED
    BY <2>2, <1>1, <1>2, <1>3 DEF Nowhere, StartSendNow
<1>9. NoTwice'
  BY DEF StartSendNow, NoTwice
<1>10. RanIsOver'
  BY <1>1, <1>2, <1>3 DEF StartSendNow, RanIsOver, Shape, Answered
<1>11. InOrder'
  BY <1>1, <1>2, <1>3 DEF StartSendNow, InOrder
<1>12. LateShape'
  BY <1>2, LateStays DEF StartSendNow, Wrote
<1> QED
  BY <1>4, <1>5, <1>6, <1>7, <1>8, <1>9, <1>10, <1>11, <1>12

\* The vendor did not take the message: it is put into the copy, or
\* stays there.
LEMMA OfferLeftHolds ==
  ASSUME IInv, OfferLeft
  PROVE  IInv'
<1> USE DEF IInv
<1>1. tail # <<>> /\ ~Wrote("job", None) /\ saved = "none"
  BY DEF OfferLeft, JobsShape, Awaits
<1>2. /\ Doing \in JobType /\ bound
      /\ Doing.kind = "submit" =>
           /\ Doing.msg \in Msgs /\ Doing.steer \in BOOLEAN
           /\ answer[Doing.msg] = "sent" /\ Doing.msg \notin ran
           /\ at \in {"ready", "offer"} => Fresh(Doing.msg)
  BY <1>1, DoingIs
<1>3. at = "offer" => Doing.kind = "submit" /\ item = Doing.msg
  BY DEF JobsShape
<1>4. \/ /\ at = "offer" /\ item' = item /\ tail' = tail /\ answer' = answer
         /\ writes' \in Seq(SaveType)
         /\ In(writes') = In(writes) \cup {<<"job", None>>}
         /\ OneSave(writes') /\ RequeuesFirst(writes') /\ at' = "queue"
         /\ memQ' \in Seq(Msgs)
         /\ NoDup(memQ')
         /\ In(memQ') = In(memQ) \cup {item}
         /\ memFlag' \subseteq memFlag \cup {item} /\ memFlag' \subseteq Msgs
         /\ \A x \in Msgs : Fresh(x)' => Fresh(x) /\ x # item
         /\ \A x \in Msgs : answer'[x] = "sent" <=> Submits(x)'
      \/ /\ at = "offerNext"
         /\ memQ' = memQ
         /\ memFlag' = memFlag
         /\ writes' = writes
         /\ tail' \in Seq(JobType) /\ OneSubmit(tail')
         /\ answer' \in [Msgs -> {"none", "typed", "sent"} \cup Answered]
         /\ \A x \in Msgs : answer'[x] = "sent" <=> Submits(x)'
         /\ \A x \in Msgs : answer'[x] = answer[x] \/ answer'[x] \in Answered
         /\ \A x \in Msgs : Fresh(x)' => Fresh(x)
         /\ \/ at' = "ready" /\ item' = None
            \/ /\ at' = "offerNext" /\ tail' = tail /\ port
               /\ item' \in In(memQ) \cap memFlag /\ item' \in Msgs \ ran
               /\ Before(memQ, item') \cap memFlag = {}
  <2>1. CASE at = "offer"
    <3>1. QueueIt(item, TRUE) /\ UNCHANGED <<tail, item, answer>>
      BY <2>1 DEF OfferLeft
    <3>2. /\ writes' \in Seq(SaveType)
          /\ In(writes') = In(writes) \cup {<<"job", None>>}
          /\ OneSave(writes') /\ RequeuesFirst(writes') /\ at' = "queue"
          /\ memQ' \in Seq(Msgs)
          /\ NoDup(memQ')
          /\ In(memQ') = In(memQ) \cup {item}
          /\ memFlag' \subseteq memFlag \cup {item} /\ memFlag' \subseteq Msgs
      BY <1>1, <1>2, <1>3, <2>1, <3>1, QueuedIs
    <3>3. \A x \in Msgs : Fresh(x)' => Fresh(x) /\ x # item
      BY <1>1, <1>2, <1>3, <2>1, <3>1, <3>2 DEF Fresh, Doing
    <3>4. \A x \in Msgs : answer'[x] = "sent" <=> Submits(x)'
      BY <3>1 DEF Submits, JobsShape
    <3> QED
      BY <2>1, <3>1, <3>2, <3>3, <3>4
  <2>2. CASE at = "offerNext"
    <3>1. JobDone(delivered) /\ UNCHANGED <<memQ, memFlag, writes>>
      BY <2>2 DEF OfferLeft
    <3> QED
      BY <1>1, <2>2, <3>1, JobGoesOn
  <2> QED
    BY <2>1, <2>2 DEF OfferLeft
<1>5. /\ saved' = saved /\ turn' = turn /\ bound' = bound /\ base' = base
      /\ inTurn' = inTurn
  BY DEF OfferLeft
<1>6. TypeOK'
  BY <1>3, <1>4, <1>5 DEF OfferLeft, TypeOK, Running, Live, Answered
<1>7. Shape'
  BY <1>2, <1>3, <1>4, <1>5 DEF OfferLeft, Shape, Wrote
<1>8. JobsShape'
  BY <1>3, <1>4, <1>5 DEF OfferLeft, JobsShape, Wrote, Doing, Awaits
<1>9. WritesShape'
  BY <1>2, <1>3, <1>4, <1>5 DEF OfferLeft, WritesShape, Wrote, Answered
<1>10. FreshIsNowhere'
  <2> SUFFICES ASSUME NEW y \in Msgs, Fresh(y)' PROVE Nowhere(y)'
    BY DEF FreshIsNowhere
  <2>1. Fresh(y) /\ (at = "offer" => y # item)
    BY <1>4
  <2>2. Nowhere(y)
    BY <2>1 DEF FreshIsNowhere
  <2> QED
    BY <2>2, <1>1, <1>2, <1>3, <1>4, <1>5 DEF Nowhere, OfferLeft
<1>11. NoTwice'
  BY <1>3, <1>4, <1>5 DEF OfferLeft, NoTwice
<1>12. RanIsOver'
  BY <1>2, <1>3, <1>4, <1>5 DEF OfferLeft, RanIsOver, Shape, Answered
<1>13. InOrder'
  BY <1>3, <1>4, <1>5 DEF OfferLeft, InOrder
<1>14. LateShape'
  BY <1>4, LateStays DEF OfferLeft, Wrote
<1> QED
  BY <1>6, <1>7, <1>8, <1>9, <1>10, <1>11, <1>12, <1>13, <1>14

\* After the save of the submitted message the vendor took it is
\* answered, or queued if the save failed.
LEMMA AfterRecordHolds ==
  ASSUME IInv, AfterRecord
  PROVE  IInv'
<1> USE DEF IInv
<1>1. tail # <<>> /\ ~Wrote("job", None) /\ saved' = "none"
  BY DEF AfterRecord, Resumed, JobsShape, Awaits
<1>2. /\ Doing \in JobType /\ bound
      /\ Doing.kind = "submit" =>
           /\ Doing.msg \in Msgs /\ Doing.steer \in BOOLEAN
           /\ answer[Doing.msg] = "sent" /\ Doing.msg \notin ran
           /\ at \in {"ready", "offer"} => Fresh(Doing.msg)
  BY <1>1, DoingIs
<1>3. at = "record" /\ Doing.kind = "submit" /\ item = Doing.msg
  BY DEF AfterRecord, Resumed, JobsShape
<1>4. \/ /\ item' = item
         /\ tail' = tail
         /\ answer' = answer
         /\ delivered' = delivered
         /\ writes' \in Seq(SaveType)
         /\ In(writes') = In(writes) \cup {<<"job", None>>}
         /\ OneSave(writes') /\ RequeuesFirst(writes') /\ at' = "queue"
         /\ memQ' \in Seq(Msgs)
         /\ NoDup(memQ')
         /\ In(memQ') = In(memQ) \cup {item}
         /\ memFlag' \subseteq memFlag \cup {item} /\ memFlag' \subseteq Msgs
         /\ \A x \in Msgs : Fresh(x)' => Fresh(x) /\ x # item
         /\ \A x \in Msgs : answer'[x] = "sent" <=> Submits(x)'
      \/ /\ memQ' = memQ /\ memFlag' = memFlag /\ writes' = writes
         /\ delivered' = delivered \cup {item}
         /\ tail' \in Seq(JobType) /\ OneSubmit(tail')
         /\ answer' \in [Msgs -> {"none", "typed", "sent"} \cup Answered]
         /\ \A x \in Msgs : answer'[x] = "sent" <=> Submits(x)'
         /\ \A x \in Msgs : answer'[x] = answer[x] \/ answer'[x] \in Answered
         /\ \A x \in Msgs : Fresh(x)' => Fresh(x)
         /\ \/ at' = "ready" /\ item' = None
            \/ /\ at' = "offerNext" /\ tail' = tail /\ port
               /\ item' \in In(memQ) \cap memFlag /\ item' \in Msgs \ ran
               /\ Before(memQ, item') \cap memFlag = {}
  <2>1. CASE saved # "ok"
    <3>1. QueueIt(item, TRUE) /\ UNCHANGED <<tail, item, delivered, answer>>
      BY <2>1 DEF AfterRecord
    <3>2. /\ writes' \in Seq(SaveType)
          /\ In(writes') = In(writes) \cup {<<"job", None>>}
          /\ OneSave(writes') /\ RequeuesFirst(writes') /\ at' = "queue"
          /\ memQ' \in Seq(Msgs)
          /\ NoDup(memQ')
          /\ In(memQ') = In(memQ) \cup {item}
          /\ memFlag' \subseteq memFlag \cup {item} /\ memFlag' \subseteq Msgs
      BY <1>1, <1>2, <1>3, <2>1, <3>1, QueuedIs
    <3>3. \A x \in Msgs : Fresh(x)' => Fresh(x) /\ x # item
      BY <1>1, <1>2, <1>3, <2>1, <3>1, <3>2 DEF Fresh, Doing
    <3>4. \A x \in Msgs : answer'[x] = "sent" <=> Submits(x)'
      BY <3>1 DEF Submits, JobsShape
    <3> QED
      BY <3>1, <3>2, <3>3, <3>4
  <2>2. CASE saved = "ok"
    <3>1. /\ JobDone(delivered') /\ UNCHANGED <<memQ, memFlag, writes>>
          /\ delivered' = delivered \cup {item}
      BY <2>2 DEF AfterRecord
    <3> QED
      BY <1>1, <3>1, JobGoesOn
  <2> QED
    BY <2>1, <2>2
<1>5. /\ turn' = turn /\ bound' = bound /\ base' = base /\ inTurn' = inTurn
      /\ ~Fresh(item)
  BY <1>1, <1>2, <1>3 DEF AfterRecord, Fresh
<1>6. TypeOK'
  BY <1>2, <1>3, <1>4, <1>5 DEF AfterRecord, Resumed, TypeOK, Running, Live,
     Answered
<1>7. Shape'
  BY <1>2, <1>3, <1>4, <1>5 DEF AfterRecord, Resumed, Shape, Wrote
<1>8. JobsShape'
  BY <1>3, <1>4, <1>5 DEF AfterRecord, Resumed, JobsShape, Wrote, Doing,
     Awaits
<1>9. WritesShape'
  BY <1>2, <1>3, <1>4, <1>5 DEF AfterRecord, Resumed, WritesShape, Wrote,
     Answered
<1>10. FreshIsNowhere'
  <2> SUFFICES ASSUME NEW y \in Msgs, Fresh(y)' PROVE Nowhere(y)'
    BY DEF FreshIsNowhere
  <2>1. Fresh(y) /\ y # item
    BY <1>4, <1>5
  <2>2. Nowhere(y)
    BY <2>1 DEF FreshIsNowhere
  <2> QED
    BY <2>2, <1>1, <1>2, <1>3, <1>4, <1>5 DEF Nowhere, AfterRecord, Resumed
<1>11. NoTwice'
  BY <1>3, <1>4, <1>5 DEF AfterRecord, Resumed, NoTwice
<1>12. RanIsOver'
  BY <1>2, <1>3, <1>4, <1>5 DEF AfterRecord, Resumed, RanIsOver, Shape,
     Answered
<1>13. InOrder'
  BY <1>3, <1>4, <1>5 DEF AfterRecord, Resumed, InOrder
<1>14. LateShape'
  BY <1>4, LateStays DEF AfterRecord, Wrote
<1> QED
  BY <1>6, <1>7, <1>8, <1>9, <1>10, <1>11, <1>12, <1>13, <1>14

\* After the save of the queue the submit is answered and what is marked
\* is offered; a save that failed takes the message out again.
LEMMA AfterQueueHolds ==
  ASSUME IInv, AfterQueue
  PROVE  IInv'
<1> USE DEF IInv
<1>1. tail # <<>> /\ ~Wrote("job", None) /\ saved' = "none"
  BY DEF AfterQueue, Resumed, JobsShape, Awaits
<1>2. /\ Doing \in JobType /\ bound
      /\ Doing.kind = "submit" =>
           /\ Doing.msg \in Msgs /\ Doing.steer \in BOOLEAN
           /\ answer[Doing.msg] = "sent" /\ Doing.msg \notin ran
           /\ at \in {"ready", "offer"} => Fresh(Doing.msg)
  BY <1>1, DoingIs
<1>3. at = "queue" /\ Doing.kind = "submit"
  BY DEF AfterQueue, Resumed, JobsShape
<1>4. /\ Without(memQ, {Doing.msg}) \in Seq(Msgs)
      /\ NoDup(Without(memQ, {Doing.msg}))
      /\ In(Without(memQ, {Doing.msg})) = In(memQ) \ {Doing.msg}
      /\ \A x \in Msgs \ {Doing.msg} :
           Before(Without(memQ, {Doing.msg}), x) \subseteq Before(memQ, x)
  BY WithoutIs DEF TypeOK, NoTwice
<1>5. /\ memQ' \in Seq(Msgs) /\ NoDup(memQ') /\ In(memQ') \subseteq In(memQ)
      /\ memFlag' = memFlag /\ writes' = writes
  BY <1>4 DEF AfterQueue, TypeOK, NoTwice
<1>6. /\ tail' \in Seq(JobType) /\ OneSubmit(tail')
      /\ answer' \in [Msgs -> {"none", "typed", "sent"} \cup Answered]
      /\ \A x \in Msgs : answer'[x] = "sent" <=> Submits(x)'
      /\ \A x \in Msgs : answer'[x] = answer[x] \/ answer'[x] \in Answered
      /\ \A x \in Msgs : Fresh(x)' => Fresh(x)
      /\ \/ at' = "ready" /\ item' = None
         \/ /\ at' = "offerNext" /\ memQ' = memQ /\ tail' = tail /\ port
            /\ item' \in In(memQ) \cap memFlag /\ item' \in Msgs \ ran
            /\ Before(memQ, item') \cap memFlag = {}
  <2>1. CASE saved # "failed"
    <3>1. memQ' = memQ /\ (NextOffer(delivered) \/ JobDone(delivered))
      BY <2>1 DEF AfterQueue
    <3> QED
      BY <1>1, <3>1, JobGoesOn
  <2>2. CASE saved = "failed"
    <3>1. /\ tail' = Tail(tail) /\ at' = "ready" /\ item' = None
          /\ answer' = [answer EXCEPT ![Doing.msg] = "error"]
      BY <2>2 DEF AfterQueue, Told
    <3>2. /\ answer' \in [Msgs -> {"none", "typed", "sent"} \cup Answered]
          /\ answer'[Doing.msg] = "error"
          /\ \A x \in Msgs \ {Doing.msg} : answer'[x] = answer[x]
      BY <1>2, <1>3, <3>1 DEF TypeOK, Answered
    <3>3. /\ tail' \in Seq(JobType) /\ OneSubmit(tail')
          /\ \A x \in Msgs : Submits(x)' <=> Submits(x) /\ Doing.msg # x
      BY <1>1, <1>3, <3>1, JobOver
    <3>4. \A x \in Msgs : answer'[x] = "sent" <=> Submits(x)'
      BY <3>2, <3>3 DEF JobsShape
    <3>5. \A x \in Msgs : Fresh(x)' => Fresh(x)
      BY <3>1, <3>2 DEF Fresh
    <3> QED
      BY <3>1, <3>2, <3>3, <3>4, <3>5 DEF Answered
  <2> QED
    BY <2>1, <2>2
<1>7. TypeOK'
  BY <1>3, <1>4, <1>5, <1>6 DEF AfterQueue, Resumed, TypeOK, Running, Live,
     Answered
<1>8. Shape'
  BY <1>2, <1>3, <1>4, <1>5, <1>6 DEF AfterQueue, Resumed, Shape, Wrote
<1>9. JobsShape'
  BY <1>3, <1>4, <1>5, <1>6 DEF AfterQueue, Resumed, JobsShape, Wrote, Doing,
     Awaits
<1>10. WritesShape'
  BY <1>3, <1>4, <1>5, <1>6 DEF AfterQueue, Resumed, WritesShape, Wrote,
     Answered
<1>11. FreshIsNowhere'
  <2> SUFFICES ASSUME NEW y \in Msgs, Fresh(y)' PROVE Nowhere(y)'
    BY DEF FreshIsNowhere
  <2>1. Fresh(y)
    BY <1>6
  <2>2. Nowhere(y)
    BY <2>1 DEF FreshIsNowhere
  <2> QED
    BY <2>2, <1>1, <1>2, <1>3, <1>4, <1>5, <1>6 DEF Nowhere, AfterQueue,
       Resumed
<1>12. NoTwice'
  BY <1>3, <1>4, <1>5, <1>6 DEF AfterQueue, Resumed, NoTwice
<1>13. RanIsOver'
  BY <1>3, <1>4, <1>5, <1>6 DEF AfterQueue, Resumed, RanIsOver, Shape,
     Answered
<1>14. InOrder'
  BY <1>3, <1>4, <1>5, <1>6 DEF AfterQueue, Resumed, InOrder
<1>15. LateShape'
  BY <1>5, <1>6, LateStays DEF AfterQueue, Wrote
<1> QED
  BY <1>7, <1>8, <1>9, <1>10, <1>11, <1>12, <1>13, <1>14, <1>15

\* The vendor takes the message: it leaves the copy for the turn, or is
\* queued, or stays there, if the turn's record is already final.
LEMMA OfferTakenHolds ==
  ASSUME IInv, OfferTaken
  PROVE  IInv'
<1> USE DEF IInv
<1>1. tail # <<>> /\ ~Wrote("job", None) /\ saved = "none"
  BY DEF OfferTaken, JobsShape, Awaits
<1>2. /\ Doing \in JobType /\ bound
      /\ Doing.kind = "submit" =>
           /\ Doing.msg \in Msgs /\ Doing.steer \in BOOLEAN
           /\ answer[Doing.msg] = "sent" /\ Doing.msg \notin ran
           /\ at \in {"ready", "offer"} => Fresh(Doing.msg)
  BY <1>1, DoingIs
<1>3. /\ at = "offer" => Doing.kind = "submit" /\ item = Doing.msg
      /\ item \in Msgs \ ran
  BY <1>2 DEF JobsShape, RanIsOver, OfferTaken
<1>4. /\ Without(memQ, {item}) \in Seq(Msgs) /\ NoDup(Without(memQ, {item}))
      /\ In(Without(memQ, {item})) = In(memQ) \ {item}
      /\ \A x \in Msgs \ {item} :
           Before(Without(memQ, {item}), x) \subseteq Before(memQ, x)
  BY WithoutIs DEF TypeOK, NoTwice
<1>5. \/ /\ pending /\ item' = item /\ tail' = tail /\ answer' = answer
         /\ inTurn' = inTurn \cup {item} /\ memFlag' = memFlag
         /\ memQ' \in Seq(Msgs)
         /\ NoDup(memQ')
         /\ In(memQ') = In(memQ) \ {item}
         /\ writes' \in Seq(SaveType)
         /\ In(writes') = In(writes) \cup {<<"job", None>>}
         /\ OneSave(writes') /\ RequeuesFirst(writes')
         /\ at' = IF at = "offer" THEN "record" ELSE "recordNext"
         /\ \A x \in Msgs : Fresh(x)' => Fresh(x) /\ x # item
         /\ \A x \in Msgs : answer'[x] = "sent" <=> Submits(x)'
      \/ /\ at = "offer" /\ item' = item /\ tail' = tail /\ answer' = answer
         /\ inTurn' = inTurn
         /\ writes' \in Seq(SaveType)
         /\ In(writes') = In(writes) \cup {<<"job", None>>}
         /\ OneSave(writes') /\ RequeuesFirst(writes') /\ at' = "queue"
         /\ memQ' \in Seq(Msgs)
         /\ NoDup(memQ')
         /\ In(memQ') = In(memQ) \cup {item}
         /\ memFlag' \subseteq memFlag \cup {item} /\ memFlag' \subseteq Msgs
         /\ \A x \in Msgs : Fresh(x)' => Fresh(x) /\ x # item
         /\ \A x \in Msgs : answer'[x] = "sent" <=> Submits(x)'
      \/ /\ at = "offerNext"
         /\ memQ' = memQ
         /\ memFlag' = memFlag
         /\ writes' = writes
         /\ inTurn' = inTurn
         /\ tail' \in Seq(JobType) /\ OneSubmit(tail')
         /\ answer' \in [Msgs -> {"none", "typed", "sent"} \cup Answered]
         /\ \A x \in Msgs : answer'[x] = "sent" <=> Submits(x)'
         /\ \A x \in Msgs : answer'[x] = answer[x] \/ answer'[x] \in Answered
         /\ \A x \in Msgs : Fresh(x)' => Fresh(x)
         /\ \/ at' = "ready" /\ item' = None
            \/ /\ at' = "offerNext" /\ tail' = tail /\ port
               /\ item' \in In(memQ) \cap memFlag /\ item' \in Msgs \ ran
               /\ Before(memQ, item') \cap memFlag = {}
  <2>1. CASE pending
    <3>1. /\ RecordSteer(item) /\ UNCHANGED <<memFlag, tail, item, answer>>
          /\ at' = IF at = "offer" THEN "record" ELSE "recordNext"
      BY <2>1 DEF OfferTaken
    <3>2. /\ writes' \in Seq(SaveType)
          /\ In(writes') = In(writes) \cup {<<"job", None>>}
          /\ OneSave(writes') /\ RequeuesFirst(writes')
      BY <1>1, <3>1, JobAsks DEF RecordSteer, Ask
    <3>3. \A x \in Msgs : Fresh(x)' => Fresh(x) /\ x # item
      <4>1. CASE at = "offer"
        BY <1>1, <1>2, <1>3, <3>1, <4>1 DEF Fresh, Doing
      <4>2. CASE at = "offerNext"
        <5>1. ~Fresh(item)
          BY <1>3, <4>2 DEF FreshIsNowhere, Nowhere
        <5>2. \A x \in Msgs : Fresh(x)' => Fresh(x)
          BY <3>1, <4>2 DEF Fresh, Doing
        <5> QED
          BY <5>1, <5>2
      <4> QED
        BY <4>1, <4>2 DEF OfferTaken
    <3>4. \A x \in Msgs : answer'[x] = "sent" <=> Submits(x)'
      BY <3>1 DEF Submits, JobsShape
    <3> QED
      BY <1>4, <2>1, <3>1, <3>2, <3>3, <3>4 DEF RecordSteer
  <2>2. CASE ~pending /\ at = "offer"
    <3>1. QueueIt(item, TRUE) /\ UNCHANGED <<inTurn, tail, item, answer>>
      BY <2>2 DEF OfferTaken
    <3>2. /\ writes' \in Seq(SaveType)
          /\ In(writes') = In(writes) \cup {<<"job", None>>}
          /\ OneSave(writes') /\ RequeuesFirst(writes') /\ at' = "queue"
          /\ memQ' \in Seq(Msgs)
          /\ NoDup(memQ')
          /\ In(memQ') = In(memQ) \cup {item}
          /\ memFlag' \subseteq memFlag \cup {item} /\ memFlag' \subseteq Msgs
      BY <1>1, <1>3, <2>2, <3>1, QueuedIs
    <3>3. \A x \in Msgs : Fresh(x)' => Fresh(x) /\ x # item
      BY <1>1, <1>2, <1>3, <2>2, <3>1, <3>2 DEF Fresh, Doing
    <3>4. \A x \in Msgs : answer'[x] = "sent" <=> Submits(x)'
      BY <3>1 DEF Submits, JobsShape
    <3> QED
      BY <2>2, <3>1, <3>2, <3>3, <3>4
  <2>3. CASE ~pending /\ at = "offerNext"
    <3>1. JobDone(delivered) /\ UNCHANGED <<memQ, memFlag, inTurn, writes>>
      BY <2>3 DEF OfferTaken
    <3> QED
      BY <1>1, <2>3, <3>1, JobGoesOn
  <2> QED
    BY <2>1, <2>2, <2>3 DEF OfferTaken
<1>6. /\ saved' = saved /\ turn' = turn /\ bound' = bound /\ base' = base
      /\ at \in {"offer", "offerNext"}
  BY DEF OfferTaken
<1>7. TypeOK'
  BY <1>3, <1>4, <1>5, <1>6 DEF OfferTaken, TypeOK, Running, Live, Answered
<1>8. Shape'
  BY <1>3, <1>4, <1>5, <1>6 DEF OfferTaken, Shape, Wrote
<1>9. JobsShape'
  BY <1>3, <1>4, <1>5, <1>6 DEF OfferTaken, JobsShape, Wrote, Doing, Awaits
<1>10. WritesShape'
  BY <1>2, <1>3, <1>4, <1>5, <1>6 DEF OfferTaken, WritesShape, Wrote, Answered
<1>11. FreshIsNowhere'
  <2> SUFFICES ASSUME NEW y \in Msgs, Fresh(y)' PROVE Nowhere(y)'
    BY DEF FreshIsNowhere
  <2>1. Fresh(y) /\ (at = "offer" => y # item)
    BY <1>3, <1>5
  <2>2. Nowhere(y)
    BY <2>1 DEF FreshIsNowhere
  <2> QED
    BY <2>2, <1>1, <1>2, <1>3, <1>4, <1>5, <1>6 DEF Nowhere, OfferTaken
<1>12. NoTwice'
  BY <1>3, <1>4, <1>5, <1>6 DEF OfferTaken, NoTwice
<1>13. RanIsOver'
  BY <1>3, <1>4, <1>5, <1>6 DEF OfferTaken, RanIsOver, Shape, Answered
<1>14. InOrder'
  BY <1>3, <1>4, <1>5, <1>6 DEF OfferTaken, InOrder
<1>15. LateShape'
  BY <1>5, LateStays DEF OfferTaken, Wrote
<1> QED
  BY <1>7, <1>8, <1>9, <1>10, <1>11, <1>12, <1>13, <1>14, <1>15

\* A submit joins the jobs: only one of them is for its message.
LEMMA SubmitHolds ==
  ASSUME IInv, NEW m \in Msgs, NEW steer \in BOOLEAN, Submit(m, steer),
         ~Urgent
  PROVE  IInv'
<1> USE DEF IInv
<1>1. /\ answer[m] = "typed" /\ bound /\ m \notin ran
      /\ \A x \in Msgs : takeback[x] # "waiting"
  BY DEF Submit, Urgent, FreshIsNowhere, Nowhere, Fresh
<1>2. /\ tail' \in Seq(JobType) /\ tail' # <<>> /\ OneSubmit(tail')
      /\ In(tail') = In(tail) \cup {Job("submit", m, steer)}
      /\ tail # <<>> => Head(tail') = Head(tail)
  <2> DEFINE e == Job("submit", m, steer)
  <2>1. e \in JobType /\ e.kind = "submit" /\ e.msg = m
    BY DEF JobType, Job
  <2>2. tail' = Append(tail, e)
    BY DEF Submit
  <2> HIDE DEF e
  <2>3. \A d \in In(tail) : d.kind = "submit" => d.msg # m
    BY <1>1 DEF JobsShape, Submits
  <2>4. tail \in Seq(JobType) /\ OneSubmit(tail)
    BY DEF TypeOK, JobsShape
  <2>5. OneSubmit(tail')
    BY <2>1, <2>2, <2>3, <2>4, AppendOneSubmit
  <2>6. /\ tail' \in Seq(JobType)
        /\ tail' # <<>>
        /\ In(tail') = In(tail) \cup {e}
        /\ tail # <<>> => Head(tail') = Head(tail)
    BY <2>1, <2>2, <2>4, AppendIs
  <2> QED
    BY <2>5, <2>6 DEF e
<1>3. /\ \A x \in Msgs : Submits(x)' <=> Submits(x) \/ x = m
      /\ answer' \in [Msgs -> {"none", "typed", "sent"} \cup Answered]
      /\ answer'[m] = "sent" /\ \A x \in Msgs \ {m} : answer'[x] = answer[x]
      /\ at' = at /\ item' = item
  <2>1. \A x \in Msgs : Submits(x)' <=> Submits(x) \/ x = m
    <3> DEFINE e == Job("submit", m, steer)
    <3>1. e.kind = "submit" /\ e.msg = m /\ In(tail') = In(tail) \cup {e}
      BY <1>2 DEF Job
    <3> HIDE DEF e
    <3> QED
      BY <3>1 DEF Submits
  <2> QED
    BY <2>1 DEF Submit, TypeOK
<1>4. tail # <<>> => Doing' = Doing
  BY <1>2 DEF Doing
<1>5. tail = <<>> => at = "ready"
  BY DEF JobsShape
<1>6. \A x \in Msgs : Fresh(x)' => Fresh(x)
  BY <1>1, <1>2, <1>3, <1>4, <1>5 DEF Fresh
<1>7. Shape' /\ WritesShape' /\ NoTwice' /\ InOrder'
  BY DEF Submit, Job, Shape, Wrote, WritesShape, Answered, NoTwice, InOrder
<1>8. TypeOK'
  BY <1>2, <1>3, <1>4, <1>5, <1>6 DEF Submit, Job, TypeOK, Running, Live,
     Answered
<1>9. JobsShape'
  BY <1>1, <1>2, <1>3, <1>4, <1>5 DEF Submit, Job, JobsShape, Wrote, Doing,
       Awaits
<1>10. FreshIsNowhere'
  <2> SUFFICES ASSUME NEW y \in Msgs, Fresh(y)' PROVE Nowhere(y)'
    BY DEF FreshIsNowhere
  <2>1. Fresh(y)
    BY <1>6
  <2>2. Nowhere(y)
    BY <2>1 DEF FreshIsNowhere
  <2> QED
    BY <2>2, <1>1, <1>2, <1>3, <1>4, <1>5, <1>6 DEF Nowhere, Submit, Job
<1>11. RanIsOver'
  BY <1>1, <1>3, <1>4, <1>5, <1>6 DEF Submit, Job, RanIsOver, Shape, Answered
<1>12. LateShape'
  BY <1>6, LateStays DEF Submit, Wrote
<1> QED
  BY <1>7, <1>8, <1>9, <1>10, <1>11, <1>12

\* The job that sends what is queued joins the others.
LEMMA SendQueuedHolds ==
  ASSUME IInv, SendQueued, ~Urgent
  PROVE  IInv'
<1> USE DEF IInv
<1>1. /\ bound /\ \A x \in Msgs : takeback[x] # "waiting"
  BY DEF SendQueued, Urgent, Shape
<1>2. /\ tail' \in Seq(JobType) /\ OneSubmit(tail')
      /\ tail' # <<>> \/ tail = <<>>
      /\ \A x \in Msgs : Submits(x)' <=> Submits(x)
      /\ tail # <<>> => Doing' = Doing
  BY JobComes DEF SendQueued
<1>3. /\ answer' = answer /\ at' = at /\ item' = item
      /\ tail = <<>> => at = "ready"
  BY DEF SendQueued, JobsShape
<1>4. \A x \in Msgs : answer'[x] = "sent" <=> Submits(x)'
  BY <1>2, <1>3 DEF JobsShape
<1>5. \A x \in Msgs : Fresh(x)' => Fresh(x)
  BY <1>2, <1>3 DEF Fresh
<1>6. Shape' /\ WritesShape' /\ NoTwice' /\ RanIsOver' /\ InOrder'
  BY DEF SendQueued, Shape, Wrote, WritesShape, Answered, NoTwice, RanIsOver,
     InOrder
<1>7. TypeOK'
  <2>1. UNCHANGED <<turnVars, port, memVars, diskVars, at, item, saved, delivered,
                    writes, endVars, stalled, picked, userVars, ran, owed>>
    BY DEF SendQueued
  <2> QED
    BY <1>2, <2>1 DEF TypeOK
<1>8. JobsShape'
  BY <1>1, <1>2, <1>3, <1>4, <1>5 DEF SendQueued, JobsShape, Wrote, Doing,
       Awaits
<1>9. FreshIsNowhere'
  <2> SUFFICES ASSUME NEW y \in Msgs, Fresh(y)' PROVE Nowhere(y)'
    BY DEF FreshIsNowhere
  <2>1. Fresh(y)
    BY <1>5
  <2>2. Nowhere(y)
    BY <2>1 DEF FreshIsNowhere
  <2> QED
    BY <2>2, <1>1, <1>2, <1>3, <1>4, <1>5 DEF Nowhere, SendQueued
<1>10. LateShape'
  BY <1>5, LateStays DEF SendQueued, Wrote
<1> QED
  BY <1>6, <1>7, <1>8, <1>9, <1>10

\* A port that opens asks for a delivery.
LEMMA PortOpensHolds ==
  ASSUME IInv, PortOpens, ~Urgent
  PROVE  IInv'
<1> USE DEF IInv
<1>1. /\ bound /\ \A x \in Msgs : takeback[x] # "waiting"
  BY DEF PortOpens, Urgent, Shape
<1>2. /\ tail' \in Seq(JobType) /\ OneSubmit(tail')
      /\ tail' # <<>> \/ tail = <<>>
      /\ \A x \in Msgs : Submits(x)' <=> Submits(x)
      /\ tail # <<>> => Doing' = Doing
  BY JobComes DEF PortOpens, DeliverSoon
<1>3. /\ answer' = answer /\ at' = at /\ item' = item
      /\ tail = <<>> => at = "ready"
  BY DEF PortOpens, JobsShape
<1>4. \A x \in Msgs : answer'[x] = "sent" <=> Submits(x)'
  BY <1>2, <1>3 DEF JobsShape
<1>5. \A x \in Msgs : Fresh(x)' => Fresh(x)
  BY <1>2, <1>3 DEF Fresh
<1>6. Shape' /\ WritesShape' /\ NoTwice' /\ RanIsOver' /\ InOrder'
  BY DEF PortOpens, Shape, Wrote, WritesShape, Answered, NoTwice, RanIsOver,
     InOrder
<1>7. TypeOK'
  <2>1. port' \in BOOLEAN
    BY DEF PortOpens
  <2> QED
    BY <1>2, <1>3, <1>4, <1>5, <2>1 DEF PortOpens, TypeOK, Running, Live,
       Answered
<1>8. JobsShape'
  BY <1>1, <1>2, <1>3, <1>4, <1>5 DEF PortOpens, JobsShape, Wrote, Doing,
       Awaits
<1>9. FreshIsNowhere'
  <2> SUFFICES ASSUME NEW y \in Msgs, Fresh(y)' PROVE Nowhere(y)'
    BY DEF FreshIsNowhere
  <2>1. Fresh(y)
    BY <1>5
  <2>2. Nowhere(y)
    BY <2>1 DEF FreshIsNowhere
  <2> QED
    BY <2>2, <1>1, <1>2, <1>3, <1>4, <1>5 DEF Nowhere, PortOpens
<1>10. LateShape'
  BY <1>5, LateStays DEF PortOpens, Wrote
<1> QED
  BY <1>6, <1>7, <1>8, <1>9, <1>10

\* A new window asks for a delivery.
LEMMA WindowHolds ==
  ASSUME IInv, Window, ~Urgent
  PROVE  IInv'
<1> USE DEF IInv
<1>1. /\ bound /\ \A x \in Msgs : takeback[x] # "waiting"
  BY DEF Window, Urgent, Shape
<1>2. /\ tail' \in Seq(JobType) /\ OneSubmit(tail')
      /\ tail' # <<>> \/ tail = <<>>
      /\ \A x \in Msgs : Submits(x)' <=> Submits(x)
      /\ tail # <<>> => Doing' = Doing
  BY JobComes DEF Window, DeliverSoon
<1>3. /\ answer' = answer /\ at' = at /\ item' = item
      /\ tail = <<>> => at = "ready"
  BY DEF Window, JobsShape
<1>4. \A x \in Msgs : answer'[x] = "sent" <=> Submits(x)'
  BY <1>2, <1>3 DEF JobsShape
<1>5. \A x \in Msgs : Fresh(x)' => Fresh(x)
  BY <1>2, <1>3 DEF Fresh
<1>6. Shape' /\ WritesShape' /\ NoTwice' /\ RanIsOver' /\ InOrder'
  BY DEF Window, Shape, Wrote, WritesShape, Answered, NoTwice, RanIsOver,
     InOrder
<1>7. TypeOK'
  BY <1>2, <1>3, <1>4, <1>5 DEF Window, TypeOK, Running, Live, Answered
<1>8. JobsShape'
  BY <1>1, <1>2, <1>3, <1>4, <1>5 DEF Window, JobsShape, Wrote, Doing, Awaits
<1>9. FreshIsNowhere'
  <2> SUFFICES ASSUME NEW y \in Msgs, Fresh(y)' PROVE Nowhere(y)'
    BY DEF FreshIsNowhere
  <2>1. Fresh(y)
    BY <1>5
  <2>2. Nowhere(y)
    BY <2>1 DEF FreshIsNowhere
  <2> QED
    BY <2>2, <1>1, <1>2, <1>3, <1>4, <1>5 DEF Nowhere, Window
<1>10. LateShape'
  BY <1>5, LateStays DEF Window, Wrote
<1> QED
  BY <1>6, <1>7, <1>8, <1>9, <1>10

\* A take-back that finds the message in the copy takes it out and asks
\* for a save; one that finds no ledger yet waits for it.
LEMMA TakeBackHolds ==
  ASSUME IInv, NEW m \in Msgs, TakeBack(m)
  PROVE  IInv'
<1> USE DEF IInv
<1>1. /\ Without(memQ, {m}) \in Seq(Msgs) /\ NoDup(Without(memQ, {m}))
      /\ In(Without(memQ, {m})) = In(memQ) \ {m}
      /\ \A x \in Msgs \ {m} :
           Before(Without(memQ, {m}), x) \subseteq Before(memQ, x)
  BY WithoutIs DEF TypeOK, NoTwice
<1>2. takeback[m] # "saving" /\ m \in Msgs
  BY DEF TakeBack
<1>3. /\ takeback' \in [Msgs -> {"none", "waiting", "reading", "writing", "saving",
                            "removed", "running", "gone", "error"}]
      /\ takeback'[m] \in {"running", "reading", "waiting", "gone", "saving"}
      /\ \A x \in Msgs \ {m} : takeback'[x] = takeback[x]
  BY DEF TakeBack, TypeOK
<1>4. IF takeback'[m] = "saving"
      THEN /\ bound /\ m \in In(memQ)
           /\ memQ' \in Seq(Msgs) /\ NoDup(memQ') /\ In(memQ') = In(memQ) \ {m}
           /\ \A x \in Msgs \ {m} : Before(memQ', x) \subseteq Before(memQ, x)
           /\ writes' \in Seq(SaveType)
           /\ In(writes') = In(writes) \cup {<<"takeBack", m>>}
           /\ OneSave(writes') /\ RequeuesFirst(writes')
           /\ at \in {"offer", "offerNext"} => item # m
      ELSE memQ' = memQ /\ writes' = writes
  <2>1. takeback \in [Msgs -> {"none", "waiting", "reading", "writing", "saving",
                               "removed", "running", "gone", "error"}]
    BY DEF TypeOK
  <2>2. CASE takeback'[m] = "saving"
    <3>1. /\ bound /\ m \in In(memQ) /\ memQ' = Without(memQ, {m})
          /\ writes' = Append(writes, <<"takeBack", m>>)
          /\ at \in {"offer", "offerNext"} => item # m
      BY <2>1, <2>2 DEF TakeBack, Live
    <3> QED
      BY <1>1, <1>2, <2>2, <3>1, TakenOut
  <2>3. CASE takeback'[m] # "saving"
    BY <2>1, <2>3 DEF TakeBack
  <2> QED
    BY <2>2, <2>3
<1>5. takeback'[m] = "waiting" => ~bound
  BY DEF TakeBack, TypeOK, Shape, Live, Running
<1>6. /\ at' = at /\ saved' = saved /\ item' = item /\ answer' = answer
      /\ memFlag' = memFlag
  BY DEF TakeBack
<1>7. TypeOK'
  BY <1>3, <1>4, <1>5, <1>6 DEF TakeBack, TypeOK, Running, Live, Answered
<1>8. Shape'
  BY <1>3, <1>4, <1>5, <1>6 DEF TakeBack, Shape, Wrote
<1>9. JobsShape'
  BY <1>3, <1>4, <1>5, <1>6 DEF TakeBack, JobsShape, Wrote, Submits, Doing,
     Awaits
<1>10. WritesShape'
  BY <1>2, <1>3, <1>4, <1>5, <1>6 DEF WritesShape, Wrote, Answered
<1>11. FreshIsNowhere'
  <2> SUFFICES ASSUME NEW y \in Msgs, Fresh(y)' PROVE Nowhere(y)'
    BY DEF FreshIsNowhere
  <2>1. Fresh(y)
    BY DEF TakeBack, Fresh, Doing
  <2>2. Nowhere(y)
    BY <2>1 DEF FreshIsNowhere
  <2> QED
    BY <2>2, <1>1, <1>2, <1>3, <1>4, <1>5, <1>6 DEF Nowhere, TakeBack
<1>12. NoTwice'
  BY <1>3, <1>4, <1>5, <1>6 DEF TakeBack, NoTwice
<1>13. RanIsOver'
  BY <1>3, <1>4, <1>5, <1>6 DEF TakeBack, RanIsOver, Shape, Answered
<1>14. InOrder'
  BY <1>3, <1>4, <1>5, <1>6 DEF InOrder, JobsShape
<1>15. LateShape'
  BY <1>2, <1>3, <1>4, LateStays DEF TakeBack, Fresh, Doing, Wrote
<1> QED
  BY <1>7, <1>8, <1>9, <1>10, <1>11, <1>12, <1>13, <1>14, <1>15

\* A take-back that waited for the ledger looks again.
LEMMA TakeBackResumesHolds ==
  ASSUME IInv, NEW m \in Msgs, TakeBackResumes(m)
  PROVE  IInv'
<1> USE DEF IInv
<1>1. /\ Without(memQ, {m}) \in Seq(Msgs) /\ NoDup(Without(memQ, {m}))
      /\ In(Without(memQ, {m})) = In(memQ) \ {m}
      /\ \A x \in Msgs \ {m} :
           Before(Without(memQ, {m}), x) \subseteq Before(memQ, x)
  BY WithoutIs DEF TypeOK, NoTwice
<1>2. takeback[m] # "saving" /\ m \in Msgs
  BY DEF TakeBackResumes
<1>3. /\ takeback' \in [Msgs -> {"none", "waiting", "reading", "writing", "saving",
                            "removed", "running", "gone", "error"}]
      /\ takeback'[m] \in {"running", "reading", "waiting", "gone", "saving"}
      /\ \A x \in Msgs \ {m} : takeback'[x] = takeback[x]
  BY DEF TakeBackResumes, TypeOK
<1>4. IF takeback'[m] = "saving"
      THEN /\ bound /\ m \in In(memQ)
           /\ memQ' \in Seq(Msgs) /\ NoDup(memQ') /\ In(memQ') = In(memQ) \ {m}
           /\ \A x \in Msgs \ {m} : Before(memQ', x) \subseteq Before(memQ, x)
           /\ writes' \in Seq(SaveType)
           /\ In(writes') = In(writes) \cup {<<"takeBack", m>>}
           /\ OneSave(writes') /\ RequeuesFirst(writes')
           /\ at \in {"offer", "offerNext"} => item # m
      ELSE memQ' = memQ /\ writes' = writes
  <2>1. takeback \in [Msgs -> {"none", "waiting", "reading", "writing", "saving",
                               "removed", "running", "gone", "error"}]
    BY DEF TypeOK
  <2>2. CASE takeback'[m] = "saving"
    <3>1. /\ bound /\ m \in In(memQ) /\ memQ' = Without(memQ, {m})
          /\ writes' = Append(writes, <<"takeBack", m>>)
          /\ at \in {"offer", "offerNext"} => item # m
      BY <2>1, <2>2 DEF TakeBackResumes, JobsShape
    <3> QED
      BY <1>1, <1>2, <2>2, <3>1, TakenOut
  <2>3. CASE takeback'[m] # "saving"
    BY <2>1, <2>3 DEF TakeBackResumes
  <2> QED
    BY <2>2, <2>3
<1>5. takeback'[m] = "waiting" => ~bound
  BY DEF TakeBackResumes, TypeOK, Shape, Live, Running
<1>6. /\ at' = at /\ saved' = saved /\ item' = item /\ answer' = answer
      /\ memFlag' = memFlag
  BY DEF TakeBackResumes
<1>7. TypeOK'
  BY <1>3, <1>4, <1>5, <1>6 DEF TakeBackResumes, TypeOK, Running, Live,
     Answered
<1>8. Shape'
  BY <1>3, <1>4, <1>5, <1>6 DEF TakeBackResumes, Shape, Wrote
<1>9. JobsShape'
  BY <1>3, <1>4, <1>5, <1>6 DEF TakeBackResumes, JobsShape, Wrote, Submits,
     Doing, Awaits
<1>10. WritesShape'
  BY <1>2, <1>3, <1>4, <1>5, <1>6 DEF WritesShape, Wrote, Answered
<1>11. FreshIsNowhere'
  <2> SUFFICES ASSUME NEW y \in Msgs, Fresh(y)' PROVE Nowhere(y)'
    BY DEF FreshIsNowhere
  <2>1. Fresh(y)
    BY DEF TakeBackResumes, Fresh, Doing
  <2>2. Nowhere(y)
    BY <2>1 DEF FreshIsNowhere
  <2> QED
    BY <2>2, <1>1, <1>2, <1>3, <1>4, <1>5, <1>6 DEF Nowhere, TakeBackResumes
<1>12. NoTwice'
  BY <1>3, <1>4, <1>5, <1>6 DEF TakeBackResumes, NoTwice
<1>13. RanIsOver'
  BY <1>3, <1>4, <1>5, <1>6 DEF TakeBackResumes, RanIsOver, Shape, Answered
<1>14. InOrder'
  BY <1>3, <1>4, <1>5, <1>6 DEF InOrder, JobsShape
<1>15. LateShape'
  BY <1>2, <1>3, <1>4, LateStays DEF TakeBackResumes, Fresh, Doing, Wrote
<1> QED
  BY <1>7, <1>8, <1>9, <1>10, <1>11, <1>12, <1>13, <1>14, <1>15

\* What the vendor took and the agent never heard goes to the end of the
\* copy, unmarked, and the chain is asked to save that.
LEMMA UnheardHolds ==
  ASSUME IInv, NEW m \in Msgs, Unheard(m)
  PROVE  IInv'
<1> USE DEF IInv
<1>1. /\ bound /\ at = "ready" /\ saved = "none" /\ tail = <<>>
      /\ m \notin ran /\ ~Fresh(m) /\ ~Wrote("job", None)
      /\ \A x \in Msgs : answer[x] # "sent"
  BY DEF Unheard, Shape, JobsShape, Awaits, RanIsOver, FreshIsNowhere,
       Nowhere, Submits, In
<1>2. answer[m] \in Answered
  BY <1>1 DEF TypeOK, Fresh, Answered
<1>3. /\ memQ' \in Seq(Msgs) /\ NoDup(memQ') /\ In(memQ') = In(memQ) \cup {m}
      /\ memFlag' = memFlag \ {m}
  BY AddedIs DEF Unheard, TypeOK, NoTwice
<1>4. /\ writes' \in Seq(SaveType)
      /\ In(writes') = In(writes) \cup {<<"requeue", m>>}
      /\ OneSave(writes') /\ RequeuesFirst(writes')
  <2> DEFINE e == <<"requeue", m>>
  <2>1. e \in SaveType /\ e[1] = "requeue"
    BY DEF SaveType
  <2>2. writes' = Append(writes, e)
    BY DEF Unheard
  <2> HIDE DEF e
  <2>3. /\ writes' \in Seq(SaveType) /\ In(writes') = In(writes) \cup {e}
        /\ OneSave(writes') /\ RequeuesFirst(writes')
    BY <1>1, <2>1, <2>2, Asked
  <2> QED
    BY <2>3 DEF e
<1>5. /\ turn' = turn /\ bound' = bound /\ tail' = tail /\ at' = at
      /\ answer' = answer
      /\ inTurn' = inTurn \ {m}
      /\ delivered' = delivered \ {m}
  BY DEF Unheard
<1>6. /\ ~Wrote("start", None)' /\ (Wrote("end", None)' => Wrote("end", None))
      /\ Wrote("flush", None)' => Wrote("flush", None)
  BY <1>1, <1>4 DEF Wrote, Shape
<1>7. TypeOK'
  BY <1>3, <1>4, <1>5, <1>6 DEF Unheard, TypeOK, Running, Live, Answered
<1>8. Shape'
  BY <1>3, <1>4, <1>5, <1>6 DEF Unheard, Shape, Wrote
<1>9. JobsShape'
  BY <1>1, <1>3, <1>4, <1>5, <1>6 DEF Unheard, JobsShape, Wrote, Submits,
     Doing, Awaits
<1>10. WritesShape'
  BY <1>2, <1>3, <1>4, <1>5, <1>6 DEF Unheard, WritesShape, Wrote, Answered
<1>11. FreshIsNowhere'
  <2> SUFFICES ASSUME NEW y \in Msgs, Fresh(y)' PROVE Nowhere(y)'
    BY DEF FreshIsNowhere
  <2>1. Fresh(y) /\ y # m
    BY <1>1 DEF Unheard, Fresh, Doing
  <2>2. Nowhere(y)
    BY <2>1 DEF FreshIsNowhere
  <2> QED
    BY <2>2, <1>1, <1>2, <1>3, <1>4, <1>5, <1>6 DEF Nowhere, Unheard
<1>12. NoTwice'
  BY <1>3, <1>4, <1>5, <1>6 DEF Unheard, NoTwice
<1>13. RanIsOver'
  BY <1>3, <1>4, <1>5, <1>6 DEF Unheard, RanIsOver, Shape, Answered
<1>14. InOrder'
  BY <1>1, <1>3, <1>4, <1>5, <1>6 DEF Unheard, InOrder
<1>15. LateShape'
  BY <1>4, <1>5, LateStays DEF Unheard, Fresh, Doing, Wrote
<1> QED
  BY <1>7, <1>8, <1>9, <1>10, <1>11, <1>12, <1>13, <1>14, <1>15

-----------------------------------------------------------------------------
(* The invariant, and what it gives.                                      *)

\* A step that changes nothing keeps the invariant.
LEMMA StutterHolds ==
  ASSUME IInv, UNCHANGED vars
  PROVE  IInv'
<1> USE DEF IInv, vars
<1>1. TypeOK'
  BY DEF TypeOK
<1>2. Shape'
  BY DEF Shape, Wrote
<1>3. JobsShape'
  BY DEF JobsShape, Wrote, Submits, Doing
<1>4. WritesShape'
  BY DEF WritesShape, Wrote
<1>5. FreshIsNowhere'
  BY DEF FreshIsNowhere, Nowhere, Fresh, Doing
<1>6. NoTwice' /\ RanIsOver' /\ InOrder'
  BY DEF NoTwice, RanIsOver, InOrder
<1>7. LateShape'
  BY LateStays DEF Fresh, Doing, Wrote
<1> QED
  BY <1>1, <1>2, <1>3, <1>4, <1>5, <1>6, <1>7

\* Every step keeps the invariant.
LEMMA StepHolds ==
  ASSUME IInv, [Next]_vars
  PROVE  IInv'
<1>1. CASE Jobs
  BY <1>1, StartSubmitHolds, StartDeliverHolds, StartSendNowHolds,
     AfterRecordHolds, AfterRecordNextHolds, AfterQueueHolds, AfterMarkHolds
     DEF Jobs
<1>2. CASE \E m \in Msgs : TakeBackResumes(m)
  BY <1>2, TakeBackResumesHolds
<1>3. CASE TurnSteps
  BY <1>3, ReadCopyHolds, ClaimHolds, BeginFreshHolds, CompleteHolds,
     CountHolds, ReadHeldHolds, EndTurnHolds, ReturnHeldHolds, DiscardHolds,
     ConsumeHolds DEF TurnSteps
<1>4. CASE ~Urgent /\ Vendor
  BY <1>4, PortOpensHolds, WindowHolds, PortClosesHolds, OfferTakenHolds,
     OfferLeftHolds, FinishHolds, UnheardHolds, BreakHolds DEF Vendor
<1>5. CASE ~Urgent /\ People
  <2>1. CASE StartTurn(None)
    BY <2>1, StartTurnHolds
  <2>2. CASE SendQueued
    BY <1>5, <2>2, SendQueuedHolds
  <2>3. ASSUME NEW m \in Msgs,
               \/ Pick(m) \/ DropPick(m) \/ (m \in picked /\ StartTurn(m))
               \/ Type(m) \/ TakeBack(m)
               \/ \E ok \in BOOLEAN : TypeToDisk(m, ok)
        PROVE  IInv'
    BY <2>3, PickHolds, DropPickHolds, StartTurnHolds, TypeHolds,
       TakeBackHolds, TypeToDiskHolds
  <2> QED
    BY <1>5, <2>1, <2>2, <2>3 DEF People
<1>6. CASE \E ok \in BOOLEAN : ChainSaves(ok)
  BY <1>6, SaveStartHolds, SaveJobHolds, SaveEndHolds, SaveFlushHolds,
     SaveTakeBackHolds, SaveRequeueHolds DEF ChainSaves
<1>7. CASE ~Urgent /\ \E m \in Msgs : Commands(m)
  BY <1>7, SubmitRejectedHolds, ReadTakeBackHolds, WriteTakeBackHolds,
     SubmitHolds DEF Commands
<1>8. CASE LateSaves
  BY <1>8, LateSaveHolds DEF LateSaves
<1>9. CASE UNCHANGED vars
  BY <1>9, StutterHolds
<1> QED
  BY <1>1, <1>2, <1>3, <1>4, <1>5, <1>6, <1>7, <1>8, <1>9 DEF Next

\* The invariant holds in every state the turn, its broker, its saves and
\* the people at it can reach, faults included.
THEOREM Invariant == Spec => []IInv
<1>1. Init => IInv
  BY InitHolds
<1>2. IInv /\ [Next]_vars => IInv'
  BY StepHolds
<1> QED
  BY <1>1, <1>2, PTL DEF Spec

\* (TypeOK) The state keeps its shape: the copies of the queue are
\* sequences of messages, the broker's jobs and the chain's saves are of
\* the kinds the code makes.
THEOREM LiveTypes == Spec => []TypeOK
<1>1. IInv => TypeOK
  BY DEF IInv
<1> QED
  BY <1>1, Invariant, PTL

\* (RunOnce) No turn claims a message an earlier turn has claimed: what
\* beginTurn takes off the queue is out of every copy a later one reads,
\* whatever fails.
THEOREM ClaimedOnce == Spec => RunOnce
<1>1. IInv /\ [Next]_vars =>
        [turn = "claiming" /\ turn' = "open" => active \notin ran]_vars
  BY DEF IInv, RanIsOver
<1> QED
  BY <1>1, Invariant, PTL DEF Spec, RunOnce

\* Only an offer the vendor takes puts a message into the turn.
LEMMA EnteredByOffer ==
  ASSUME IInv, Next, NEW m \in inTurn', m \notin inTurn, bound'
  PROVE  OfferTaken /\ m = item /\ pending
<1> USE DEF IInv
<1>1. CASE Jobs
  BY <1>1 DEF Jobs, StartSubmit, StartDeliver, StartSendNow, AfterRecord,
     AfterRecordNext, AfterQueue, AfterMark, QueueIt
<1>2. CASE \E x \in Msgs : TakeBackResumes(x)
  BY <1>2 DEF TakeBackResumes
<1>3. CASE TurnSteps
  <2>1. CASE ReadCopy
    BY <2>1 DEF ReadCopy, Shape
  <2>2. CASE Claim \/ BeginFresh \/ Complete \/ Count \/ ReadHeld
    BY <2>2 DEF Claim, BeginFresh, Complete, Count, ReadHeld
  <2>3. CASE \E ok \in BOOLEAN : ReturnHeld(ok) \/ Discard(ok) \/ Consume(ok)
    BY <2>3 DEF ReturnHeld, Discard, Consume
  <2>4. CASE EndTurn
    BY <2>4 DEF EndTurn
  <2> QED
    BY <1>3, <2>1, <2>2, <2>3, <2>4 DEF TurnSteps
<1>4. CASE Vendor
  <2>1. CASE OfferTaken
    <3>1. CASE pending
      <4>1. inTurn' = inTurn \cup {item}
        BY <2>1, <3>1 DEF OfferTaken, RecordSteer
      <4> QED
        BY <2>1, <3>1, <4>1
    <3>2. CASE ~pending
      BY <2>1, <3>2 DEF OfferTaken
    <3> QED
      BY <3>1, <3>2
  <2>2. CASE PortOpens \/ Window \/ PortCloses \/ OfferLeft \/ Finish
    BY <2>2 DEF PortOpens, Window, PortCloses, OfferLeft, Finish
  <2>3. CASE \E x \in Msgs : Unheard(x)
    BY <2>3 DEF Unheard
  <2>4. CASE \E how \in {"cancelled", "failed"} : Break(how)
    BY <2>4 DEF Break
  <2> QED
    BY <1>4, <2>1, <2>2, <2>3, <2>4 DEF Vendor
<1>5. CASE People
  BY <1>5 DEF People, StartTurn, SendQueued, Pick, DropPick, Type, TakeBack,
     TypeToDisk
<1>6. CASE \E ok \in BOOLEAN : ChainSaves(ok)
  BY <1>6 DEF ChainSaves, SaveStart, SaveJob, SaveEnd, SaveFlush, SaveTakeBack,
     SaveRequeue, StoreOrFail, Store
<1>7. CASE \E x \in Msgs : Commands(x)
  BY <1>7 DEF Commands, SubmitRejected, ReadTakeBack, WriteTakeBack, Submit
<1>8. CASE LateSaves
  BY <1>8 DEF LateSaves, LateSave
<1> QED
  BY <1>1, <1>2, <1>3, <1>4, <1>5, <1>6, <1>7, <1>8 DEF Next

\* (OldestFirst) What enters the turn had nothing marked waiting ahead of
\* it in the turn's queue: the broker's jobs offer the queue in its order,
\* whatever joins or leaves it meanwhile.
THEOREM OldestGoesFirst == Spec => OldestFirst
<1> DEFINE ahead(m) == IF m \in In(memQ)
                       THEN {memQ[i] : i \in {j \in DOMAIN memQ :
                               \A k \in 1..j : memQ[k] # m}}
                       ELSE In(memQ)
<1>1. ASSUME IInv, Next, NEW m \in inTurn' \ inTurn, bound'
      PROVE  ahead(m) \cap memFlag = {}
  <2>1. OfferTaken /\ m = item
    BY <1>1, EnteredByOffer
  <2>2. CASE at = "offer"
    <3>1. In(memQ) \cap memFlag = {}
      BY <1>1, <2>2 DEF IInv, InOrder
    <3>2. ahead(m) \subseteq In(memQ)
      BY DEF In
    <3> QED
      BY <3>1, <3>2
  <2>3. CASE at = "offerNext"
    <3>1. m \in In(memQ) /\ Before(memQ, m) \cap memFlag = {}
      BY <1>1, <2>1, <2>3 DEF IInv, InOrder
    <3> QED
      BY <3>1 DEF Before
  <2> QED
    BY <2>1, <2>2, <2>3 DEF OfferTaken
<1>2. IInv /\ [Next]_vars =>
        [\A m \in inTurn' \ inTurn :
           bound' => ahead(m) \cap memFlag = {}]_vars
  BY <1>1
<1> QED
  BY <1>2, Invariant, PTL DEF Spec, OldestFirst
=============================================================================
