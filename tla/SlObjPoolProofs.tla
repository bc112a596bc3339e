---------------------------- MODULE SlObjPoolProofs ----------------------------
(***************************************************************************)
(* Proofs about SlObjPool, for any number of tasks, objects, sockets and   *)
(* calls.  A list of the pool is a walk along the links; the proofs carry  *)
(* the sequence it visits along with it (Linked), so that no induction     *)
(* over the list is needed.  The invariant is PoolInv.                     *)
(***************************************************************************)
EXTENDS SlObjPool, FiniteSetTheorems, SequenceTheorems, WellFoundedInduction, TLAPS

\* A nonempty set of numbers has a least element.
LEMMA Least ==
  ASSUME NEW T \in SUBSET Nat, T # {}
  PROVE  \E n \in T : \A m \in T : n <= m
<1>1. IsWellFoundedOn(OpToRel(<, Nat), Nat)
  BY NatLessThanWellFounded
<1>2. PICK n \in T : \A m \in T : ~(<<m, n>> \in OpToRel(<, Nat))
  BY <1>1, WFMin
<1>3. \A m \in T : ~(m < n)
  BY <1>2 DEF OpToRel
<1> QED
  BY <1>3

\* s is the list that starts at h in pool p: every element once, each linked to
\* the next, the last to none.
Linked(p, h, s) ==
  /\ s \in Seq(Objects)
  /\ \A j, k \in 1 .. Len(s) : s[j] = s[k] => j = k
  /\ h = IF s = <<>> THEN MAX_CONCURRENT_ACTIONS ELSE s[1]
  /\ \A k \in 1 .. Len(s) :
       p[s[k]].NextIndex = IF k = Len(s) THEN MAX_CONCURRENT_ACTIONS ELSE s[k + 1]

\* A list is no longer than the pool.
LEMMA ShortList ==
  ASSUME NEW s \in Seq(Objects), \A j, k \in 1 .. Len(s) : s[j] = s[k] => j = k
  PROVE  Len(s) <= MAX_CONCURRENT_ACTIONS
<1>1. MAX_CONCURRENT_ACTIONS \in Nat \ {0} /\ Len(s) \in Nat
  BY PoolAssumption
<1>2. /\ IsFiniteSet(Objects) /\ Cardinality(Objects) = MAX_CONCURRENT_ACTIONS
      /\ IsFiniteSet(1 .. Len(s)) /\ Cardinality(1 .. Len(s)) = Len(s)
  <2>1. /\ 0 \in Int /\ MAX_CONCURRENT_ACTIONS - 1 \in Int
        /\ 1 \in Int /\ Len(s) \in Int
    BY <1>1
  <2>2. /\ IsFiniteSet(Objects)
        /\ Cardinality(Objects) = IF 0 > MAX_CONCURRENT_ACTIONS - 1 THEN 0
                                  ELSE MAX_CONCURRENT_ACTIONS - 1 - 0 + 1
    BY <2>1, FS_Interval DEF Objects
  <2>3. /\ IsFiniteSet(1 .. Len(s))
        /\ Cardinality(1 .. Len(s)) = IF 1 > Len(s) THEN 0 ELSE Len(s) - 1 + 1
    BY <2>1, FS_Interval
  <2> QED
    BY <1>1, <2>2, <2>3
<1>3. CASE Len(s) > MAX_CONCURRENT_ACTIONS
  <2>1. s \in [1 .. Len(s) -> Objects]
    OBVIOUS
  <2>2. \E x, y \in 1 .. Len(s) : x # y /\ s[x] = s[y]
    BY <1>1, <1>2, <1>3, <2>1, FS_PigeonHole
  <2> QED
    BY <2>2
<1> QED
  BY <1>1, <1>3

\* The walk is unique, so it visits that sequence.
LEMMA ChainIs ==
  ASSUME NEW p, NEW h, NEW s, Linked(p, h, s)
  PROVE  Chain(p, h) = s
<1> DEFINE M == MAX_CONCURRENT_ACTIONS
           after(i) == IF i \in Objects THEN p[i].NextIndex ELSE M
           Walks(f) == f = [n \in 1 .. M + 1 |-> IF n = 1 THEN h ELSE after(f[n - 1])]
           w == [n \in 1 .. M + 1 |-> IF n <= Len(s) THEN s[n] ELSE M]
           c == CHOOSE f : Walks(f)
<1>1. /\ M \in Nat \ {0} /\ M \notin Objects
      /\ s \in Seq(Objects) /\ Len(s) \in 0 .. M
  BY PoolAssumption, ShortList DEF Linked, Objects
<1>2. Walks(w)
  <2>1. w[1] = h
    BY <1>1 DEF Linked
  <2>2. ASSUME NEW n \in 2 .. M + 1
        PROVE  w[n] = after(w[n - 1])
    <3>1. n - 1 \in 1 .. M + 1
      BY <1>1
    <3>2. CASE n - 1 <= Len(s)
      BY <1>1, <3>1, <3>2 DEF Linked
    <3>3. CASE n - 1 > Len(s)
      BY <1>1, <3>1, <3>3
    <3> QED
      BY <1>1, <3>2, <3>3
  <2>3. ASSUME NEW n \in 1 .. M + 1
        PROVE  w[n] = IF n = 1 THEN h ELSE after(w[n - 1])
    <3>1. CASE n = 1
      BY <2>1, <3>1
    <3>2. CASE n # 1
      <4>1. n \in 2 .. M + 1
        BY <1>1, <3>2
      <4> HIDE DEF w, after
      <4> QED
        BY <2>2, <3>2, <4>1
    <3> QED
      BY <3>1, <3>2
  <2>4. w = [n \in 1 .. M + 1 |-> w[n]]
    OBVIOUS
  <2> HIDE DEF w, after
  <2> QED
    BY <2>3, <2>4
<1>3. Walks(c)
  <2> HIDE DEF Walks, w
  <2> QED
    BY <1>2
<1>4. /\ c[1] = h
      /\ \A n \in 2 .. M + 1 : c[n] = after(c[n - 1])
      /\ w[1] = h
      /\ \A n \in 2 .. M + 1 : w[n] = after(w[n - 1])
      /\ DOMAIN c = 1 .. M + 1
  <2> HIDE DEF c, w, after
  <2> QED
    BY <1>1, <1>2, <1>3
<1>5. \A n \in 1 .. M + 1 : c[n] = w[n]
  <2> DEFINE T == {n \in 1 .. M + 1 : c[n] # w[n]}
  <2> SUFFICES ASSUME T # {} PROVE FALSE
    OBVIOUS
  <2> HIDE DEF c, w, after
  <2>1. T \in SUBSET Nat
    BY <1>1
  <2>2. PICK n \in T : \A m \in T : n <= m
    BY <2>1, Least
  <2>3. n \in 2 .. M + 1 /\ n - 1 \in 1 .. M + 1 /\ n - 1 \notin T
    BY <1>1, <1>4, <2>2
  <2> QED
    BY <1>4, <2>2, <2>3
<1>6. c = w
  <2> HIDE DEF c
  <2>1. c = [n \in 1 .. M + 1 |-> c[n]]
    BY <1>3
  <2> QED
    BY <1>5, <2>1
<1>7. {k \in DOMAIN w : w[k] \in Objects} = 1 .. Len(s)
  BY <1>1
<1>8. Cardinality(1 .. Len(s)) = Len(s)
  <2>1. 1 \in Int /\ Len(s) \in Int
    BY <1>1
  <2>2. Cardinality(1 .. Len(s)) = IF 1 > Len(s) THEN 0 ELSE Len(s) - 1 + 1
    BY <2>1, FS_Interval
  <2> QED
    BY <1>1, <2>2
<1>9. SubSeq(w, 1, Len(s)) = s
  <2>1. w \in Seq(Objects \cup {M}) /\ Len(w) = M + 1
    BY <1>1
  <2> QED
    BY <1>1, <2>1
<1>10. Chain(p, h) = SubSeq(c, 1, Cardinality({k \in DOMAIN c : c[k] \in Objects}))
  BY DEF Chain
<1> QED
  BY <1>6, <1>7, <1>8, <1>9, <1>10
LEMMA Members ==
  ASSUME NEW S, NEW s \in Seq(S)
  PROVE  /\ ToSet(s) = {s[k] : k \in 1 .. Len(s)}
         /\ ToSet(s) \subseteq S
BY DEF ToSet

\* A list is where it was as long as the links of its elements are.
LEMMA Frame ==
  ASSUME NEW p, NEW q, NEW h, NEW s, Linked(p, h, s),
         \A i \in ToSet(s) : q[i].NextIndex = p[i].NextIndex
  PROVE  Linked(q, h, s)
<1>1. s \in Seq(Objects) /\ \A k \in 1 .. Len(s) : s[k] \in ToSet(s)
  BY Members DEF Linked
<1> QED
  BY <1>1 DEF Linked

\* An object put before the head of a list.
LEMMA PushFront ==
  ASSUME NEW p, NEW q, NEW h, NEW s, Linked(p, h, s),
         NEW i \in Objects \ ToSet(s), q[i].NextIndex = h,
         \A j \in ToSet(s) : q[j].NextIndex = p[j].NextIndex
  PROVE  \E r : Linked(q, i, r) /\ ToSet(r) = ToSet(s) \cup {i}
<1> DEFINE r == [k \in 1 .. Len(s) + 1 |-> IF k = 1 THEN i ELSE s[k - 1]]
<1>1. /\ s \in Seq(Objects) /\ Len(s) \in Nat
      /\ \A k \in 1 .. Len(s) : s[k] \in ToSet(s) /\ s[k] \in Objects
      /\ ToSet(s) = {s[k] : k \in 1 .. Len(s)}
  BY Members DEF Linked
<1>2. /\ r \in Seq(Objects) /\ Len(r) = Len(s) + 1 /\ r # <<>>
      /\ r[1] = i
      /\ \A k \in 1 .. Len(s) : r[k + 1] = s[k]
  BY <1>1
<1> HIDE DEF r
<1>3. \A k \in 1 .. Len(r) : k = 1 \/ (k - 1 \in 1 .. Len(s) /\ r[k] = s[k - 1])
  BY <1>1, <1>2
<1>4. ASSUME NEW j \in 1 .. Len(r), NEW k \in 1 .. Len(r), r[j] = r[k]
      PROVE  j = k
  <2>1. \A n \in 1 .. Len(r) : n # 1 => r[n] # i
    BY <1>1, <1>3
  <2>2. CASE j = 1 \/ k = 1
    BY <1>2, <1>4, <2>1, <2>2
  <2>3. CASE j # 1 /\ k # 1
    <3>1. /\ j - 1 \in 1 .. Len(s) /\ k - 1 \in 1 .. Len(s)
          /\ s[j - 1] = s[k - 1]
      BY <1>3, <1>4, <2>3
    <3>2. j - 1 = k - 1
      BY <3>1 DEF Linked
    <3> QED
      BY <1>1, <1>2, <3>2
  <2> QED
    BY <2>2, <2>3
<1>5. ASSUME NEW k \in 1 .. Len(r)
      PROVE  q[r[k]].NextIndex = IF k = Len(r) THEN MAX_CONCURRENT_ACTIONS ELSE r[k + 1]
  <2>1. CASE k = 1
    <3>1. CASE s = <<>>
      BY <1>2, <2>1, <3>1 DEF Linked
    <3>2. CASE s # <<>>
      <4>1. Len(s) >= 1 /\ h = s[1]
        BY <1>1, <3>2 DEF Linked
      <4>2. 1 \in 1 .. Len(s) /\ r[2] = s[1]
        BY <1>1, <1>2, <4>1
      <4> QED
        BY <1>2, <2>1, <4>1, <4>2
    <3> QED
      BY <3>1, <3>2
  <2>2. CASE k # 1
    <3>1. k - 1 \in 1 .. Len(s) /\ r[k] = s[k - 1]
      BY <1>3, <2>2
    <3>2. q[r[k]].NextIndex = IF k - 1 = Len(s) THEN MAX_CONCURRENT_ACTIONS ELSE s[k]
      BY <1>1, <3>1 DEF Linked
    <3>3. k - 1 # Len(s) => k \in 1 .. Len(s) /\ r[k + 1] = s[k]
      BY <1>1, <1>2, <3>1
    <3> QED
      BY <1>1, <1>2, <3>1, <3>2, <3>3
  <2> QED
    BY <2>1, <2>2
<1>6. Linked(q, i, r)
  BY <1>2, <1>4, <1>5 DEF Linked
<1>7. ToSet(r) = {r[k] : k \in 1 .. Len(r)}
  BY <1>2, Members
<1>8. ToSet(r) = ToSet(s) \cup {i}
  <2>1. \A x \in ToSet(r) : x = i \/ x \in ToSet(s)
    BY <1>1, <1>2, <1>3, <1>7
  <2>2. i \in ToSet(r)
    BY <1>1, <1>2, <1>7
  <2>3. ASSUME NEW k \in 1 .. Len(s)
        PROVE  s[k] \in ToSet(r)
    <3>1. k + 1 \in 1 .. Len(r) /\ r[k + 1] = s[k]
      BY <1>1, <1>2
    <3> QED
      BY <1>7, <3>1
  <2> QED
    BY <1>1, <2>1, <2>2, <2>3
<1> QED
  BY <1>6, <1>8

\* The list without element m.
Without(s, m) == [k \in 1 .. Len(s) - 1 |-> IF k < m THEN s[k] ELSE s[k + 1]]

LEMMA WithoutFacts ==
  ASSUME NEW s \in Seq(Objects), \A j, k \in 1 .. Len(s) : s[j] = s[k] => j = k,
         NEW m \in 1 .. Len(s)
  PROVE  /\ Without(s, m) \in Seq(Objects) /\ Len(Without(s, m)) = Len(s) - 1
         /\ \A j, k \in 1 .. Len(s) - 1 : Without(s, m)[j] = Without(s, m)[k] => j = k
         /\ \A k \in 1 .. Len(s) - 1 : Without(s, m)[k] = IF k < m THEN s[k] ELSE s[k + 1]
         /\ ToSet(Without(s, m)) = ToSet(s) \ {s[m]}
<1> DEFINE r == Without(s, m)
<1>1. /\ Len(s) \in Nat /\ Len(s) - 1 \in Nat
      /\ \A k \in 1 .. Len(s) - 1 : k + 1 \in 1 .. Len(s) /\ k \in 1 .. Len(s)
  OBVIOUS
<1>2. /\ r \in Seq(Objects) /\ Len(r) = Len(s) - 1
      /\ \A k \in 1 .. Len(s) - 1 : r[k] = IF k < m THEN s[k] ELSE s[k + 1]
  BY <1>1 DEF Without
<1> HIDE DEF r
<1>3. ASSUME NEW j \in 1 .. Len(s) - 1, NEW k \in 1 .. Len(s) - 1, r[j] = r[k]
      PROVE  j = k
  BY <1>1, <1>2, <1>3
<1>4. ToSet(r) = {r[k] : k \in 1 .. Len(r)} /\ ToSet(s) = {s[k] : k \in 1 .. Len(s)}
  BY <1>2, Members
<1>5. \A k \in 1 .. Len(s) - 1 : r[k] \in ToSet(s) /\ r[k] # s[m]
  BY <1>1, <1>2, <1>4
<1>6. ASSUME NEW k \in 1 .. Len(s), k # m
      PROVE  s[k] \in ToSet(r)
  <2>1. CASE k < m
    <3>1. k \in 1 .. Len(s) - 1 /\ r[k] = s[k]
      BY <1>1, <1>2, <2>1
    <3> QED
      BY <1>2, <1>4, <3>1
  <2>2. CASE k > m
    <3>1. k - 1 \in 1 .. Len(s) - 1 /\ r[k - 1] = s[k]
      BY <1>1, <1>2, <2>2
    <3> QED
      BY <1>2, <1>4, <3>1
  <2> QED
    BY <1>6, <2>1, <2>2
<1>7. ToSet(r) = ToSet(s) \ {s[m]}
  <2>1. \A x \in ToSet(r) : x \in ToSet(s) \ {s[m]}
    BY <1>2, <1>4, <1>5
  <2>2. \A x \in ToSet(s) \ {s[m]} : x \in ToSet(r)
    BY <1>4, <1>6
  <2> QED
    BY <2>1, <2>2
<1> QED
  BY <1>2, <1>3, <1>7 DEF r
\* The head of a list taken off.
LEMMA PopFront ==
  ASSUME NEW p, NEW h \in Objects, NEW s, Linked(p, h, s)
  PROVE  /\ h \in ToSet(s)
         /\ \E r : Linked(p, p[h].NextIndex, r) /\ ToSet(r) = ToSet(s) \ {h}
<1> DEFINE r == Without(s, 1)
<1>1. /\ s \in Seq(Objects) /\ Len(s) >= 1 /\ h = s[1] /\ 1 \in 1 .. Len(s)
      /\ MAX_CONCURRENT_ACTIONS \notin Objects
  BY PoolAssumption DEF Linked, Objects
<1>2. /\ r \in Seq(Objects) /\ Len(r) = Len(s) - 1
      /\ \A j, k \in 1 .. Len(s) - 1 : r[j] = r[k] => j = k
      /\ \A k \in 1 .. Len(s) - 1 : r[k] = s[k + 1]
      /\ ToSet(r) = ToSet(s) \ {h}
  BY <1>1, WithoutFacts DEF Linked
<1> HIDE DEF r
<1>3. h \in ToSet(s)
  BY <1>1, Members
<1>4. p[h].NextIndex = IF r = <<>> THEN MAX_CONCURRENT_ACTIONS ELSE r[1]
  <2>1. p[h].NextIndex = IF 1 = Len(s) THEN MAX_CONCURRENT_ACTIONS ELSE s[2]
    BY <1>1 DEF Linked
  <2>2. r = <<>> <=> Len(s) = 1
    BY <1>1, <1>2
  <2>3. Len(s) # 1 => r[1] = s[2]
    BY <1>1, <1>2
  <2> QED
    BY <2>1, <2>2, <2>3
<1>5. ASSUME NEW k \in 1 .. Len(r)
      PROVE  p[r[k]].NextIndex = IF k = Len(r) THEN MAX_CONCURRENT_ACTIONS ELSE r[k + 1]
  <2>1. k + 1 \in 1 .. Len(s) /\ r[k] = s[k + 1]
    BY <1>1, <1>2
  <2>2. p[s[k + 1]].NextIndex =
          IF k + 1 = Len(s) THEN MAX_CONCURRENT_ACTIONS ELSE s[k + 2]
    BY <1>1, <2>1 DEF Linked
  <2>3. k + 1 # Len(s) => r[k + 1] = s[k + 2]
    BY <1>1, <1>2, <2>1
  <2> QED
    BY <1>1, <1>2, <2>1, <2>2, <2>3
<1> QED
  BY <1>2, <1>3, <1>4, <1>5 DEF Linked

ObjectType == [ActionID : Actions \cup {NoAction}, sd : 0 .. SL_MAX_SOCKETS, v6 : BOOLEAN,
               NextIndex : Indices, pRespArgs : Threads \cup {Nobody}]

\* What the objects hold, their links aside.
SameData(p, q) ==
  \A i \in Objects : /\ q[i].ActionID = p[i].ActionID /\ q[i].sd = p[i].sd
                     /\ q[i].v6 = p[i].v6 /\ q[i].pRespArgs = p[i].pRespArgs


LEMMA IndexRange ==
  /\ MAX_CONCURRENT_ACTIONS \in Nat \ {0} /\ MAX_CONCURRENT_ACTIONS \notin Objects
  /\ Objects \subseteq Indices /\ MAX_CONCURRENT_ACTIONS \in Indices
  /\ \A i \in Indices : i \in Objects \/ i = MAX_CONCURRENT_ACTIONS
BY PoolAssumption DEF Objects, Indices

\* In the middle of a list: the element before is linked to the one after.
LEMMA UnlinkMiddle ==
  ASSUME NEW p \in [Objects -> ObjectType], NEW h, NEW s, Linked(p, h, s),
         NEW m \in 2 .. Len(s)
  PROVE  LET q == [p EXCEPT ![s[m - 1]].NextIndex = p[s[m]].NextIndex]
         IN  /\ Linked(q, h, Without(s, m))
             /\ ToSet(Without(s, m)) = ToSet(s) \ {s[m]}
             /\ q \in [Objects -> ObjectType] /\ SameData(p, q)
             /\ \A j \in Objects \ ToSet(s) : q[j].NextIndex = p[j].NextIndex
<1> DEFINE r == Without(s, m)
           q == [p EXCEPT ![s[m - 1]].NextIndex = p[s[m]].NextIndex]
<1>1. /\ s \in Seq(Objects) /\ Len(s) \in Nat /\ m \in 1 .. Len(s) /\ m - 1 \in 1 .. Len(s)
      /\ \A k \in 1 .. Len(s) : s[k] \in Objects /\ s[k] \in ToSet(s)
      /\ \A j, k \in 1 .. Len(s) : s[j] = s[k] => j = k
  BY Members DEF Linked
<1>2. p[s[m]].NextIndex \in Indices
  BY <1>1 DEF ObjectType
<1>3. /\ q \in [Objects -> ObjectType] /\ SameData(p, q)
      /\ \A j \in Objects : q[j].NextIndex = IF j = s[m - 1] THEN p[s[m]].NextIndex
                                             ELSE p[j].NextIndex
  <2>1. s[m - 1] \in Objects
    BY <1>1
  <2> DEFINE i == s[m - 1]
             n == p[s[m]].NextIndex
  <2>2. q = [p EXCEPT ![i].NextIndex = n]
    OBVIOUS
  <2>3. i \in Objects /\ n \in Indices
    BY <1>2, <2>1
  <2> HIDE DEF i, n, q
  <2>4. /\ q \in [Objects -> ObjectType] /\ SameData(p, q)
        /\ \A j \in Objects : q[j].NextIndex = IF j = i THEN n ELSE p[j].NextIndex
    BY <2>2, <2>3 DEF ObjectType, SameData
  <2> QED
    BY <2>4 DEF i, n
<1>4. /\ r \in Seq(Objects) /\ Len(r) = Len(s) - 1
      /\ \A j, k \in 1 .. Len(s) - 1 : r[j] = r[k] => j = k
      /\ \A k \in 1 .. Len(s) - 1 : r[k] = IF k < m THEN s[k] ELSE s[k + 1]
      /\ ToSet(r) = ToSet(s) \ {s[m]}
  BY <1>1, WithoutFacts
<1> HIDE DEF r, q
<1>5. h = IF r = <<>> THEN MAX_CONCURRENT_ACTIONS ELSE r[1]
  <2>1. s # <<>> /\ h = s[1]
    BY <1>1 DEF Linked
  <2>2. m > 1 /\ 1 \in 1 .. Len(s) - 1
    BY <1>1
  <2>3. r # <<>> /\ r[1] = s[1]
    BY <1>4, <2>2
  <2> QED
    BY <2>1, <2>3
<1>6. \A k \in 1 .. Len(s) :
        p[s[k]].NextIndex = IF k = Len(s) THEN MAX_CONCURRENT_ACTIONS ELSE s[k + 1]
  BY DEF Linked
<1>7. ASSUME NEW k \in 1 .. Len(r)
      PROVE  q[r[k]].NextIndex = IF k = Len(r) THEN MAX_CONCURRENT_ACTIONS ELSE r[k + 1]
  <2>1. CASE k < m - 1
    <3>1. k \in 1 .. Len(s) /\ r[k] = s[k] /\ r[k + 1] = s[k + 1] /\ k # Len(r) /\ k # Len(s)
      <4>1. /\ k \in 1 .. Len(s) - 1 /\ k + 1 \in 1 .. Len(s) - 1 /\ k < m /\ k + 1 < m
            /\ k # Len(s) - 1 /\ k # Len(s)
        BY <1>1, <1>4, <2>1
      <4> QED
        BY <1>4, <4>1
    <3>2. s[k] # s[m - 1]
      BY <1>1, <2>1, <3>1
    <3> QED
      BY <1>1, <1>3, <1>6, <3>1, <3>2
  <2>2. CASE k = m - 1
    <3>1. r[k] = s[m - 1]
      BY <1>1, <1>4, <2>2
    <3>2. q[r[k]].NextIndex = IF m = Len(s) THEN MAX_CONCURRENT_ACTIONS ELSE s[m + 1]
      BY <1>1, <1>3, <1>6, <3>1
    <3>3. k = Len(r) <=> m = Len(s)
      BY <1>1, <1>4, <2>2
    <3>4. m # Len(s) => r[k + 1] = s[m + 1]
      BY <1>1, <1>4, <2>2
    <3> QED
      BY <3>2, <3>3, <3>4
  <2>3. CASE k > m - 1
    <3>1. k + 1 \in 1 .. Len(s) /\ r[k] = s[k + 1]
      BY <1>1, <1>4, <2>3
    <3>2. s[k + 1] # s[m - 1]
      BY <1>1, <2>3, <3>1
    <3>3. q[r[k]].NextIndex = IF k + 1 = Len(s) THEN MAX_CONCURRENT_ACTIONS ELSE s[k + 2]
      BY <1>1, <1>3, <1>6, <3>1, <3>2
    <3>4. k + 1 # Len(s) => r[k + 1] = s[k + 2]
      <4>1. k + 1 # Len(s) => k + 1 \in 1 .. Len(s) - 1 /\ ~ (k + 1 < m) /\ k + 1 + 1 = k + 2
        BY <1>1, <2>3, <3>1
      <4> QED
        BY <1>4, <4>1
    <3> QED
      BY <1>4, <3>3, <3>4
  <2> QED
    BY <1>1, <1>4, <2>1, <2>2, <2>3
<1>8. Linked(q, h, r)
  BY <1>4, <1>5, <1>7 DEF Linked
<1>9. \A j \in Objects \ ToSet(s) : q[j].NextIndex = p[j].NextIndex
  BY <1>1, <1>3
<1> QED
  BY <1>3, <1>4, <1>8, <1>9 DEF r, q
LEMMA MinIs ==
  ASSUME NEW T \in SUBSET Nat, T # {}
  PROVE  Min(T) \in T /\ \A n \in T : Min(T) <= n
BY Least DEF Min

\* _SlRemoveFromList takes the item out of the list it is on, and leaves all
\* other objects where they are.
LEMMA RemoveIs ==
  ASSUME NEW p \in [Objects -> ObjectType], NEW h \in Indices, NEW s, Linked(p, h, s),
         NEW item \in ToSet(s), NEW R, R = RemoveFromList(p, h, item)
  PROVE  /\ \E r : Linked(R.pool, R.head, r) /\ ToSet(r) = ToSet(s) \ {item}
         /\ R.pool \in [Objects -> ObjectType] /\ R.head \in Indices
         /\ SameData(p, R.pool)
         /\ \A j \in Objects \ ToSet(s) : R.pool[j].NextIndex = p[j].NextIndex
<1>1. /\ s \in Seq(Objects) /\ Len(s) \in Nat
      /\ ToSet(s) = {s[k] : k \in 1 .. Len(s)}
      /\ \A j, k \in 1 .. Len(s) : s[j] = s[k] => j = k
      /\ \A k \in 1 .. Len(s) :
           p[s[k]].NextIndex = IF k = Len(s) THEN MAX_CONCURRENT_ACTIONS ELSE s[k + 1]
  BY Members DEF Linked
<1>2. PICK m \in 1 .. Len(s) : s[m] = item
  BY <1>1
<1>3. /\ s # <<>> /\ Len(s) >= 1 /\ 1 \in 1 .. Len(s) /\ h = s[1] /\ h \in Objects
      /\ item \in Objects /\ p[item].NextIndex \in Indices
  BY <1>1, <1>2 DEF Linked, ObjectType
<1>4. SameData(p, p)
  BY DEF SameData
<1>5. CASE p[h].NextIndex = MAX_CONCURRENT_ACTIONS
  <2>1. R = [pool |-> p, head |-> MAX_CONCURRENT_ACTIONS]
    BY <1>5 DEF RemoveFromList
  <2>2. Len(s) = 1
    <3>1. CASE Len(s) # 1
      <4> DEFINE k == 1
      <4>0. k \in 1 .. Len(s) /\ k # Len(s)
        BY <1>1, <1>3, <3>1
      <4> HIDE DEF k
      <4>1. p[s[k]].NextIndex = s[k + 1]
        BY <1>1, <4>0
      <4>2. k + 1 \in 1 .. Len(s)
        BY <1>1, <4>0
      <4>3. p[h].NextIndex = s[k + 1] /\ s[k + 1] \in Objects
        BY <1>1, <1>3, <4>1, <4>2 DEF k
      <4> QED
        BY <1>5, <4>3, IndexRange
    <3> QED
      BY <3>1
  <2>3. ToSet(s) = {item}
    BY <1>1, <1>2, <2>2
  <2>4. Linked(p, MAX_CONCURRENT_ACTIONS, <<>>)
    BY DEF Linked
  <2>5. ToSet(<<>>) = {}
    BY DEF ToSet
  <2>6. R.pool = p /\ R.head = MAX_CONCURRENT_ACTIONS
    BY <2>1
  <2> QED
    BY <1>4, <2>3, <2>4, <2>5, <2>6, IndexRange
<1>6. CASE p[h].NextIndex # MAX_CONCURRENT_ACTIONS /\ h = item
  <2>1. R = [pool |-> p, head |-> p[item].NextIndex]
    BY <1>6 DEF RemoveFromList
  <2>2. \E r : Linked(p, p[item].NextIndex, r) /\ ToSet(r) = ToSet(s) \ {item}
    BY <1>3, <1>6, PopFront
  <2>3. R.pool = p /\ R.head = p[item].NextIndex
    BY <2>1
  <2> QED
    BY <1>3, <1>4, <2>2, <2>3
<1>7. CASE p[h].NextIndex # MAX_CONCURRENT_ACTIONS /\ h # item
  <2>1. m \in 2 .. Len(s) /\ m - 1 \in 1 .. Len(s)
    BY <1>1, <1>2, <1>3, <1>7
  <2> DEFINE wanted == {i \in Objects : p[i].NextIndex = item}
             found == {k \in DOMAIN s : s[k] \in wanted}
             q == [p EXCEPT ![s[m - 1]].NextIndex = p[item].NextIndex]
  <2>2. found = {m - 1}
    <3>1. DOMAIN s = 1 .. Len(s)
      BY <1>1
    <3>2. m - 1 \in found
      <4>1. m - 1 # Len(s) /\ (m - 1) + 1 = m
        BY <1>1, <2>1
      <4>2. p[s[m - 1]].NextIndex = s[(m - 1) + 1]
        BY <1>1, <2>1, <4>1
      <4>3. s[m - 1] \in Objects
        BY <1>1, <2>1
      <4> QED
        BY <1>2, <2>1, <3>1, <4>1, <4>2, <4>3
    <3>3. ASSUME NEW k \in found
          PROVE  k = m - 1
      <4>1. k \in 1 .. Len(s) /\ p[s[k]].NextIndex = item
        BY <3>1
      <4>2. k # Len(s) /\ s[k + 1] = s[m]
        BY <1>1, <1>2, <1>3, <4>1, IndexRange
      <4>3. k + 1 \in 1 .. Len(s)
        BY <1>1, <4>1, <4>2
      <4> QED
        BY <1>1, <4>1, <4>2, <4>3
    <3> QED
      BY <3>2, <3>3
  <2>3. Min(found) = m - 1
    <3> HIDE DEF found
    <3>1. found \in SUBSET Nat /\ found # {}
      BY <1>1, <2>1, <2>2
    <3> QED
      BY <2>2, <3>1, MinIs
  <2>4. First(s, wanted) = s[m - 1]
    <3>1. First(s, wanted)
            = IF found = {} THEN MAX_CONCURRENT_ACTIONS ELSE s[Min(found)]
      BY DEF First
    <3> HIDE DEF found
    <3> QED
      BY <2>2, <2>3, <3>1
  <2>5. s[m - 1] # MAX_CONCURRENT_ACTIONS
    BY <1>1, <2>1, IndexRange
  <2>6. Chain(p, h) = s
    BY ChainIs
  <2>7. R = [pool |-> q, head |-> h]
    <3> HIDE DEF found, q
    <3>1. R = [pool |-> IF First(s, wanted) = MAX_CONCURRENT_ACTIONS THEN p
                        ELSE [p EXCEPT ![First(s, wanted)].NextIndex = p[item].NextIndex],
               head |-> h]
      BY <1>7, <2>6 DEF RemoveFromList
    <3> QED
      BY <2>4, <2>5, <3>1 DEF q
  <2>8. /\ Linked(q, h, Without(s, m))
        /\ ToSet(Without(s, m)) = ToSet(s) \ {item}
        /\ q \in [Objects -> ObjectType] /\ SameData(p, q)
        /\ \A j \in Objects \ ToSet(s) : q[j].NextIndex = p[j].NextIndex
    <3> DEFINE u == [p EXCEPT ![s[m - 1]].NextIndex = p[s[m]].NextIndex]
    <3>1. /\ Linked(u, h, Without(s, m))
          /\ ToSet(Without(s, m)) = ToSet(s) \ {s[m]}
          /\ u \in [Objects -> ObjectType] /\ SameData(p, u)
          /\ \A j \in Objects \ ToSet(s) : u[j].NextIndex = p[j].NextIndex
      BY <2>1, UnlinkMiddle, ZenonT(60)
    <3>2. u = q
      BY <1>2
    <3> HIDE DEF u, q
    <3> QED
      BY <1>2, <3>1, <3>2
  <2> HIDE DEF found, q
  <2>9. R.pool = q /\ R.head = h
    BY <2>7
  <2> QED
    BY <2>8, <2>9
<1> QED
  BY <1>5, <1>6, <1>7

\* A walk along a list visits its elements, each once.
LEMMA ChainOrders ==
  ASSUME NEW p, NEW h, NEW s, Linked(p, h, s)
  PROVE  Chain(p, h) \in SetToSeqs(ToSet(s))
<1>1. /\ s \in Seq(Objects) /\ Len(s) \in Nat
      /\ ToSet(s) = {s[k] : k \in 1 .. Len(s)}
      /\ \A j, k \in 1 .. Len(s) : s[j] = s[k] => j = k
  BY Members DEF Linked
<1>2. s \in [1 .. Len(s) -> ToSet(s)] /\ DOMAIN s = 1 .. Len(s)
  BY <1>1
<1>3. Cardinality(ToSet(s)) = Len(s)
  <2>1. s \in Bijection(1 .. Len(s), ToSet(s))
    BY <1>1, <1>2 DEF Bijection, Injection, Surjection, IsInjective
  <2>2. 1 \in Int /\ Len(s) \in Int
    BY <1>1
  <2>3. /\ IsFiniteSet(1 .. Len(s))
        /\ Cardinality(1 .. Len(s)) = IF 1 > Len(s) THEN 0 ELSE Len(s) - 1 + 1
    BY <2>2, FS_Interval
  <2>4. ExistsBijection(1 .. Len(s), ToSet(s))
    BY <2>1 DEF ExistsBijection
  <2>5. Cardinality(ToSet(s)) = Cardinality(1 .. Len(s))
    BY <2>3, <2>4, FS_Bijection
  <2> QED
    BY <1>1, <2>3, <2>5
<1>4. s \in SetToSeqs(ToSet(s))
  BY <1>1, <1>2, <1>3 DEF SetToSeqs
<1> QED
  BY <1>4, ChainIs

-------------------------------------------------------------------------------
(* The invariant *)

\* How the calls use the pool: data is received on a socket, only receives and
\* host names know IPv6 answers, and a kind of call is on sockets or it is not.
CallKinds ==
  /\ \A o \in Ops : o.action = "RECV" => OnSocket(o)
  /\ \A o \in Ops : o.v6 => o.action \in {"RECV", "GETHOSTBYNAME", "GETHOSTBYSERVICE"}
  /\ \A o, p \in Ops : o.action = p.action => (OnSocket(o) <=> OnSocket(p))

\* Pings are used one at a time and ask for one report.
PlainPings == PingHabits \subseteq {"callback"}

HasObj(t) == pc[t] \notin {"idle", "ping"}
Running(t) == pc[t] \in {"args", "family", "cmd", "wait", "release"}

\* A task has an object from the start of its call to the end, and has it alone.
Owners ==
  /\ \A t \in Threads : ObjIdx[t] \in Objects <=> HasObj(t)
  /\ \A t, u \in Threads : HasObj(t) /\ ObjIdx[t] = ObjIdx[u] => t = u

\* The object says what the call is, and what was set of its arguments so far.
Contents ==
  /\ \A t \in Threads : HasObj(t) =>
       /\ ObjPool[ObjIdx[t]].ActionID = op[t].action
       /\ ObjPool[ObjIdx[t]].sd = op[t].sd
       /\ pc[t] \in {"family", "cmd", "wait", "release"} =>
            ObjPool[ObjIdx[t]].pRespArgs = t
       /\ pc[t] \in {"cmd", "wait", "release"} /\ op[t].v6 /\ op[t].action # "RECV" =>
            ObjPool[ObjIdx[t]].v6
       /\ pc[t] = "family" => op[t].action = "GETHOSTBYSERVICE"
  /\ \A i \in Objects : (\A t \in Threads : ObjIdx[t] # i) => ObjPool[i].sd = SL_MAX_SOCKETS

\* The bits of the active actions are those of the calls that run, and calls
\* that exclude each other do not run together.
Keys ==
  /\ ActiveActionsBitmap = {Key(op[t]) : t \in {u \in Threads : Running(u)}}
  /\ \A t, u \in Threads : Running(t) /\ Running(u) /\ Key(op[t]) = Key(op[u]) => t = u

\* An object is signalled only while its call waits; for its answer, only when that
\* was delivered. An answer that is still to be delivered belongs to a call that
\* waits for it.
Signals ==
  /\ \A i \in Objects : SyncObj[i] =>
       \E t \in Threads : ObjIdx[t] = i /\ pc[t] \in {"pend", "wait"}
  /\ \A t \in Threads :
       /\ pc[t] = "wait" /\ SyncObj[ObjIdx[t]] => answer[t] = t
       /\ answer[t] = t => pc[t] \in {"wait", "release"}
       /\ pc[t] = "release" /\ op[t].action = "RECV" => answer[t] = t
  /\ \A m \in asked \cup {rx} : m.by \in Threads =>
       pc[m.by] = "wait" /\ op[m.by] = m.op /\ answer[m.by] # m.by
  /\ rx.by \in Threads => ActionIndex = ObjIdx[rx.by] /\ rx \notin asked
  /\ ~ ProtectionLost

\* The ping of a task, and the reports under way.
InPing(u) == pc[u] = "ping" \/ (HasObj(u) /\ op[u].action = "PING")
Reports == {m \in asked \cup ({rx} \ {NoMsg}) : m.op.action = "PING"}

\* One ping is made at a time, and the callback is set if it is to have the report.
Pings ==
  /\ \A t, u \in Threads : InPing(t) /\ InPing(u) => t = u
  /\ \A m \in Reports, u \in Threads : InPing(u) => m.by = u
  /\ \A m \in Reports : m.by = Nobody => pPingCallBackFunc
  /\ \A u \in Threads :
       /\ pc[u] = "ping" => pPingCallBackFunc
       /\ op[u].action = "PING" /\ pc[u] \in {"cmd", "wait", "release"} => ~ pPingCallBackFunc

Lists ==
  \E free, active, pending \in Seq(Objects) :
    /\ Linked(ObjPool, FreePoolIdx, free)
    /\ Linked(ObjPool, ActivePoolIdx, active)
    /\ Linked(ObjPool, PendingPoolIdx, pending)
    /\ ToSet(active) = Holders
    /\ ToSet(pending) = Waiters
    /\ ToSet(free) = Objects \ (Holders \cup Waiters \cup Travellers)

PoolInv == TypeOK /\ Owners /\ Contents /\ Keys /\ Signals /\ Pings /\ Lists

LEMMA ListsAreOrders == Lists => ListsPartition
BY ChainOrders DEF Lists, ListsPartition

-------------------------------------------------------------------------------
(* Steps that leave the lists alone *)

\* What such a step keeps.
LEMMA KeepLists ==
  ASSUME Owners, Keys, Lists,
         UNCHANGED <<op, ObjIdx, FreePoolIdx, ActivePoolIdx, PendingPoolIdx,
                     ActiveActionsBitmap>>,
         \A i \in Objects : ObjPool'[i].NextIndex = ObjPool[i].NextIndex,
         \A u \in Threads :
           /\ HasObj(u)' <=> HasObj(u)
           /\ Running(u)' <=> Running(u)
           /\ InTransit(u)' <=> InTransit(u)
           /\ (pc[u] = "pend" /\ ~ InTransit(u))' <=> pc[u] = "pend" /\ ~ InTransit(u)
  PROVE  Owners' /\ Keys' /\ Lists'
<1>1. Owners' /\ Keys'
  BY DEF Owners, Keys
<1>2. Holders' = Holders /\ Waiters' = Waiters /\ Travellers' = Travellers
  BY DEF Holders, Waiters, Travellers, Running
<1>3. PICK free, active, pending \in Seq(Objects) :
    /\ Linked(ObjPool, FreePoolIdx, free)
    /\ Linked(ObjPool, ActivePoolIdx, active)
    /\ Linked(ObjPool, PendingPoolIdx, pending)
    /\ ToSet(active) = Holders
    /\ ToSet(pending) = Waiters
    /\ ToSet(free) = Objects \ (Holders \cup Waiters \cup Travellers)
  BY DEF Lists
<1>4. \A s \in Seq(Objects) : ToSet(s) \subseteq Objects
  BY Members
<1>5. /\ Linked(ObjPool', FreePoolIdx', free)
      /\ Linked(ObjPool', ActivePoolIdx', active)
      /\ Linked(ObjPool', PendingPoolIdx', pending)
  BY <1>3, <1>4, Frame
<1>6. Lists'
  BY <1>2, <1>3, <1>5 DEF Lists
<1> QED
  BY <1>1, <1>6

-------------------------------------------------------------------------------
(* The lookup of an answer *)

\* The object of a call that waits matches its answer, once the IPv6 bit is
\* cleared for it.
LEMMA MatchesOwn ==
  ASSUME CallKinds, TypeOK, Owners, Contents, NEW t \in Threads, pc[t] = "wait",
         NEW v \in BOOLEAN, v => op[t].v6 /\ ~ ObjPool[ObjIdx[t]].v6
  PROVE  Matches(ObjIdx[t], [action |-> op[t].action, v6 |-> v], op[t].sd)
<1>1. /\ op[t] \in Ops /\ ObjPool[ObjIdx[t]].ActionID = op[t].action
      /\ ObjPool[ObjIdx[t]].sd = op[t].sd
      /\ op[t].v6 /\ op[t].action # "RECV" => ObjPool[ObjIdx[t]].v6
  BY DEF TypeOK, Contents, HasObj
<1>2. CASE op[t].action = "RECV"
  BY <1>1, <1>2 DEF Matches
<1>3. CASE op[t].action # "RECV"
  <2>1. v = FALSE
    BY <1>1, <1>3
  <2> QED
    BY <1>1, <1>3, <2>1 DEF Matches, ActionAsyncOpcode
<1> QED
  BY <1>2, <1>3

\* Of the calls that run only one that would exclude the call of m matches the
\* answer to it, whatever the word behind the table is.
LEMMA MatchesOnly ==
  ASSUME CallKinds, TypeOK, Contents, NEW u \in Threads, Running(u),
         NEW o \in Ops \cup {Ping}, NEW v \in BOOLEAN,
         Matches(ObjIdx[u], [action |-> o.action, v6 |-> v], o.sd)
  PROVE  IF o \in Ops THEN Key(op[u]) = Key(o) ELSE op[u].action = "PING"
<1>1. /\ op[u] \in Ops /\ ObjPool[ObjIdx[u]].ActionID = op[u].action
      /\ ObjPool[ObjIdx[u]].sd = op[u].sd
  BY DEF TypeOK, Contents, HasObj, Running
<1>2. Ping.action = "PING" /\ Ping.sd = SL_MAX_SOCKETS
  BY DEF Ping
<1>3. SL_MAX_SOCKETS \in Nat /\ op[u].sd \in 0 .. SL_MAX_SOCKETS
  BY <1>1, PoolAssumption
<1>4. CASE op[u].action = "RECV"
  <2>1. OnSocket(op[u]) /\ OnSocket(ObjPool[ObjIdx[u]])
    BY <1>1, <1>4 DEF CallKinds, OnSocket
  <2>2. op[u].sd = o.sd
    BY <1>1, <2>1 DEF Matches
  <2>3. OnSocket(o)
    BY <2>1, <2>2 DEF OnSocket
  <2>4. o \in Ops
    BY <1>2, <1>3, <2>3 DEF OnSocket
  <2> QED
    BY <2>1, <2>2, <2>3, <2>4 DEF Key
<1>5. CASE op[u].action # "RECV"
  <2>1. [action |-> op[u].action, v6 |-> FALSE] = [action |-> o.action, v6 |-> v]
    BY <1>1, <1>5 DEF Matches, ActionAsyncOpcode
  <2>2. op[u].action = o.action
    BY <2>1
  <2>3. CASE o \in Ops
    <3>1. OnSocket(op[u]) <=> OnSocket(o)
      BY <1>1, <2>2, <2>3 DEF CallKinds
    <3>2. OnSocket(op[u]) => op[u].sd = o.sd
      BY <1>1, <1>5 DEF Matches, OnSocket
    <3> QED
      BY <2>2, <2>3, <3>1, <3>2 DEF Key
  <2>4. CASE o \notin Ops
    BY <1>2, <2>2, <2>4
  <2> QED
    BY <2>3, <2>4
<1> QED
  BY <1>4, <1>5

\* The opcode as the lookup has it at the k-th object of the list.
Seen(opcode, active, k) ==
  [opcode EXCEPT !.v6 = @ /\ ~ \E j \in 1 .. k : ObjPool[active[j]].v6]

LEMMA SeenIs ==
  ASSUME NEW o, o.v6 \in BOOLEAN, NEW active, NEW k \in Nat
  PROVE  \E v \in BOOLEAN :
           /\ Seen(AsyncOpcode(o), active, k) = [action |-> o.action, v6 |-> v]
           /\ v => o.v6
           /\ k >= 1 => (v => ~ ObjPool[active[k]].v6)
<1> DEFINE v == o.v6 /\ ~ \E j \in 1 .. k : ObjPool[active[j]].v6
<1>1. Seen(AsyncOpcode(o), active, k) = [action |-> o.action, v6 |-> v]
  BY DEF Seen, AsyncOpcode
<1>2. v \in BOOLEAN /\ (v => o.v6) /\ (k >= 1 => (v => ~ ObjPool[active[k]].v6))
  OBVIOUS
<1> QED
  BY <1>1, <1>2

\* The lookup finds the only object that matches, or none.
LEMMA Lookup ==
  ASSUME NEW opcode, NEW sd, NEW active, Linked(ObjPool, ActivePoolIdx, active)
  PROVE  /\ (\A k \in 1 .. Len(active) : ~ Matches(active[k], Seen(opcode, active, k), sd))
              => FindActiveObj(opcode, sd) = MAX_CONCURRENT_ACTIONS
         /\ \A n \in 1 .. Len(active) :
              (\A k \in 1 .. Len(active) :
                 Matches(active[k], Seen(opcode, active, k), sd) <=> k = n)
              => FindActiveObj(opcode, sd) = active[n]
<1> DEFINE found == {k \in DOMAIN active : Matches(active[k], Seen(opcode, active, k), sd)}
<1>1. /\ Chain(ObjPool, ActivePoolIdx) = active
      /\ Len(active) \in Nat /\ DOMAIN active = 1 .. Len(active)
  BY ChainIs DEF Linked
<1>2. FindActiveObj(opcode, sd) =
        IF found = {} THEN MAX_CONCURRENT_ACTIONS ELSE active[Min(found)]
  BY <1>1 DEF FindActiveObj, Seen
<1>3. \A k : k \in found <=> k \in 1 .. Len(active)
                             /\ Matches(active[k], Seen(opcode, active, k), sd)
  BY <1>1
<1> HIDE DEF found
<1>4. ASSUME NEW n \in 1 .. Len(active),
             \A k \in 1 .. Len(active) :
               Matches(active[k], Seen(opcode, active, k), sd) <=> k = n
      PROVE  FindActiveObj(opcode, sd) = active[n]
  <2>1. found \in SUBSET Nat /\ n \in found /\ \A k \in found : k = n
    BY <1>1, <1>3, <1>4
  <2>2. Min(found) = n
    BY <2>1, MinIs
  <2> QED
    BY <1>2, <2>1, <2>2
<1>5. ASSUME \A k \in 1 .. Len(active) : ~ Matches(active[k], Seen(opcode, active, k), sd)
      PROVE  FindActiveObj(opcode, sd) = MAX_CONCURRENT_ACTIONS
  BY <1>2, <1>3, <1>5
<1> QED
  BY <1>4, <1>5

LEMMA RunningHolds ==
  ASSUME NEW i \in Holders
  PROVE  \E u \in Threads : Running(u) /\ i = ObjIdx[u]
BY DEF Holders, Running

\* The answer to a call finds the object of that call.
LEMMA FindsOwn ==
  ASSUME CallKinds, PoolInv, NEW m \in asked, m.by \in Threads
  PROVE  FindActiveObj(AsyncOpcode(m.op), m.op.sd) = ObjIdx[m.by]
<1> USE DEF PoolInv
<1> DEFINE t == m.by
           o == m.op
<1>1. /\ t \in Threads /\ pc[t] = "wait" /\ o = op[t] /\ o \in Ops
      /\ o.v6 \in BOOLEAN
  BY PoolAssumption DEF Signals, TypeOK
<1>2. PICK active \in Seq(Objects) :
        Linked(ObjPool, ActivePoolIdx, active) /\ ToSet(active) = Holders
  BY DEF Lists
<1>3. /\ Len(active) \in Nat
      /\ Holders = {active[k] : k \in 1 .. Len(active)}
      /\ \A j, k \in 1 .. Len(active) : active[j] = active[k] => j = k
  BY <1>2, Members DEF Linked
<1> HIDE DEF t, o
<1>4. ObjIdx[t] \in Holders
  BY <1>1 DEF Holders
<1>5. PICK n \in 1 .. Len(active) : active[n] = ObjIdx[t]
  BY <1>3, <1>4
<1>6. Matches(active[n], Seen(AsyncOpcode(o), active, n), o.sd)
  <2>1. PICK v \in BOOLEAN :
          /\ Seen(AsyncOpcode(o), active, n) = [action |-> o.action, v6 |-> v]
          /\ v => o.v6
          /\ v => ~ ObjPool[active[n]].v6
    BY <1>1, SeenIs
  <2> QED
    BY <1>1, <1>5, <2>1, MatchesOwn
<1>7. ASSUME NEW k \in 1 .. Len(active),
             Matches(active[k], Seen(AsyncOpcode(o), active, k), o.sd)
      PROVE  k = n
  <2>1. PICK v \in BOOLEAN :
          Seen(AsyncOpcode(o), active, k) = [action |-> o.action, v6 |-> v]
    BY <1>1, SeenIs
  <2>2. PICK u \in Threads : Running(u) /\ active[k] = ObjIdx[u]
    BY <1>3, RunningHolds
  <2>3. Matches(ObjIdx[u], [action |-> o.action, v6 |-> v], o.sd)
    BY <1>7, <2>1, <2>2
  <2>4. Key(op[u]) = Key(o)
    BY <1>1, <2>2, <2>3, MatchesOnly
  <2>5. u = t
    BY <1>1, <2>2, <2>4 DEF Keys, Running
  <2> QED
    BY <1>3, <1>5, <2>2, <2>5
<1>8. FindActiveObj(AsyncOpcode(o), o.sd) = active[n]
  BY <1>2, <1>6, <1>7, Lookup
<1> QED
  BY <1>5, <1>8 DEF t, o

\* The report of a ping that no call waits for finds none.
LEMMA PingFindsNone ==
  ASSUME CallKinds, PoolInv, NEW m \in asked, m.by \notin Threads
  PROVE  /\ m.op = Ping
         /\ FindActiveObj(AsyncOpcode(m.op), m.op.sd) = MAX_CONCURRENT_ACTIONS
<1> USE DEF PoolInv
<1>1. /\ m.by = Nobody /\ m.op = Ping
      /\ Ping.action = "PING" /\ Ping.v6 \in BOOLEAN
  BY DEF TypeOK, Ping
<1>2. m \in Reports
  BY <1>1 DEF Reports
<1>3. \A u \in Threads : Running(u) => op[u].action # "PING"
  BY <1>1, <1>2, PoolAssumption DEF Pings, InPing, Running, HasObj
<1>4. PICK active \in Seq(Objects) :
        Linked(ObjPool, ActivePoolIdx, active) /\ ToSet(active) = Holders
  BY DEF Lists
<1>5. Len(active) \in Nat /\ Holders = {active[k] : k \in 1 .. Len(active)}
  BY <1>4, Members
<1>6. ASSUME NEW k \in 1 .. Len(active),
             Matches(active[k], Seen(AsyncOpcode(Ping), active, k), Ping.sd)
      PROVE  FALSE
  <2>1. PICK v \in BOOLEAN :
          Seen(AsyncOpcode(Ping), active, k) = [action |-> Ping.action, v6 |-> v]
    BY <1>1, <1>5, SeenIs
  <2>2. PICK u \in Threads : Running(u) /\ active[k] = ObjIdx[u]
    BY <1>5, RunningHolds
  <2>3. Matches(ObjIdx[u], [action |-> Ping.action, v6 |-> v], Ping.sd)
    BY <1>6, <2>1, <2>2
  <2>4. IF Ping \in Ops THEN Key(op[u]) = Key(Ping) ELSE op[u].action = "PING"
    BY <2>2, <2>3, MatchesOnly
  <2>5. op[u].action = "PING"
    <3>1. op[u].sd \in 0 .. SL_MAX_SOCKETS /\ Ping.sd = SL_MAX_SOCKETS /\ SL_MAX_SOCKETS \in Nat
      BY PoolAssumption DEF TypeOK, Ping
    <3>2. ~ OnSocket(Ping)
      BY <3>1 DEF OnSocket
    <3>3. Key(Ping) = <<"action", "PING">>
      BY <1>1, <3>2 DEF Key
    <3>4. CASE Key(op[u]) = Key(Ping)
      BY <3>3, <3>4 DEF Key
    <3> QED
      BY <2>4, <3>4
  <2> QED
    BY <1>3, <2>2, <2>5
<1>7. FindActiveObj(AsyncOpcode(Ping), Ping.sd) = MAX_CONCURRENT_ACTIONS
  BY <1>4, <1>6, Lookup
<1> QED
  BY <1>1, <1>7

LEMMA AnswersFind ==
  ASSUME CallKinds, PoolInv
  PROVE  AnswerFindsItsCall
<1> USE DEF PoolInv
<1>1. ASSUME NEW m \in asked, m.by # Nobody
      PROVE  FindActiveObj(AsyncOpcode(m.op), m.op.sd) = ObjIdx[m.by]
  <2>1. m.by \in Threads
    BY <1>1 DEF TypeOK
  <2> QED
    BY <2>1, FindsOwn
<1>2. CASE rx # NoMsg
  <2>1. rx \in [by : Threads, op : Ops] \cup [by : {Nobody}, op : {Ping}]
    BY <1>2 DEF TypeOK
  <2>2. rx.by # Nobody => ActionIndex = ObjIdx[rx.by] /\ ObjPool[ActionIndex].pRespArgs = rx.by
    BY <2>1 DEF Signals, Contents, HasObj
  <2>3. rx.op.action = "PING" => (pPingCallBackFunc <=> rx.by = Nobody)
    <3>1. rx.op.action = "PING" => rx \in Reports
      BY <1>2 DEF Reports
    <3>2. rx.op.action = "PING" /\ rx.by \in Threads => ~ pPingCallBackFunc
      BY DEF Signals, Pings
    <3> QED
      BY <2>1, <3>1, <3>2 DEF Pings
  <2> QED
    BY <1>1, <2>2, <2>3 DEF AnswerFindsItsCall
<1> QED
  BY <1>1, <1>2 DEF AnswerFindsItsCall

-------------------------------------------------------------------------------
(* The steps that leave the lists alone *)

LEMMA StartsFromOps == (CHOOSE o \in Ops : TRUE) \in Ops
BY PoolAssumption

LEMMA PendWakeStep ==
  ASSUME PoolInv, NEW t \in Threads, PendWake(t)
  PROVE  PoolInv'
<1> USE DEF PoolInv
<1>1. /\ pc[t] = "pend" /\ pc' = [pc EXCEPT ![t] = "again"]
      /\ SyncObj[ObjIdx[t]] /\ SyncObj' = [SyncObj EXCEPT ![ObjIdx[t]] = FALSE]
      /\ UNCHANGED <<op, ObjIdx, calls, lists, ProtectionLost, asked, ping, rx, ActionIndex,
                     answer, OobOpcode>>
      /\ ObjIdx[t] \in Objects
  BY DEF PendWake, Goto, Owners, HasObj
<1>2. /\ pc'[t] = "again" /\ \A u \in Threads \ {t} : pc'[u] = pc[u]
      /\ SyncObj'[ObjIdx[t]] = FALSE
      /\ \A i \in Objects \ {ObjIdx[t]} : SyncObj'[i] = SyncObj[i]
      /\ \A u \in Threads \ {t} : HasObj(u) => ObjIdx[u] # ObjIdx[t] /\ ObjIdx[u] \in Objects
  BY <1>1 DEF TypeOK, Owners, HasObj
<1>3. TypeOK'
  BY <1>1 DEF TypeOK, lists, ping
<1>4. Owners' /\ Keys' /\ Lists'
  BY <1>1, <1>2, KeepLists DEF lists, HasObj, Running, InTransit
<1>5. Contents'
  BY <1>1, <1>2 DEF Contents, HasObj, lists
<1>6. Signals'
  BY <1>1, <1>2 DEF Signals, HasObj
<1>7. Pings'
  BY <1>1, <1>2 DEF Pings, InPing, HasObj, Reports, ping
<1> QED
  BY <1>3, <1>4, <1>5, <1>6, <1>7

LEMMA SetArgsStep ==
  ASSUME CallKinds, PoolInv, NEW t \in Threads, SetArgs(t)
  PROVE  PoolInv'
<1> USE DEF PoolInv
<1> DEFINE to == IF op[t].action = "GETHOSTBYSERVICE" THEN "family" ELSE "cmd"
           i == ObjIdx[t]
           v == ObjPool[i].v6 \/ (op[t].action = "GETHOSTBYNAME" /\ op[t].v6)
<1>1. /\ pc[t] = "args" /\ pc' = [pc EXCEPT ![t] = to] /\ i \in Objects
      /\ ObjPool' = [ObjPool EXCEPT ![i] = [@ EXCEPT !.pRespArgs = t, !.v6 = v]]
      /\ pPingCallBackFunc' = (pPingCallBackFunc /\ op[t].action # "PING")
      /\ UNCHANGED <<op, ObjIdx, calls, FreePoolIdx, ActivePoolIdx, PendingPoolIdx,
                     ActiveActionsBitmap, SyncObj, ProtectionLost, asked, rx,
                     ActionIndex, answer, OobOpcode>>
  BY DEF SetArgs, Goto, Owners, HasObj, TypeOK
<1>2. op[t] \in Ops /\ v \in BOOLEAN /\ to \in {"family", "cmd"}
  BY <1>1, PoolAssumption DEF TypeOK
<1>3. /\ pc'[t] = to /\ \A u \in Threads \ {t} : pc'[u] = pc[u]
      /\ \A j \in Objects \ {i} : ObjPool'[j] = ObjPool[j]
      /\ ObjPool'[i] = [ObjPool[i] EXCEPT !.pRespArgs = t, !.v6 = v]
      /\ \A u \in Threads \ {t} : HasObj(u) => ObjIdx[u] # i /\ ObjIdx[u] \in Objects
  BY <1>1 DEF TypeOK, Owners, HasObj
<1>4. /\ ObjPool'[i].pRespArgs = t /\ ObjPool'[i].v6 = v
      /\ ObjPool'[i].ActionID = ObjPool[i].ActionID /\ ObjPool'[i].sd = ObjPool[i].sd
      /\ ObjPool'[i].NextIndex = ObjPool[i].NextIndex
  BY <1>1, <1>3 DEF TypeOK
<1>5. op[t].v6 /\ to = "cmd" /\ op[t].action # "RECV" => v
  BY <1>2 DEF CallKinds
<1>6. to = "family" => op[t].action = "GETHOSTBYSERVICE"
  OBVIOUS
<1> HIDE DEF to, v, i
<1>7. TypeOK'
  <2>1. ObjPool[i] \in [ActionID : Actions \cup {NoAction},
                        sd : 0 .. SL_MAX_SOCKETS, v6 : BOOLEAN,
                        NextIndex : Indices, pRespArgs : Threads \cup {Nobody}]
    BY <1>1 DEF TypeOK
  <2>2. ObjPool'[i] \in [ActionID : Actions \cup {NoAction},
                         sd : 0 .. SL_MAX_SOCKETS, v6 : BOOLEAN,
                         NextIndex : Indices, pRespArgs : Threads \cup {Nobody}]
    BY <1>2, <1>3, <2>1
  <2> QED
    BY <1>1, <1>2, <1>3, <2>2 DEF TypeOK
<1>8. Owners' /\ Keys' /\ Lists'
  <2>1. \A j \in Objects : ObjPool'[j].NextIndex = ObjPool[j].NextIndex
    BY <1>3, <1>4
  <2> QED
    BY <1>1, <1>2, <1>3, <2>1, KeepLists DEF HasObj, Running, InTransit
<1>9. Contents'
  <2>1. \A u \in Threads : (HasObj(u) <=> HasObj(u)')
    BY <1>1, <1>2, <1>3 DEF HasObj
  <2>2. ASSUME NEW u \in Threads, HasObj(u)'
        PROVE  /\ ObjPool'[ObjIdx[u]].ActionID = op[u].action
               /\ ObjPool'[ObjIdx[u]].sd = op[u].sd
               /\ pc'[u] \in {"family", "cmd", "wait", "release"} =>
                    ObjPool'[ObjIdx[u]].pRespArgs = u
               /\ pc'[u] \in {"cmd", "wait", "release"} /\ op[u].v6 /\ op[u].action # "RECV" =>
                    ObjPool'[ObjIdx[u]].v6
               /\ pc'[u] = "family" => op[u].action = "GETHOSTBYSERVICE"
    <3>1. CASE u = t
      BY <1>1, <1>2, <1>3, <1>4, <1>5, <1>6, <2>1, <2>2, <3>1 DEF Contents, i
    <3>2. CASE u # t
      BY <1>3, <2>1, <2>2, <3>2 DEF Contents
    <3> QED
      BY <3>1, <3>2
  <2>3. \A j \in Objects : ObjPool'[j].sd = ObjPool[j].sd
    BY <1>3, <1>4
  <2> QED
    BY <1>1, <2>2, <2>3 DEF Contents
<1>10. Signals'
  BY <1>1, <1>2, <1>3 DEF Signals
<1>11. Pings'
  <2>1. \A u \in Threads : InPing(u) <=> InPing(u)'
    BY <1>1, <1>2, <1>3 DEF InPing, HasObj
  <2>2. Reports' = Reports
    BY <1>1 DEF Reports
  <2>3. CASE op[t].action = "PING"
    <3>1. InPing(t) /\ pPingCallBackFunc' = FALSE
      BY <1>1, <2>3 DEF InPing, HasObj
    <3>2. \A u \in Threads : pc'[u] # "ping"
      BY <1>2, <1>3, <3>1 DEF Pings, InPing
    <3>3. \A m \in Reports : m.by # Nobody
      BY <3>1, PoolAssumption DEF Pings
    <3> QED
      BY <1>1, <2>1, <2>2, <3>1, <3>2, <3>3 DEF Pings
  <2>4. CASE op[t].action # "PING"
    <3>1. pPingCallBackFunc' = pPingCallBackFunc
      BY <1>1, <2>4 DEF TypeOK
    <3> QED
      BY <1>1, <1>2, <1>3, <2>1, <2>2, <2>4, <3>1 DEF Pings
  <2> QED
    BY <2>3, <2>4
<1> QED
  BY <1>7, <1>8, <1>9, <1>10, <1>11

LEMMA SetFamilyStep ==
  ASSUME PoolInv, NEW t \in Threads, SetFamily(t)
  PROVE  PoolInv'
<1> USE DEF PoolInv
<1> DEFINE i == ObjIdx[t]
           v == ObjPool[i].v6 \/ op[t].v6
<1>1. /\ pc[t] = "family" /\ pc' = [pc EXCEPT ![t] = "cmd"] /\ i \in Objects
      /\ ObjPool' = [ObjPool EXCEPT ![i] = [@ EXCEPT !.v6 = v]]
      /\ UNCHANGED <<op, ObjIdx, calls, FreePoolIdx, ActivePoolIdx, PendingPoolIdx,
                     ActiveActionsBitmap, SyncObj, ProtectionLost, asked, ping, rx,
                     ActionIndex, answer, OobOpcode>>
  BY DEF SetFamily, Goto, Owners, HasObj, TypeOK
<1>2. op[t] \in Ops /\ v \in BOOLEAN /\ (op[t].v6 => v) /\ op[t].action # "PING"
  BY <1>1, PoolAssumption DEF TypeOK, Contents, HasObj
<1>3. /\ pc'[t] = "cmd" /\ \A u \in Threads \ {t} : pc'[u] = pc[u]
      /\ \A j \in Objects \ {i} : ObjPool'[j] = ObjPool[j]
      /\ ObjPool'[i] = [ObjPool[i] EXCEPT !.v6 = v]
      /\ \A u \in Threads \ {t} : HasObj(u) => ObjIdx[u] # i /\ ObjIdx[u] \in Objects
  BY <1>1 DEF TypeOK, Owners, HasObj
<1>4. /\ ObjPool'[i].pRespArgs = ObjPool[i].pRespArgs /\ ObjPool'[i].v6 = v
      /\ ObjPool'[i].ActionID = ObjPool[i].ActionID /\ ObjPool'[i].sd = ObjPool[i].sd
      /\ ObjPool'[i].NextIndex = ObjPool[i].NextIndex
  BY <1>1, <1>3 DEF TypeOK
<1> HIDE DEF v, i
<1>7. TypeOK'
  <2>1. ObjPool[i] \in [ActionID : Actions \cup {NoAction},
                        sd : 0 .. SL_MAX_SOCKETS, v6 : BOOLEAN,
                        NextIndex : Indices, pRespArgs : Threads \cup {Nobody}]
    BY <1>1 DEF TypeOK
  <2>2. ObjPool'[i] \in [ActionID : Actions \cup {NoAction},
                         sd : 0 .. SL_MAX_SOCKETS, v6 : BOOLEAN,
                         NextIndex : Indices, pRespArgs : Threads \cup {Nobody}]
    BY <1>2, <1>3, <2>1
  <2> QED
    BY <1>1, <1>2, <1>3, <2>2 DEF TypeOK, ping
<1>8. Owners' /\ Keys' /\ Lists'
  <2>1. \A j \in Objects : ObjPool'[j].NextIndex = ObjPool[j].NextIndex
    BY <1>3, <1>4
  <2> QED
    BY <1>1, <1>2, <1>3, <2>1, KeepLists DEF HasObj, Running, InTransit
<1>9. Contents'
  <2>1. \A u \in Threads : (HasObj(u) <=> HasObj(u)')
    BY <1>1, <1>2, <1>3 DEF HasObj
  <2>2. ASSUME NEW u \in Threads, HasObj(u)'
        PROVE  /\ ObjPool'[ObjIdx[u]].ActionID = op[u].action
               /\ ObjPool'[ObjIdx[u]].sd = op[u].sd
               /\ pc'[u] \in {"family", "cmd", "wait", "release"} =>
                    ObjPool'[ObjIdx[u]].pRespArgs = u
               /\ pc'[u] \in {"cmd", "wait", "release"} /\ op[u].v6 /\ op[u].action # "RECV" =>
                    ObjPool'[ObjIdx[u]].v6
               /\ pc'[u] = "family" => op[u].action = "GETHOSTBYSERVICE"
    <3>1. CASE u = t
      BY <1>1, <1>2, <1>3, <1>4, <2>1, <2>2, <3>1 DEF Contents, i
    <3>2. CASE u # t
      BY <1>3, <2>1, <2>2, <3>2 DEF Contents
    <3> QED
      BY <3>1, <3>2
  <2>3. \A j \in Objects : ObjPool'[j].sd = ObjPool[j].sd
    BY <1>3, <1>4
  <2> QED
    BY <1>1, <2>2, <2>3 DEF Contents
<1>10. Signals'
  BY <1>1, <1>2, <1>3 DEF Signals
<1>11. Pings'
  BY <1>1, <1>2, <1>3 DEF Pings, InPing, HasObj, Reports, ping
<1> QED
  BY <1>7, <1>8, <1>9, <1>10, <1>11

LEMMA CmdAcceptedStep ==
  ASSUME PoolInv, NEW t \in Threads, CmdAccepted(t)
  PROVE  PoolInv'
<1> USE DEF PoolInv
<1> DEFINE m == [by |-> t, op |-> op[t]]
<1>1. /\ pc[t] = "cmd" /\ pc' = [pc EXCEPT ![t] = "wait"] /\ ObjIdx[t] \in Objects
      /\ asked' = asked \cup {m}
      /\ UNCHANGED <<op, ObjIdx, calls, lists, SyncObj, ProtectionLost, ping, rx,
                     ActionIndex, answer, OobOpcode>>
  BY DEF CmdAccepted, Goto, Owners, HasObj
<1>2. /\ pc'[t] = "wait" /\ \A u \in Threads \ {t} : pc'[u] = pc[u]
      /\ op[t] \in Ops /\ m.by = t /\ m.op = op[t]
      /\ m \in [by : Threads, op : Ops] /\ m # NoMsg
      /\ \A u \in Threads \ {t} : HasObj(u) => ObjIdx[u] # ObjIdx[t] /\ ObjIdx[u] \in Objects
  BY <1>1, PoolAssumption DEF TypeOK, Owners, HasObj, NoMsg
<1>3. answer[t] # t /\ ~ SyncObj[ObjIdx[t]]
  BY <1>1, <1>2 DEF Signals, HasObj
<1> HIDE DEF m
<1>4. TypeOK'
  BY <1>1, <1>2 DEF TypeOK, lists, ping
<1>5. Owners' /\ Keys' /\ Lists'
  BY <1>1, <1>2, KeepLists DEF lists, HasObj, Running, InTransit
<1>6. Contents'
  BY <1>1, <1>2 DEF Contents, HasObj, lists
<1>7. Signals'
  <2>1. \A i \in Objects : SyncObj[i] =>
          \E u \in Threads : ObjIdx[u] = i /\ pc'[u] \in {"pend", "wait"}
    BY <1>1, <1>2 DEF Signals
  <2>2. \A u \in Threads :
          /\ pc'[u] = "wait" /\ SyncObj[ObjIdx[u]] => answer[u] = u
          /\ answer[u] = u => pc'[u] \in {"wait", "release"}
          /\ pc'[u] = "release" /\ op[u].action = "RECV" => answer[u] = u
    BY <1>2, <1>3 DEF Signals
  <2>3. \A n \in asked' \cup {rx} : n.by \in Threads =>
          pc'[n.by] = "wait" /\ op[n.by] = n.op /\ answer[n.by] # n.by
    BY <1>1, <1>2, <1>3 DEF Signals
  <2>4. rx.by \in Threads => rx # m
    BY <1>1, <1>2 DEF Signals
  <2> QED
    BY <1>1, <2>1, <2>2, <2>3, <2>4 DEF Signals
<1>8. Pings'
  <2>1. \A u \in Threads : InPing(u)' <=> InPing(u)
    BY <1>1, <1>2 DEF InPing, HasObj
  <2>2. /\ op[t].action = "PING" => Reports' = Reports \cup {m} /\ InPing(t)
        /\ op[t].action # "PING" => Reports' = Reports
    BY <1>1, <1>2 DEF Reports, InPing, HasObj
  <2>3. \A n \in Reports', u \in Threads : InPing(u) => n.by = u
    BY <1>2, <2>2 DEF Pings
  <2>4. \A n \in Reports' : n.by = Nobody => pPingCallBackFunc
    BY <1>2, <2>2, PoolAssumption DEF Pings
  <2> QED
    BY <1>1, <1>2, <2>1, <2>3, <2>4 DEF Pings, ping
<1> QED
  BY <1>4, <1>5, <1>6, <1>7, <1>8

LEMMA CmdRefusedStep ==
  ASSUME PoolInv, NEW t \in Threads, CmdRefused(t)
  PROVE  PoolInv'
<1> USE DEF PoolInv
<1>1. /\ pc[t] = "cmd" /\ pc' = [pc EXCEPT ![t] = "release"] /\ op[t].action # "RECV"
      /\ UNCHANGED <<op, ObjIdx, calls, lists, SyncObj, ProtectionLost, asked, ping, rx,
                     ActionIndex, answer, OobOpcode>>
  BY DEF CmdRefused, Goto
<1>2. pc'[t] = "release" /\ \A u \in Threads \ {t} : pc'[u] = pc[u]
  BY <1>1 DEF TypeOK
<1>3. TypeOK'
  BY <1>1 DEF TypeOK, lists, ping
<1>4. Owners' /\ Keys' /\ Lists'
  BY <1>1, <1>2, KeepLists DEF lists, HasObj, Running, InTransit
<1>5. Contents'
  BY <1>1, <1>2 DEF Contents, HasObj, lists
<1>6. Signals'
  <2>1. \A i \in Objects : SyncObj[i] =>
          \E u \in Threads : ObjIdx[u] = i /\ pc'[u] \in {"pend", "wait"}
    BY <1>1, <1>2 DEF Signals
  <2> QED
    BY <1>1, <1>2, <2>1 DEF Signals
<1>7. Pings'
  BY <1>1, <1>2 DEF Pings, InPing, HasObj, Reports, ping
<1> QED
  BY <1>3, <1>4, <1>5, <1>6, <1>7

LEMMA AnswerWaitStep ==
  ASSUME PoolInv, NEW t \in Threads, AnswerWait(t)
  PROVE  PoolInv'
<1> USE DEF PoolInv
<1>1. /\ pc[t] = "wait" /\ pc' = [pc EXCEPT ![t] = "release"]
      /\ SyncObj[ObjIdx[t]] /\ SyncObj' = [SyncObj EXCEPT ![ObjIdx[t]] = FALSE]
      /\ UNCHANGED <<op, ObjIdx, calls, lists, ProtectionLost, asked, ping, rx, ActionIndex,
                     answer, OobOpcode>>
      /\ ObjIdx[t] \in Objects
  BY DEF AnswerWait, Goto, Owners, HasObj
<1>2. /\ pc'[t] = "release" /\ \A u \in Threads \ {t} : pc'[u] = pc[u]
      /\ SyncObj'[ObjIdx[t]] = FALSE
      /\ \A i \in Objects \ {ObjIdx[t]} : SyncObj'[i] = SyncObj[i]
      /\ \A u \in Threads \ {t} : HasObj(u) => ObjIdx[u] # ObjIdx[t] /\ ObjIdx[u] \in Objects
  BY <1>1 DEF TypeOK, Owners, HasObj
<1>3. TypeOK'
  BY <1>1 DEF TypeOK, lists, ping
<1>4. Owners' /\ Keys' /\ Lists'
  BY <1>1, <1>2, KeepLists DEF lists, HasObj, Running, InTransit
<1>5. Contents'
  BY <1>1, <1>2 DEF Contents, HasObj, lists
<1>6. Signals'
  <2>1. answer[t] = t
    BY <1>1 DEF Signals
  <2>2. \A m \in asked \cup {rx} : m.by \in Threads => m.by # t
    BY <1>1, <2>1 DEF Signals
  <2>3. \A u \in Threads :
          /\ pc'[u] = "wait" /\ SyncObj'[ObjIdx[u]] => answer[u] = u
          /\ answer[u] = u => pc'[u] \in {"wait", "release"}
          /\ pc'[u] = "release" /\ op[u].action = "RECV" => answer[u] = u
    BY <1>1, <1>2, <2>1 DEF Signals, HasObj
  <2>4. \A i \in Objects : SyncObj'[i] =>
          \E u \in Threads : ObjIdx[u] = i /\ pc'[u] \in {"pend", "wait"}
    BY <1>1, <1>2 DEF Signals
  <2> QED
    BY <1>1, <1>2, <2>2, <2>3, <2>4 DEF Signals
<1>7. Pings'
  BY <1>1, <1>2 DEF Pings, InPing, HasObj, Reports, ping
<1> QED
  BY <1>3, <1>4, <1>5, <1>6, <1>7

LEMMA AskedIsMsg ==
  ASSUME TypeOK, NEW m \in asked
  PROVE  m # NoMsg
<1>1. m \in [by : Threads, op : Ops] \cup [by : {Nobody}, op : {Ping}]
  BY DEF TypeOK
<1>2. DOMAIN m = {"by", "op"}
  BY <1>1
<1>3. DOMAIN NoMsg = {"by"}
  BY DEF NoMsg
<1> QED
  BY <1>2, <1>3

LEMMA PingStartCallbackStep ==
  ASSUME PlainPings, PoolInv, NEW t \in Threads, PingStartCallback(t)
  PROVE  PoolInv'
<1> USE DEF PoolInv
<1>1. /\ pc[t] = "idle" /\ pc' = [pc EXCEPT ![t] = "ping"] /\ NoPing
      /\ calls < MaxCalls /\ calls' = calls + 1 /\ pPingCallBackFunc' = TRUE
      /\ UNCHANGED <<op, ObjIdx, lists, SyncObj, ProtectionLost, asked, rx, ActionIndex,
                     answer, OobOpcode>>
  BY DEF PingStartCallback, Goto, PlainPings
<1>2. pc'[t] = "ping" /\ \A u \in Threads \ {t} : pc'[u] = pc[u]
  BY <1>1 DEF TypeOK
<1>3. TypeOK'
  BY <1>1, PoolAssumption DEF TypeOK, lists
<1>4. Owners' /\ Keys' /\ Lists'
  BY <1>1, <1>2, KeepLists DEF lists, HasObj, Running, InTransit
<1>5. Contents'
  BY <1>1, <1>2 DEF Contents, HasObj, lists
<1>6. Signals'
  BY <1>1, <1>2 DEF Signals
<1>7. Pings'
  <2>1. \A u \in Threads : ~ InPing(u) /\ (InPing(u)' => u = t)
    BY <1>1, <1>2 DEF NoPing, InPing, HasObj
  <2>2. Reports = {} /\ Reports' = {}
    BY <1>1, AskedIsMsg DEF NoPing, Reports
  <2>3. \A u \in Threads : op[u].action = "PING" => pc[u] = "idle"
    BY <1>1 DEF NoPing
  <2> QED
    BY <1>1, <1>2, <2>1, <2>2, <2>3 DEF Pings
<1> QED
  BY <1>3, <1>4, <1>5, <1>6, <1>7

LEMMA PingCommandStep ==
  ASSUME PoolInv, NEW t \in Threads, PingCommand(t)
  PROVE  PoolInv'
<1> USE DEF PoolInv
<1> DEFINE m == [by |-> Nobody, op |-> Ping]
<1>1. /\ pc[t] = "ping" /\ pc' = [pc EXCEPT ![t] = "idle"]
      /\ asked' \in {asked, asked \cup {m}}
      /\ UNCHANGED <<op, ObjIdx, calls, lists, SyncObj, ProtectionLost, ping, rx,
                     ActionIndex, answer, OobOpcode>>
  BY DEF PingCommand, Goto
<1>2. /\ pc'[t] = "idle" /\ \A u \in Threads \ {t} : pc'[u] = pc[u]
      /\ m.by = Nobody /\ Nobody \notin Threads
      /\ m \in [by : {Nobody}, op : {Ping}]
  BY <1>1, PoolAssumption DEF TypeOK
<1> HIDE DEF m
<1>3. TypeOK'
  BY <1>1, <1>2 DEF TypeOK, lists, ping
<1>4. Owners' /\ Keys' /\ Lists'
  BY <1>1, <1>2, KeepLists DEF lists, HasObj, Running, InTransit
<1>5. Contents'
  BY <1>1, <1>2 DEF Contents, HasObj, lists
<1>6. Signals'
  <2>1. \A i \in Objects : SyncObj[i] =>
          \E u \in Threads : ObjIdx[u] = i /\ pc'[u] \in {"pend", "wait"}
    BY <1>1, <1>2 DEF Signals
  <2>2. \A u \in Threads :
          /\ pc'[u] = "wait" /\ SyncObj[ObjIdx[u]] => answer[u] = u
          /\ answer[u] = u => pc'[u] \in {"wait", "release"}
          /\ pc'[u] = "release" /\ op[u].action = "RECV" => answer[u] = u
    BY <1>1, <1>2 DEF Signals
  <2>3. \A n \in asked' \cup {rx} : n.by \in Threads =>
          pc'[n.by] = "wait" /\ op[n.by] = n.op /\ answer[n.by] # n.by
    BY <1>1, <1>2 DEF Signals
  <2>4. rx.by \in Threads => ActionIndex = ObjIdx[rx.by] /\ rx \notin asked'
    BY <1>1, <1>2 DEF Signals
  <2> QED
    BY <1>1, <2>1, <2>2, <2>3, <2>4 DEF Signals
<1>7. Pings'
  <2>1. \A u \in Threads : InPing(u)' => InPing(u) /\ u # t
    BY <1>1, <1>2 DEF InPing, HasObj
  <2>2. InPing(t) /\ pPingCallBackFunc /\ \A u \in Threads : InPing(u) => u = t
    BY <1>1 DEF Pings, InPing
  <2>3. Reports' \subseteq Reports \cup {m}
    BY <1>1 DEF Reports
  <2> QED
    BY <1>1, <1>2, <2>1, <2>2, <2>3 DEF Pings, ping, InPing, HasObj
<1> QED
  BY <1>3, <1>4, <1>5, <1>6, <1>7

\* The answer to the call of t is copied and signalled.
LEMMA DeliveredStep ==
  ASSUME PoolInv, NEW t \in Threads, pc[t] = "wait",
         answer' = [answer EXCEPT ![t] = t],
         SyncObj' = [SyncObj EXCEPT ![ObjIdx[t]] = TRUE],
         asked' \subseteq asked, rx' \in {rx, NoMsg},
         \A n \in asked' \cup {rx'} : n.by # t,
         ActionIndex' \in Indices, rx' = NoMsg \/ ActionIndex' = ActionIndex,
         UNCHANGED <<pc, op, ObjIdx, calls, lists, ProtectionLost, ping, OobOpcode>>
  PROVE  PoolInv'
<1> USE DEF PoolInv
<1>1. /\ ObjIdx[t] \in Objects /\ NoMsg.by \notin Threads
      /\ answer'[t] = t /\ \A u \in Threads \ {t} : answer'[u] = answer[u]
      /\ SyncObj'[ObjIdx[t]] = TRUE
      /\ \A i \in Objects \ {ObjIdx[t]} : SyncObj'[i] = SyncObj[i]
      /\ \A u \in Threads \ {t} : HasObj(u) => ObjIdx[u] # ObjIdx[t] /\ ObjIdx[u] \in Objects
  BY PoolAssumption DEF TypeOK, Owners, HasObj, NoMsg
<1>2. TypeOK'
  BY DEF TypeOK, lists, ping
<1>3. Owners' /\ Keys' /\ Lists'
  BY <1>1, KeepLists DEF lists, HasObj, Running, InTransit
<1>4. Contents'
  BY DEF Contents, HasObj, lists
<1>5. Signals'
  <2>1. \A i \in Objects : SyncObj'[i] =>
          \E u \in Threads : ObjIdx[u] = i /\ pc[u] \in {"pend", "wait"}
    BY <1>1 DEF Signals
  <2>2. \A u \in Threads :
          /\ pc[u] = "wait" /\ SyncObj'[ObjIdx[u]] => answer'[u] = u
          /\ answer'[u] = u => pc[u] \in {"wait", "release"}
          /\ pc[u] = "release" /\ op[u].action = "RECV" => answer'[u] = u
    BY <1>1 DEF Signals, HasObj
  <2>3. \A n \in asked' \cup {rx'} : n.by \in Threads =>
          pc[n.by] = "wait" /\ op[n.by] = n.op /\ answer'[n.by] # n.by
    BY <1>1 DEF Signals
  <2>4. rx'.by \in Threads => ActionIndex' = ObjIdx[rx'.by] /\ rx' \notin asked'
    BY <1>1 DEF Signals
  <2> QED
    BY <2>1, <2>2, <2>3, <2>4 DEF Signals
<1>6. Pings'
  <2>1. Reports' \subseteq Reports
    BY DEF Reports
  <2> QED
    BY <2>1 DEF Pings, InPing, HasObj, ping
<1> QED
  BY <1>2, <1>3, <1>4, <1>5, <1>6

\* Received data goes to the call that waits for it.
LEMMA RecvDelivers ==
  ASSUME CallKinds, PoolInv, MsgReadRecv
  PROVE  \E m \in asked :
           /\ m.by \in Threads /\ asked' = asked \ {m}
           /\ answer' = [answer EXCEPT ![m.by] = m.by]
           /\ SyncObj' = [SyncObj EXCEPT ![ObjIdx[m.by]] = TRUE]
           /\ rx = NoMsg /\ ActionIndex' \in Indices
           /\ UNCHANGED <<pc, op, ObjIdx, calls, lists, ProtectionLost, ping, rx, OobOpcode>>
<1> USE DEF PoolInv
<1>1. PICK m \in asked, i \in Indices :
        /\ m.op.action = "RECV"
        /\ i = FindActiveObj(AsyncOpcode(m.op), m.op.sd)
        /\ asked' = asked \ {m}
        /\ IF i = MAX_CONCURRENT_ACTIONS
           THEN ProtectionLost' = TRUE /\ UNCHANGED <<answer, SyncObj, ActionIndex>>
           ELSE Deliver(i, m) /\ ActionIndex' = i /\ UNCHANGED ProtectionLost
  BY DEF MsgReadRecv
<1>2. /\ rx = NoMsg
      /\ UNCHANGED <<pc, op, ObjIdx, calls, lists, ping, rx, OobOpcode>>
  BY DEF MsgReadRecv
<1>3. m.by \in Threads
  BY <1>1 DEF TypeOK, Ping
<1>4. /\ i = ObjIdx[m.by] /\ i \in Objects /\ i # MAX_CONCURRENT_ACTIONS
      /\ ObjPool[i].pRespArgs = m.by
  <2>1. i = ObjIdx[m.by] /\ pc[m.by] = "wait"
    BY <1>1, <1>3, FindsOwn DEF Signals
  <2> QED
    BY <1>3, <2>1, PoolAssumption DEF Owners, HasObj, Contents, Objects
<1>5. /\ answer' = [answer EXCEPT ![m.by] = m.by]
      /\ SyncObj' = [SyncObj EXCEPT ![ObjIdx[m.by]] = TRUE]
      /\ UNCHANGED ProtectionLost
  BY <1>1, <1>3, <1>4 DEF Deliver
<1> QED
  BY <1>1, <1>2, <1>3, <1>4, <1>5

LEMMA MsgReadRecvStep ==
  ASSUME CallKinds, PoolInv, MsgReadRecv
  PROVE  PoolInv'
<1>1. PICK m \in asked :
        /\ m.by \in Threads /\ asked' = asked \ {m}
        /\ answer' = [answer EXCEPT ![m.by] = m.by]
        /\ SyncObj' = [SyncObj EXCEPT ![ObjIdx[m.by]] = TRUE]
        /\ rx = NoMsg /\ ActionIndex' \in Indices
        /\ UNCHANGED <<pc, op, ObjIdx, calls, lists, ProtectionLost, ping, rx, OobOpcode>>
  BY RecvDelivers
<1>2. \A n \in asked' \cup {rx'} : n.by # m.by
  <2>1. NoMsg.by \notin Threads
    BY PoolAssumption DEF NoMsg
  <2>2. ASSUME NEW n \in asked, n.by = m.by PROVE n = m
    <3>1. n \in [by : Threads, op : Ops] /\ m \in [by : Threads, op : Ops]
      BY <1>1, <2>2, PoolAssumption DEF PoolInv, TypeOK
    <3>2. n.op = m.op
      BY <1>1, <2>2 DEF PoolInv, Signals
    <3> QED
      BY <2>2, <3>1, <3>2
  <2> QED
    BY <1>1, <2>1, <2>2
<1>3. pc[m.by] = "wait" /\ asked' \subseteq asked /\ rx' = NoMsg
  BY <1>1 DEF PoolInv, Signals
<1> QED
  BY <1>1, <1>2, <1>3, DeliveredStep

LEMMA MsgReadAsyncStep ==
  ASSUME CallKinds, PlainPings, PoolInv, MsgReadAsync
  PROVE  PoolInv'
<1> USE DEF PoolInv
<1>1. PICK m \in asked, i \in Indices :
        /\ m.op.action # "RECV"
        /\ i = FindActiveObj(AsyncOpcode(m.op), m.op.sd)
        /\ asked' = asked \ {m}
        /\ rx' = IF i = MAX_CONCURRENT_ACTIONS /\ m.op.action # "PING" THEN rx ELSE m
        /\ ActionIndex' = IF i = MAX_CONCURRENT_ACTIONS THEN ActionIndex ELSE i
  BY DEF MsgReadAsync, PlainPings
<1>2. UNCHANGED <<pc, op, ObjIdx, calls, lists, SyncObj, ProtectionLost, ping, answer,
                  OobOpcode>>
  BY DEF MsgReadAsync
<1>3. /\ m \in [by : Threads, op : Ops] \cup [by : {Nobody}, op : {Ping}]
      /\ NoMsg.by \notin Threads
  BY PoolAssumption DEF TypeOK, NoMsg
<1>4. /\ rx' = m
      /\ m.by \in Threads => ActionIndex' = ObjIdx[m.by]
      /\ ActionIndex' \in Indices
  <2>1. CASE m.by \in Threads
    <3>1. i = ObjIdx[m.by] /\ i \in Objects /\ i # MAX_CONCURRENT_ACTIONS
      BY <1>1, <2>1, FindsOwn, PoolAssumption DEF Signals, Owners, HasObj, Objects
    <3> QED
      BY <1>1, <2>1, <3>1
  <2>2. CASE m.by \notin Threads
    BY <1>1, <2>2, PingFindsNone DEF Ping, TypeOK
  <2> QED
    BY <2>1, <2>2
<1>5. TypeOK'
  BY <1>1, <1>2, <1>4 DEF TypeOK, lists, ping
<1>6. Owners' /\ Keys' /\ Lists'
  BY <1>2, KeepLists DEF lists, HasObj, Running, InTransit
<1>7. Contents'
  BY <1>2 DEF Contents, HasObj, lists
<1>8. Signals'
  <2>1. asked' \cup {rx'} \subseteq asked \cup {rx} /\ rx' \notin asked'
    BY <1>1, <1>4
  <2> QED
    BY <1>2, <1>4, <2>1 DEF Signals
<1>9. Pings'
  <2>1. Reports' \subseteq Reports
    BY <1>1, <1>4 DEF Reports
  <2> QED
    BY <1>2, <2>1 DEF Pings, InPing, HasObj, ping
<1> QED
  BY <1>5, <1>6, <1>7, <1>8, <1>9

\* The handler of an answer without a signal.
LEMMA DroppedStep ==
  ASSUME PoolInv, rx' = NoMsg,
         UNCHANGED <<pc, op, ObjIdx, calls, lists, SyncObj, ProtectionLost, asked, ping,
                     ActionIndex, answer, OobOpcode>>
  PROVE  PoolInv'
<1> USE DEF PoolInv
<1>1. NoMsg.by \notin Threads
  BY PoolAssumption DEF NoMsg
<1>2. TypeOK'
  BY DEF TypeOK, lists, ping
<1>3. Owners' /\ Keys' /\ Lists'
  BY KeepLists DEF lists, HasObj, Running, InTransit
<1>4. Contents'
  BY DEF Contents, HasObj, lists
<1>5. Signals'
  BY <1>1 DEF Signals
<1>6. Pings'
  <2>1. Reports' \subseteq Reports
    BY DEF Reports
  <2> QED
    BY <2>1 DEF Pings, InPing, HasObj, ping
<1> QED
  BY <1>2, <1>3, <1>4, <1>5, <1>6

\* The handler of the answer to a call.
LEMMA Handled ==
  ASSUME PoolInv, rx.by \in Threads, Deliver(ActionIndex, rx)
  PROVE  /\ answer' = [answer EXCEPT ![rx.by] = rx.by]
         /\ SyncObj' = [SyncObj EXCEPT ![ObjIdx[rx.by]] = TRUE]
<1>1. ActionIndex = ObjIdx[rx.by] /\ pc[rx.by] = "wait"
  BY DEF PoolInv, Signals
<1>2. ObjPool[ActionIndex].pRespArgs = rx.by
  BY <1>1 DEF PoolInv, Contents, HasObj
<1> QED
  BY <1>1, <1>2 DEF Deliver

LEMMA HandledStep ==
  ASSUME PoolInv, rx.by \in Threads, Deliver(ActionIndex, rx), HandlerEnds
  PROVE  PoolInv'
<1> USE DEF PoolInv
<1>1. /\ rx' = NoMsg /\ ActionIndex = ObjIdx[rx.by] /\ pc[rx.by] = "wait"
      /\ op[rx.by] = rx.op /\ rx \notin asked
      /\ UNCHANGED <<pc, op, ObjIdx, calls, lists, ProtectionLost, asked, ping, ActionIndex,
                     OobOpcode>>
  BY DEF HandlerEnds, Signals
<1>2. \A n \in asked' \cup {rx'} : n.by # rx.by
  <2>1. NoMsg.by \notin Threads
    BY PoolAssumption DEF NoMsg
  <2>2. ASSUME NEW n \in asked, n.by = rx.by PROVE FALSE
    <3>1. n \in [by : Threads, op : Ops] /\ rx \in [by : Threads, op : Ops]
      BY <2>1, <2>2, PoolAssumption DEF TypeOK
    <3>2. n.op = rx.op
      BY <1>1, <2>2 DEF Signals
    <3>3. n = rx
      BY <2>2, <3>1, <3>2
    <3> QED
      BY <1>1, <3>3
  <2> QED
    BY <1>1, <2>1, <2>2
<1>3. ActionIndex' \in Indices
  BY <1>1 DEF TypeOK
<1> QED
  BY <1>1, <1>2, <1>3, Handled, DeliveredStep

\* A handler delivers the answer to a call, or it drops the message.
LEMMA HandlerCases ==
  ASSUME PoolInv, HandleAsync \/ HandleService \/ HandlePing
  PROVE  /\ HandlerEnds
         /\ \/ rx.by \in Threads /\ Deliver(ActionIndex, rx)
            \/ UNCHANGED <<answer, SyncObj>>
<1>1. /\ rx # NoMsg
      /\ rx \in [by : Threads, op : Ops] \cup [by : {Nobody}, op : {Ping}]
      /\ rx.by \notin Threads => rx.op.action = "PING" /\ pPingCallBackFunc
  <2>1. rx # NoMsg
    BY DEF HandleAsync, HandleService, HandlePing
  <2>2. rx \in [by : Threads, op : Ops] \cup [by : {Nobody}, op : {Ping}]
    BY <2>1 DEF PoolInv, TypeOK
  <2>3. rx.by \notin Threads => rx.by = Nobody /\ rx.op.action = "PING" /\ rx \in Reports
    BY <2>1, <2>2 DEF Ping, Reports
  <2> QED
    BY <2>1, <2>2, <2>3 DEF PoolInv, Pings
<1>2. CASE HandleAsync
  BY <1>1, <1>2 DEF HandleAsync
<1>3. CASE HandleService
  BY <1>1, <1>3 DEF HandleService
<1>4. CASE HandlePing
  BY <1>1, <1>4 DEF HandlePing
<1> QED
  BY <1>2, <1>3, <1>4

LEMMA HandlerStep ==
  ASSUME PoolInv, HandleAsync \/ HandleService \/ HandlePing
  PROVE  PoolInv'
BY HandlerCases, HandledStep, DroppedStep DEF HandlerEnds

-------------------------------------------------------------------------------
(* The steps that move an object between the lists *)

\* One evaluation of the loop condition moves object i, on none of the lists, to the
\* active or to the pending list.
LEMMA ContendIs ==
  ASSUME NEW p \in [Objects -> ObjectType], NEW t \in Threads, NEW i \in Objects, NEW o \in Ops,
         {ActivePoolIdx, PendingPoolIdx} \subseteq Indices,
         NEW active, Linked(p, ActivePoolIdx, active), i \notin ToSet(active),
         NEW pending, Linked(p, PendingPoolIdx, pending), i \notin ToSet(pending),
         Contend(t, i, o, p)
  PROVE  /\ ObjPool' \in [Objects -> ObjectType] /\ SameData(p, ObjPool')
         /\ \A j \in Objects \ {i} : ObjPool'[j].NextIndex = p[j].NextIndex
         /\ ActivePoolIdx' \in Indices /\ PendingPoolIdx' \in Indices
         /\ \E a, b : /\ Linked(ObjPool', ActivePoolIdx', a)
                      /\ Linked(ObjPool', PendingPoolIdx', b)
                      /\ IF Key(o) \in ActiveActionsBitmap
                         THEN ToSet(a) = ToSet(active) /\ ToSet(b) = ToSet(pending) \cup {i}
                         ELSE ToSet(a) = ToSet(active) \cup {i} /\ ToSet(b) = ToSet(pending)
         /\ IF Key(o) \in ActiveActionsBitmap
            THEN pc' = [pc EXCEPT ![t] = "pend"] /\ ActiveActionsBitmap' = ActiveActionsBitmap
            ELSE /\ pc' = [pc EXCEPT ![t] = "args"]
                 /\ ActiveActionsBitmap' = ActiveActionsBitmap \cup {Key(o)}
<1>1. /\ active \in Seq(Objects) /\ ToSet(active) \subseteq Objects
      /\ pending \in Seq(Objects) /\ ToSet(pending) \subseteq Objects
      /\ i \in Indices /\ ActivePoolIdx \in Indices /\ PendingPoolIdx \in Indices
  BY Members, IndexRange DEF Linked
<1>2. CASE Key(o) \in ActiveActionsBitmap
  <2>1. /\ ObjPool' = [p EXCEPT ![i].NextIndex = PendingPoolIdx]
        /\ PendingPoolIdx' = i /\ ActivePoolIdx' = ActivePoolIdx
        /\ ActiveActionsBitmap' = ActiveActionsBitmap /\ pc' = [pc EXCEPT ![t] = "pend"]
    BY <1>2 DEF Contend, Park
  <2>2. /\ ObjPool' \in [Objects -> ObjectType] /\ SameData(p, ObjPool')
        /\ \A j \in Objects : ObjPool'[j].NextIndex = IF j = i THEN PendingPoolIdx
                                                       ELSE p[j].NextIndex
    <3> DEFINE n == PendingPoolIdx
               q == ObjPool'
    <3>1. n \in Indices /\ q = [p EXCEPT ![i].NextIndex = n]
      BY <1>1, <2>1
    <3> HIDE DEF n, q
    <3>2. /\ q \in [Objects -> ObjectType] /\ SameData(p, q)
          /\ \A j \in Objects : q[j].NextIndex = IF j = i THEN n ELSE p[j].NextIndex
      BY <3>1 DEF ObjectType, SameData
    <3> QED
      BY <3>2 DEF n, q
  <2>3. Linked(ObjPool', ActivePoolIdx', active)
    BY <1>1, <2>1, <2>2, Frame
  <2>4. \E b : Linked(ObjPool', i, b) /\ ToSet(b) = ToSet(pending) \cup {i}
    <3>1. /\ i \in Objects \ ToSet(pending) /\ ObjPool'[i].NextIndex = PendingPoolIdx
          /\ \A j \in ToSet(pending) : ObjPool'[j].NextIndex = p[j].NextIndex
      BY <1>1, <2>2
    <3> QED
      BY <3>1, PushFront
  <2> QED
    BY <1>1, <1>2, <2>1, <2>2, <2>3, <2>4
<1>3. CASE Key(o) \notin ActiveActionsBitmap
  <2>1. /\ ObjPool' = [p EXCEPT ![i].NextIndex = ActivePoolIdx]
        /\ ActivePoolIdx' = i /\ PendingPoolIdx' = PendingPoolIdx
        /\ ActiveActionsBitmap' = ActiveActionsBitmap \cup {Key(o)}
        /\ pc' = [pc EXCEPT ![t] = "args"]
    BY <1>3 DEF Contend, Activate
  <2>2. /\ ObjPool' \in [Objects -> ObjectType] /\ SameData(p, ObjPool')
        /\ \A j \in Objects : ObjPool'[j].NextIndex = IF j = i THEN ActivePoolIdx
                                                       ELSE p[j].NextIndex
    <3> DEFINE n == ActivePoolIdx
               q == ObjPool'
    <3>1. n \in Indices /\ q = [p EXCEPT ![i].NextIndex = n]
      BY <1>1, <2>1
    <3> HIDE DEF n, q
    <3>2. /\ q \in [Objects -> ObjectType] /\ SameData(p, q)
          /\ \A j \in Objects : q[j].NextIndex = IF j = i THEN n ELSE p[j].NextIndex
      BY <3>1 DEF ObjectType, SameData
    <3> QED
      BY <3>2 DEF n, q
  <2>3. Linked(ObjPool', PendingPoolIdx', pending)
    BY <1>1, <2>1, <2>2, Frame
  <2>4. \E a : Linked(ObjPool', i, a) /\ ToSet(a) = ToSet(active) \cup {i}
    <3>1. /\ i \in Objects \ ToSet(active) /\ ObjPool'[i].NextIndex = ActivePoolIdx
          /\ \A j \in ToSet(active) : ObjPool'[j].NextIndex = p[j].NextIndex
      BY <1>1, <2>2
    <3> QED
      BY <3>1, PushFront
  <2> QED
    BY <1>1, <1>3, <2>1, <2>2, <2>3, <2>4
<1> QED
  BY <1>2, <1>3

\* A call with its object, on none of the lists, contends for its turn.
LEMMA ContendStep ==
  ASSUME PoolInv, NEW t \in Threads, NEW i \in Objects, NEW o \in Ops,
         NEW p \in [Objects -> ObjectType],
         pc[t] \in {"idle", "again"}, ObjIdx[t] \in {i, MAX_CONCURRENT_ACTIONS},
         Contend(t, i, o, p),
         op' = [op EXCEPT ![t] = o], ObjIdx' = [ObjIdx EXCEPT ![t] = i],
         \A u \in Threads \ {t} : ObjIdx[u] # i,
         p[i].ActionID = o.action, p[i].sd = o.sd,
         \A j \in Objects \ {i} : p[j] = ObjPool[j],
         ~ SyncObj[i], calls' \in 0 .. MaxCalls, FreePoolIdx' \in Indices,
         \E free : /\ Linked(p, FreePoolIdx', free)
                   /\ ToSet(free) = Objects \ (Holders \cup Waiters \cup Travellers \cup {i}),
         o.action = "PING" => Reports = {} /\ \A u \in Threads \ {t} : ~ InPing(u),
         UNCHANGED <<SyncObj, ProtectionLost, asked, ping, rx, ActionIndex, answer, OobOpcode>>
  PROVE  PoolInv'
<1> USE DEF PoolInv
<1>1. PICK active \in Seq(Objects), pending \in Seq(Objects) :
        /\ Linked(ObjPool, ActivePoolIdx, active)
        /\ Linked(ObjPool, PendingPoolIdx, pending)
        /\ ToSet(active) = Holders /\ ToSet(pending) = Waiters
  BY DEF Lists
<1>2. i \notin Holders /\ i \notin Waiters /\ (i \in Travellers => ObjIdx[t] = i)
  BY DEF Holders, Waiters, Travellers
<1>3. /\ ToSet(active) \subseteq Objects /\ ToSet(pending) \subseteq Objects
      /\ i \notin ToSet(active) /\ i \notin ToSet(pending)
  BY <1>1, <1>2, Members
<1>4. /\ Linked(p, ActivePoolIdx, active)
      /\ Linked(p, PendingPoolIdx, pending)
  BY <1>1, <1>3, Frame
<1>5. {ActivePoolIdx, PendingPoolIdx} \subseteq Indices
  BY DEF TypeOK
<1>6. /\ ObjPool' \in [Objects -> ObjectType] /\ SameData(p, ObjPool')
      /\ \A j \in Objects \ {i} : ObjPool'[j].NextIndex = p[j].NextIndex
      /\ ActivePoolIdx' \in Indices /\ PendingPoolIdx' \in Indices
      /\ \E a, b : /\ Linked(ObjPool', ActivePoolIdx', a)
                   /\ Linked(ObjPool', PendingPoolIdx', b)
                   /\ IF Key(o) \in ActiveActionsBitmap
                      THEN ToSet(a) = ToSet(active) /\ ToSet(b) = ToSet(pending) \cup {i}
                      ELSE ToSet(a) = ToSet(active) \cup {i} /\ ToSet(b) = ToSet(pending)
      /\ IF Key(o) \in ActiveActionsBitmap
         THEN pc' = [pc EXCEPT ![t] = "pend"] /\ ActiveActionsBitmap' = ActiveActionsBitmap
         ELSE /\ pc' = [pc EXCEPT ![t] = "args"]
              /\ ActiveActionsBitmap' = ActiveActionsBitmap \cup {Key(o)}
  BY <1>3, <1>4, <1>5, ContendIs
<1> DEFINE to == IF Key(o) \in ActiveActionsBitmap THEN "pend" ELSE "args"
<1>7. /\ pc' = [pc EXCEPT ![t] = to] /\ pc'[t] = to
      /\ \A u \in Threads \ {t} : pc'[u] = pc[u]
      /\ op'[t] = o /\ ObjIdx'[t] = i
      /\ \A u \in Threads \ {t} : op'[u] = op[u] /\ ObjIdx'[u] = ObjIdx[u]
      /\ \A u \in Threads \ {t} : HasObj(u) => ObjIdx[u] # i /\ ObjIdx[u] \in Objects
      /\ to \in {"pend", "args"}
  BY <1>6 DEF TypeOK, Owners
<1>8. /\ \A j \in Objects : /\ ObjPool'[j].ActionID = p[j].ActionID
                            /\ ObjPool'[j].sd = p[j].sd /\ ObjPool'[j].v6 = p[j].v6
                            /\ ObjPool'[j].pRespArgs = p[j].pRespArgs
      /\ MAX_CONCURRENT_ACTIONS \notin Objects
  BY <1>6, IndexRange DEF SameData
<1>9. ActiveActionsBitmap' = IF to = "args" THEN ActiveActionsBitmap \cup {Key(o)}
                             ELSE ActiveActionsBitmap
  BY <1>6
<1>10. to = "args" <=> Key(o) \notin ActiveActionsBitmap
  OBVIOUS
<1> HIDE DEF to
<1>11. TypeOK'
  <2>1. /\ pc' \in [Threads -> {"idle", "pend", "again", "args", "family", "cmd", "ping",
                                "wait", "release"}]
        /\ op' \in [Threads -> Ops]
    BY <1>7 DEF TypeOK
  <2>2. ObjIdx' \in [Threads -> Indices]
    BY IndexRange DEF TypeOK
  <2>3. Key(o) \in {Key(c) : c \in Ops}
    OBVIOUS
  <2>4. ActiveActionsBitmap' \subseteq {Key(c) : c \in Ops}
    BY <1>9, <2>3 DEF TypeOK
  <2> QED
    BY <1>6, <2>1, <2>2, <2>4 DEF TypeOK, ObjectType, ping
<1>12. Owners'
  BY <1>7 DEF Owners, HasObj
<1>13. Contents'
  <2>1. ASSUME NEW u \in Threads, HasObj(u)'
        PROVE  /\ ObjPool'[ObjIdx'[u]].ActionID = op'[u].action
               /\ ObjPool'[ObjIdx'[u]].sd = op'[u].sd
               /\ pc'[u] \in {"family", "cmd", "wait", "release"} =>
                    ObjPool'[ObjIdx'[u]].pRespArgs = u
               /\ pc'[u] \in {"cmd", "wait", "release"} /\ op'[u].v6 /\ op'[u].action # "RECV" =>
                    ObjPool'[ObjIdx'[u]].v6
               /\ pc'[u] = "family" => op'[u].action = "GETHOSTBYSERVICE"
    <3>1. CASE u = t
      BY <1>7, <1>8, <3>1
    <3>2. CASE u # t
      <4>1. HasObj(u) /\ ObjIdx'[u] = ObjIdx[u] /\ ObjIdx[u] \in Objects \ {i}
        BY <1>7, <2>1, <3>2 DEF HasObj
      <4> QED
        BY <1>7, <1>8, <3>2, <4>1 DEF Contents
    <3> QED
      BY <3>1, <3>2
  <2>2. ASSUME NEW j \in Objects, \A u \in Threads : ObjIdx'[u] # j
        PROVE  ObjPool'[j].sd = SL_MAX_SOCKETS
    <3>1. j # i /\ \A u \in Threads : ObjIdx[u] # j
      BY <1>7, <1>8, <2>2
    <3> QED
      BY <1>8, <3>1 DEF Contents
  <2> QED
    BY <2>1, <2>2 DEF Contents
<1>14. Keys'
  <2>1. \A u \in Threads : Running(u)' <=> (IF u = t THEN to = "args" ELSE Running(u))
    BY <1>7 DEF Running
  <2>2. ~ Running(t)
    BY DEF Running
  <2>3. ActiveActionsBitmap' = {Key(op'[u]) : u \in {v \in Threads : Running(v)'}}
    <3>1. ActiveActionsBitmap = {Key(op[u]) : u \in {v \in Threads : Running(v)}}
      BY DEF Keys
    <3>2. CASE to = "args"
      BY <1>7, <1>9, <2>1, <2>2, <3>1, <3>2
    <3>3. CASE to # "args"
      BY <1>7, <1>9, <2>1, <2>2, <3>1, <3>3
    <3> QED
      BY <3>2, <3>3
  <2>4. ASSUME NEW u \in Threads, NEW v \in Threads, Running(u)', Running(v)',
               Key(op'[u]) = Key(op'[v])
        PROVE  u = v
    <3>1. \A w \in Threads : Running(w) => Key(op[w]) \in ActiveActionsBitmap
      BY DEF Keys
    <3> QED
      BY <1>7, <1>10, <2>1, <2>4, <3>1 DEF Keys
  <2> QED
    BY <2>3, <2>4 DEF Keys
<1>15. Signals'
  <2>1. \A j \in Objects : SyncObj[j] =>
          \E u \in Threads : ObjIdx'[u] = j /\ pc'[u] \in {"pend", "wait"}
    BY <1>7 DEF Signals
  <2>2. \A u \in Threads :
          /\ pc'[u] = "wait" /\ SyncObj[ObjIdx'[u]] => answer[u] = u
          /\ answer[u] = u => pc'[u] \in {"wait", "release"}
          /\ pc'[u] = "release" /\ op'[u].action = "RECV" => answer[u] = u
    BY <1>7 DEF Signals
  <2>3. \A n \in asked \cup {rx} : n.by \in Threads =>
          pc'[n.by] = "wait" /\ op'[n.by] = n.op /\ answer[n.by] # n.by
    BY <1>7 DEF Signals
  <2>4. rx.by \in Threads => ActionIndex = ObjIdx'[rx.by] /\ rx \notin asked
    BY <1>7 DEF Signals
  <2> QED
    BY <2>1, <2>2, <2>3, <2>4 DEF Signals
<1>16. Pings'
  <2>1. \A u \in Threads : InPing(u)' <=> (IF u = t THEN o.action = "PING" ELSE InPing(u))
    BY <1>7 DEF InPing, HasObj
  <2>2. Reports' = Reports
    BY DEF Reports
  <2>3. \A u, v \in Threads : InPing(u)' /\ InPing(v)' => u = v
    BY <2>1 DEF Pings
  <2>4. \A m \in Reports, u \in Threads : InPing(u)' => m.by = u
    BY <2>1 DEF Pings
  <2>5. \A u \in Threads :
          /\ pc'[u] = "ping" => pPingCallBackFunc
          /\ op'[u].action = "PING" /\ pc'[u] \in {"cmd", "wait", "release"} => ~ pPingCallBackFunc
    <3>1. \A u \in Threads \ {t} : pc'[u] = pc[u] /\ op'[u] = op[u]
      BY <1>7
    <3>2. pc'[t] \in {"pend", "args"}
      BY <1>7
    <3> QED
      BY <3>1, <3>2 DEF Pings
  <2>6. pPingCallBackFunc' = pPingCallBackFunc
    BY DEF ping
  <2> HIDE DEF PoolInv
  <2>7. \A m \in Reports : m.by = Nobody => pPingCallBackFunc
    BY DEF PoolInv, Pings
  <2> QED
    BY <2>2, <2>3, <2>4, <2>5, <2>6, <2>7 DEF Pings
<1>17. Lists'
  <2>1. PICK a, b : /\ Linked(ObjPool', ActivePoolIdx', a)
                    /\ Linked(ObjPool', PendingPoolIdx', b)
                    /\ ToSet(a) = IF to = "args" THEN Holders \cup {i} ELSE Holders
                    /\ ToSet(b) = IF to = "args" THEN Waiters ELSE Waiters \cup {i}
    BY <1>1, <1>6, <1>10
  <2>2. PICK f : /\ Linked(p, FreePoolIdx', f)
                 /\ ToSet(f) = Objects \ (Holders \cup Waiters \cup Travellers \cup {i})
    OBVIOUS
  <2>3. Linked(ObjPool', FreePoolIdx', f)
    <3>1. \A j \in ToSet(f) : ObjPool'[j].NextIndex = p[j].NextIndex
      BY <1>6, <2>2
    <3> QED
      BY <2>2, <3>1, Frame
  <2>4. /\ Holders' = ToSet(a) /\ Waiters' = ToSet(b)
        /\ Holders' \cup Waiters' \cup Travellers' = Holders \cup Waiters \cup Travellers \cup {i}
    <3>1. \A u \in Threads \ {t} :
            /\ pc'[u] = pc[u] /\ ObjIdx'[u] = ObjIdx[u] /\ (InTransit(u)' <=> InTransit(u))
      BY <1>7 DEF InTransit
    <3>2. /\ pc'[t] = to /\ ObjIdx'[t] = i /\ ~ InTransit(t)' /\ to \in {"pend", "args"}
          /\ pc[t] \notin {"pend", "args", "family", "cmd", "wait", "release"}
      BY <1>7 DEF InTransit
    <3>3. /\ Holders' = IF to = "args" THEN Holders \cup {i} ELSE Holders
          /\ Waiters' = IF to = "args" THEN Waiters ELSE Waiters \cup {i}
      BY <3>1, <3>2 DEF Holders, Waiters
    <3>4. Travellers' \subseteq Travellers /\ Travellers \subseteq Travellers' \cup {i}
      <4>1. InTransit(t) => ObjIdx[t] = i
        <5>1. InTransit(t) => HasObj(t)
          BY DEF InTransit, HasObj
        <5> QED
          BY <1>8, <5>1 DEF Owners
      <4> QED
        BY <3>1, <3>2, <4>1 DEF Travellers
    <3> QED
      BY <2>1, <3>3, <3>4
  <2>5. a \in Seq(Objects) /\ b \in Seq(Objects) /\ f \in Seq(Objects)
    BY <2>1, <2>2 DEF Linked
  <2> HIDE DEF PoolInv
  <2> QED
    BY <2>1, <2>2, <2>3, <2>4, <2>5 DEF Lists
<1> QED
  BY <1>11, <1>12, <1>13, <1>14, <1>15, <1>16, <1>17

LEMMA WaitForPoolObjStep ==
  ASSUME PlainPings, PoolInv, NEW t \in Threads, WaitForPoolObj(t)
  PROVE  PoolInv'
<1> USE DEF PoolInv
<1> DEFINE i == FreePoolIdx
           d(o) == IF OnSocket(o) THEN o.sd ELSE ObjPool[i].sd
           P(o) == [ObjPool EXCEPT ![i] = [@ EXCEPT !.ActionID = o.action, !.sd = d(o)]]
<1>1. i \in Objects /\ i < MAX_CONCURRENT_ACTIONS
  BY IndexRange DEF WaitForPoolObj, TypeOK
<1>2. PICK o \in Ops :
        /\ o.action = "PING" => NoPing
        /\ FreePoolIdx' = IF ObjPool[i].NextIndex < MAX_CONCURRENT_ACTIONS
                          THEN ObjPool[i].NextIndex
                          ELSE MAX_CONCURRENT_ACTIONS
        /\ Contend(t, i, o, P(o))
        /\ op' = [op EXCEPT ![t] = o]
        /\ ObjIdx' = [ObjIdx EXCEPT ![t] = i]
  <2>1. \A o : [ObjPool EXCEPT ![i].ActionID = o.action,
                               ![i].sd = IF OnSocket(o) THEN o.sd ELSE @] = P(o)
    BY <1>1 DEF TypeOK
  <2> QED
    BY <2>1 DEF WaitForPoolObj, PlainPings
<1>3. /\ pc[t] = "idle" /\ calls < MaxCalls /\ calls' = calls + 1
      /\ UNCHANGED <<SyncObj, ProtectionLost, asked, ping, rx, ActionIndex, answer, OobOpcode>>
  BY DEF WaitForPoolObj
<1> DEFINE p == P(o)
<1>4. PICK free \in Seq(Objects) :
        /\ Linked(ObjPool, i, free)
        /\ ToSet(free) = Objects \ (Holders \cup Waiters \cup Travellers)
  BY DEF Lists
<1>5. \A u \in Threads : ObjIdx[u] # i
  <2>1. i \in ToSet(free)
    BY <1>1, <1>4, PopFront
  <2>2. \A u \in Threads : HasObj(u) => ObjIdx[u] \in Holders \cup Waiters \cup Travellers
    BY DEF HasObj, TypeOK, Holders, Waiters, Travellers, InTransit
  <2> QED
    BY <1>1, <1>4, <2>1, <2>2 DEF Owners
<1>6. ObjPool[i].sd = SL_MAX_SOCKETS /\ ~ SyncObj[i]
  BY <1>1, <1>5 DEF Contents, Signals
<1>7. d(o) = o.sd /\ o.sd \in 0 .. SL_MAX_SOCKETS /\ o.action \in Actions
  <2>1. o.sd \in 0 .. SL_MAX_SOCKETS /\ SL_MAX_SOCKETS \in Nat /\ o.action \in Actions
    BY PoolAssumption
  <2> QED
    BY <1>6, <2>1 DEF OnSocket
<1>8. p = [ObjPool EXCEPT ![i] = [@ EXCEPT !.ActionID = o.action, !.sd = o.sd]]
  BY <1>7
<1> HIDE DEF p, P, d
<1>9. ObjPool \in [Objects -> ObjectType] /\ ObjPool[i] \in ObjectType
  BY <1>1 DEF TypeOK, ObjectType
<1>10. /\ p \in [Objects -> ObjectType]
       /\ p[i].ActionID = o.action /\ p[i].sd = o.sd
       /\ \A j \in Objects \ {i} : p[j] = ObjPool[j]
       /\ \A j \in Objects : p[j].NextIndex = ObjPool[j].NextIndex
  <2> DEFINE r == [ObjPool[i] EXCEPT !.ActionID = o.action, !.sd = o.sd]
  <2>1. r \in ObjectType /\ r.ActionID = o.action /\ r.sd = o.sd
        /\ r.NextIndex = ObjPool[i].NextIndex
    BY <1>7, <1>9 DEF ObjectType
  <2>2. p = [ObjPool EXCEPT ![i] = r]
    BY <1>1, <1>8, <1>9
  <2> HIDE DEF r
  <2> QED
    BY <1>1, <1>9, <2>1, <2>2
<1>11. FreePoolIdx' = ObjPool[i].NextIndex /\ FreePoolIdx' \in Indices
  BY <1>2, <1>9, IndexRange DEF ObjectType, Indices
<1>12. \E f : /\ Linked(p, FreePoolIdx', f)
              /\ ToSet(f) = Objects \ (Holders \cup Waiters \cup Travellers \cup {i})
  <2>1. PICK f : Linked(ObjPool, ObjPool[i].NextIndex, f) /\ ToSet(f) = ToSet(free) \ {i}
    BY <1>1, <1>4, PopFront
  <2>2. \A j \in ToSet(f) : p[j].NextIndex = ObjPool[j].NextIndex
    BY <1>4, <1>10, <2>1
  <2>3. Linked(p, FreePoolIdx', f)
    BY <1>11, <2>1, <2>2, Frame
  <2> QED
    BY <1>4, <2>1, <2>3
<1>13. o.action = "PING" => Reports = {} /\ \A u \in Threads \ {t} : ~ InPing(u)
  BY <1>2, AskedIsMsg DEF NoPing, Reports, InPing, HasObj
<1>14. ObjIdx[t] \in {i, MAX_CONCURRENT_ACTIONS}
  BY <1>3, IndexRange DEF Owners, HasObj, TypeOK
<1>15. calls' \in 0 .. MaxCalls
  BY <1>3, PoolAssumption DEF TypeOK
<1>16. Contend(t, i, o, p)
  BY <1>2 DEF p
<1> HIDE DEF PoolInv, i
<1> QED
  BY <1>1, <1>2, <1>3, <1>5, <1>6, <1>10, <1>11, <1>12, <1>13, <1>14, <1>15, <1>16, ContendStep

LEMMA PendRetryStep ==
  ASSUME PoolInv, NEW t \in Threads, PendRetry(t)
  PROVE  PoolInv'
<1> USE DEF PoolInv
<1> DEFINE i == ObjIdx[t]
           o == op[t]
           p == ObjPool
<1>1. /\ pc[t] = "again" /\ Contend(t, i, o, p)
      /\ UNCHANGED <<op, ObjIdx, calls, FreePoolIdx, SyncObj, ProtectionLost, asked, ping, rx,
                     ActionIndex, answer, OobOpcode>>
      /\ i \in Objects /\ o \in Ops
  BY DEF PendRetry, Owners, HasObj, TypeOK
<1>2. \A u \in Threads \ {t} : ObjIdx[u] # i
  BY <1>1 DEF Owners, HasObj
<1>3. p \in [Objects -> ObjectType] /\ p[i].ActionID = o.action /\ p[i].sd = o.sd
  BY <1>1 DEF TypeOK, ObjectType, Contents, HasObj
<1>4. op' = [op EXCEPT ![t] = o] /\ ObjIdx' = [ObjIdx EXCEPT ![t] = i]
  BY <1>1 DEF TypeOK
<1>5. ~ SyncObj[i]
  BY <1>1, <1>2 DEF Signals
<1>6. calls' \in 0 .. MaxCalls /\ FreePoolIdx' \in Indices
  BY <1>1 DEF TypeOK
<1>7. \E free : /\ Linked(p, FreePoolIdx', free)
                /\ ToSet(free) = Objects \ (Holders \cup Waiters \cup Travellers \cup {i})
  <2>1. i \in Travellers
    BY <1>1 DEF Travellers, InTransit
  <2>2. PICK free \in Seq(Objects) :
          /\ Linked(ObjPool, FreePoolIdx, free)
          /\ ToSet(free) = Objects \ (Holders \cup Waiters \cup Travellers)
    BY DEF Lists
  <2>3. Objects \ (Holders \cup Waiters \cup Travellers \cup {i})
          = Objects \ (Holders \cup Waiters \cup Travellers)
    BY <2>1
  <2> QED
    BY <1>1, <2>2, <2>3
<1>8. o.action = "PING" => Reports = {} /\ \A u \in Threads \ {t} : ~ InPing(u)
  <2>1. o.action = "PING" => InPing(t)
    BY <1>1 DEF InPing, HasObj
  <2>2. \A m \in Reports : m.by # t
    BY <1>1 DEF Reports, Signals
  <2> QED
    BY <2>1, <2>2 DEF Pings
<1>9. ObjIdx[t] \in {i, MAX_CONCURRENT_ACTIONS} /\ \A j \in Objects \ {i} : p[j] = ObjPool[j]
  OBVIOUS
<1> HIDE DEF PoolInv, i, o, p
<1> QED
  BY <1>1, <1>2, <1>3, <1>4, <1>5, <1>6, <1>7, <1>8, <1>9, ContendStep

\* Who waits does not run.
LEMMA Disjoint ==
  ASSUME Owners
  PROVE  /\ Holders \cup Waiters \cup Travellers \subseteq Objects
         /\ Holders \cap Waiters = {} /\ Holders \cap Travellers = {}
         /\ Waiters \cap Travellers = {}
<1>1. \A u \in Threads :
        /\ pc[u] = "pend" => HasObj(u)
        /\ pc[u] \in {"args", "family", "cmd", "wait", "release"} => HasObj(u) /\ ~ InTransit(u)
        /\ InTransit(u) => HasObj(u)
  BY DEF HasObj, InTransit
<1>2. Holders \cup Waiters \cup Travellers \subseteq Objects
  BY <1>1 DEF Owners, Holders, Waiters, Travellers
<1>3. Holders \cap Waiters = {}
  BY <1>1 DEF Owners, Holders, Waiters
<1>4. Holders \cap Travellers = {}
  BY <1>1 DEF Owners, Holders, Travellers
<1>5. Waiters \cap Travellers = {}
  BY <1>1 DEF Owners, Waiters, Travellers
<1> QED
  BY <1>2, <1>3, <1>4, <1>5

\* The pending object that the release of object i calls up.
Searched(i) == First(Chain(ObjPool, PendingPoolIdx), {j \in Objects : CalledUp(j, i)})

LEMMA SearchedIs ==
  ASSUME NEW i, NEW b, Linked(ObjPool, PendingPoolIdx, b)
  PROVE  IF Searched(i) = MAX_CONCURRENT_ACTIONS
         THEN Searched(i) \notin ToSet(b) /\ \A j \in ToSet(b) : ~ CalledUp(j, i)
         ELSE Searched(i) \in ToSet(b) /\ CalledUp(Searched(i), i)
<1> DEFINE found == {k \in DOMAIN b : b[k] \in {j \in Objects : CalledUp(j, i)}}
           next == IF found = {} THEN MAX_CONCURRENT_ACTIONS ELSE b[Min(found)]
<1>1. /\ b \in Seq(Objects) /\ Len(b) \in Nat /\ DOMAIN b = 1 .. Len(b)
      /\ ToSet(b) = {b[k] : k \in 1 .. Len(b)} /\ ToSet(b) \subseteq Objects
  BY Members DEF Linked
<1>2. Searched(i) = next
  BY ChainIs DEF Searched, First
<1>3. \A k : k \in found <=> k \in 1 .. Len(b) /\ CalledUp(b[k], i)
  BY <1>1
<1> HIDE DEF found
<1>4. found \in SUBSET Nat
  BY <1>1, <1>3
<1>5. CASE found = {}
  BY <1>1, <1>2, <1>3, <1>5, IndexRange
<1>6. CASE found # {}
  <2>1. Min(found) \in found
    BY <1>4, <1>6, MinIs
  <2>2. next \in ToSet(b) /\ CalledUp(next, i)
    BY <1>1, <1>3, <1>6, <2>1
  <2> QED
    BY <1>1, <1>2, <2>2, IndexRange
<1> QED
  BY <1>5, <1>6

\* The object called up is unlinked from the pending list.
LEMMA CallUpIs ==
  ASSUME TypeOK, NEW b, Linked(ObjPool, PendingPoolIdx, b),
         NEW next, (next = MAX_CONCURRENT_ACTIONS /\ next \notin ToSet(b)) \/ next \in ToSet(b),
         NEW W, W = IF next = MAX_CONCURRENT_ACTIONS
                    THEN [pool |-> ObjPool, head |-> PendingPoolIdx]
                    ELSE RemoveFromList(ObjPool, PendingPoolIdx, next)
  PROVE  /\ \E r : Linked(W.pool, W.head, r) /\ ToSet(r) = ToSet(b) \ {next}
         /\ W.pool \in [Objects -> ObjectType] /\ W.head \in Indices
         /\ SameData(ObjPool, W.pool)
         /\ \A j \in Objects \ ToSet(b) : W.pool[j].NextIndex = ObjPool[j].NextIndex
<1>1. /\ ObjPool \in [Objects -> ObjectType] /\ PendingPoolIdx \in Indices
      /\ ToSet(b) \subseteq Objects
  BY Members DEF TypeOK, ObjectType, Linked
<1>2. CASE next = MAX_CONCURRENT_ACTIONS
  <2>1. W.pool = ObjPool /\ W.head = PendingPoolIdx
    BY <1>2
  <2>2. ToSet(b) \ {next} = ToSet(b)
    BY <1>1, <1>2, IndexRange
  <2>3. SameData(ObjPool, ObjPool)
    BY DEF SameData
  <2> QED
    BY <1>1, <2>1, <2>2, <2>3
<1>3. CASE next # MAX_CONCURRENT_ACTIONS
  <2>1. W = RemoveFromList(ObjPool, PendingPoolIdx, next) /\ next \in ToSet(b)
    BY <1>3
  <2> QED
    BY <1>1, <2>1, RemoveIs
<1> QED
  BY <1>2, <1>3

\* What the release by t does to the pool and to its lists.
LEMMA ReleaseIs ==
  ASSUME PoolInv, NEW t \in Threads, ReleasePoolObj(t)
  PROVE  /\ ObjIdx[t] \in Holders
         /\ \/ Searched(ObjIdx[t]) = MAX_CONCURRENT_ACTIONS
            \/ Searched(ObjIdx[t]) \in Waiters /\ CalledUp(Searched(ObjIdx[t]), ObjIdx[t])
         /\ SyncObj' = IF Searched(ObjIdx[t]) = MAX_CONCURRENT_ACTIONS THEN SyncObj
                       ELSE [SyncObj EXCEPT ![Searched(ObjIdx[t])] = TRUE]
         /\ ObjPool' \in [Objects -> ObjectType]
         /\ ObjPool'[ObjIdx[t]].sd = SL_MAX_SOCKETS
         /\ \A j \in Objects \ {ObjIdx[t]} :
              /\ ObjPool'[j].ActionID = ObjPool[j].ActionID /\ ObjPool'[j].sd = ObjPool[j].sd
              /\ ObjPool'[j].v6 = ObjPool[j].v6 /\ ObjPool'[j].pRespArgs = ObjPool[j].pRespArgs
         /\ {FreePoolIdx', ActivePoolIdx', PendingPoolIdx'} \subseteq Indices
         /\ \E free, active, pending \in Seq(Objects) :
              /\ Linked(ObjPool', FreePoolIdx', free)
              /\ Linked(ObjPool', ActivePoolIdx', active)
              /\ Linked(ObjPool', PendingPoolIdx', pending)
              /\ ToSet(active) = Holders \ {ObjIdx[t]}
              /\ ToSet(pending) = Waiters \ {Searched(ObjIdx[t])}
              /\ ToSet(free) = (Objects \ (Holders \cup Waiters \cup Travellers)) \cup {ObjIdx[t]}
<1> USE DEF PoolInv
<1> DEFINE i == ObjIdx[t]
           next == Searched(i)
           woken == IF next = MAX_CONCURRENT_ACTIONS
                    THEN [pool |-> ObjPool, head |-> PendingPoolIdx]
                    ELSE RemoveFromList(ObjPool, PendingPoolIdx, next)
           gone == RemoveFromList(woken.pool, ActivePoolIdx, i)
           new == [ActionID |-> NoAction, sd |-> SL_MAX_SOCKETS, v6 |-> FALSE,
                   NextIndex |-> FreePoolIdx, pRespArgs |-> Nobody]
<1>1. /\ pc[t] = "release" /\ FreePoolIdx' = i
      /\ PendingPoolIdx' = woken.head
      /\ SyncObj' = IF next = MAX_CONCURRENT_ACTIONS THEN SyncObj
                    ELSE [SyncObj EXCEPT ![next] = TRUE]
      /\ ActivePoolIdx' = gone.head
      /\ ObjPool' = [gone.pool EXCEPT ![i] = new]
  BY DEF ReleasePoolObj, Goto, Searched
<1>2. i \in Holders /\ i \in Objects
  BY <1>1 DEF Holders, Owners, HasObj
<1>3. PICK f, a, b \in Seq(Objects) :
        /\ Linked(ObjPool, FreePoolIdx, f)
        /\ Linked(ObjPool, ActivePoolIdx, a)
        /\ Linked(ObjPool, PendingPoolIdx, b)
        /\ ToSet(a) = Holders
        /\ ToSet(b) = Waiters
        /\ ToSet(f) = Objects \ (Holders \cup Waiters \cup Travellers)
  BY DEF Lists
<1>4. /\ Holders \subseteq Objects /\ Waiters \subseteq Objects /\ Holders \cap Waiters = {}
      /\ i \notin Waiters /\ i \notin ToSet(f)
  BY <1>2, <1>3, Disjoint
<1>5. \/ next = MAX_CONCURRENT_ACTIONS /\ next \notin ToSet(b)
      \/ next \in ToSet(b) /\ CalledUp(next, i)
  BY <1>3, SearchedIs
<1> HIDE DEF next
<1>5a. woken = IF next = MAX_CONCURRENT_ACTIONS
               THEN [pool |-> ObjPool, head |-> PendingPoolIdx]
               ELSE RemoveFromList(ObjPool, PendingPoolIdx, next)
  OBVIOUS
<1> HIDE DEF woken
<1>6. /\ \E r : Linked(woken.pool, woken.head, r) /\ ToSet(r) = ToSet(b) \ {next}
      /\ woken.pool \in [Objects -> ObjectType] /\ woken.head \in Indices
      /\ SameData(ObjPool, woken.pool)
      /\ \A j \in Objects \ ToSet(b) : woken.pool[j].NextIndex = ObjPool[j].NextIndex
  <2>1. /\ TypeOK /\ Linked(ObjPool, PendingPoolIdx, b)
        /\ (next = MAX_CONCURRENT_ACTIONS /\ next \notin ToSet(b)) \/ next \in ToSet(b)
    BY <1>3, <1>5
  <2> HIDE DEF PoolInv
  <2> QED
    BY <1>5a, <2>1, CallUpIs, SMTT(30)
<1> DEFINE w == woken.pool
           h == ActivePoolIdx
<1>7. w \in [Objects -> ObjectType] /\ h \in Indices /\ i \in ToSet(a)
  BY <1>2, <1>3, <1>6 DEF TypeOK
<1>8. Linked(w, h, a)
  <2>1. \A j \in ToSet(a) : w[j].NextIndex = ObjPool[j].NextIndex
    BY <1>3, <1>4, <1>6
  <2> QED
    BY <1>3, <2>1, Frame
<1>9. gone = RemoveFromList(w, h, i)
  OBVIOUS
<1> HIDE DEF w, h, gone
<1>10. /\ \E r : Linked(gone.pool, gone.head, r) /\ ToSet(r) = ToSet(a) \ {i}
       /\ gone.pool \in [Objects -> ObjectType] /\ gone.head \in Indices
       /\ SameData(w, gone.pool)
       /\ \A j \in Objects \ ToSet(a) : gone.pool[j].NextIndex = w[j].NextIndex
  BY <1>7, <1>8, <1>9, RemoveIs
<1>11. new \in ObjectType /\ new.sd = SL_MAX_SOCKETS /\ new.NextIndex = FreePoolIdx
  BY PoolAssumption DEF TypeOK, ObjectType
<1> DEFINE g == gone.pool
           q == ObjPool'
<1>12. q = [g EXCEPT ![i] = new] /\ g \in [Objects -> ObjectType]
  BY <1>1, <1>10
<1> HIDE DEF new, g, q
<1>13. /\ q \in [Objects -> ObjectType] /\ q[i] = new
       /\ \A j \in Objects \ {i} : q[j] = g[j]
  BY <1>2, <1>11, <1>12
<1>14. /\ SameData(ObjPool, w) /\ SameData(w, g)
       /\ \A j \in Objects \ ToSet(b) : w[j].NextIndex = ObjPool[j].NextIndex
       /\ \A j \in Objects \ ToSet(a) : g[j].NextIndex = w[j].NextIndex
  BY <1>6, <1>10 DEF w, g
<1>15. \A j \in Objects \ {i} :
         /\ q[j].ActionID = ObjPool[j].ActionID /\ q[j].sd = ObjPool[j].sd
         /\ q[j].v6 = ObjPool[j].v6 /\ q[j].pRespArgs = ObjPool[j].pRespArgs
  BY <1>13, <1>14 DEF SameData
<1>16. PICK r : Linked(q, gone.head, r) /\ ToSet(r) = Holders \ {i}
  <2>1. PICK r : Linked(g, gone.head, r) /\ ToSet(r) = ToSet(a) \ {i}
    BY <1>10 DEF g
  <2>2. \A j \in ToSet(r) : q[j].NextIndex = g[j].NextIndex
    BY <1>3, <1>4, <1>13, <2>1
  <2>3. Linked(q, gone.head, r)
    BY <2>1, <2>2, Frame
  <2> QED
    BY <1>3, <2>1, <2>3
<1>17. PICK s : Linked(q, woken.head, s) /\ ToSet(s) = Waiters \ {next}
  <2>1. PICK s : Linked(w, woken.head, s) /\ ToSet(s) = ToSet(b) \ {next}
    BY <1>6 DEF w
  <2>2. \A j \in ToSet(s) : q[j].NextIndex = w[j].NextIndex
    BY <1>3, <1>4, <1>13, <1>14, <2>1
  <2>3. Linked(q, woken.head, s)
    BY <2>1, <2>2, Frame
  <2> QED
    BY <1>3, <2>1, <2>3
<1>18. PICK u : Linked(q, i, u) /\ ToSet(u) = ToSet(f) \cup {i}
  <2>1. \A j \in ToSet(f) : q[j].NextIndex = ObjPool[j].NextIndex
    BY <1>3, <1>4, <1>13, <1>14
  <2>2. q[i].NextIndex = FreePoolIdx /\ i \in Objects \ ToSet(f)
    BY <1>2, <1>4, <1>11, <1>13
  <2>3. Linked(ObjPool, FreePoolIdx, f)
    BY <1>3
  <2> QED
    BY <2>1, <2>2, <2>3, PushFront
<1>19. r \in Seq(Objects) /\ s \in Seq(Objects) /\ u \in Seq(Objects)
  BY <1>16, <1>17, <1>18 DEF Linked
<1>20. \E free, active, pending \in Seq(Objects) :
         /\ Linked(ObjPool', FreePoolIdx', free)
         /\ Linked(ObjPool', ActivePoolIdx', active)
         /\ Linked(ObjPool', PendingPoolIdx', pending)
         /\ ToSet(active) = Holders \ {i}
         /\ ToSet(pending) = Waiters \ {next}
         /\ ToSet(free) = (Objects \ (Holders \cup Waiters \cup Travellers)) \cup {i}
  BY <1>1, <1>3, <1>16, <1>17, <1>18, <1>19 DEF q
<1>21. {FreePoolIdx', ActivePoolIdx', PendingPoolIdx'} \subseteq Indices
  BY <1>1, <1>2, <1>6, <1>10, IndexRange
<1>22. next = MAX_CONCURRENT_ACTIONS \/ (next \in Waiters /\ CalledUp(next, i))
  BY <1>3, <1>5
<1>23. ObjPool' \in [Objects -> ObjectType] /\ ObjPool'[i].sd = SL_MAX_SOCKETS
  BY <1>11, <1>13 DEF q
<1> QED
  BY <1>1, <1>2, <1>15, <1>20, <1>21, <1>22, <1>23 DEF next, q

LEMMA ReleasePoolObjStep ==
  ASSUME PoolInv, NEW t \in Threads, ReleasePoolObj(t)
  PROVE  PoolInv'
<1> USE DEF PoolInv
<1> DEFINE i == ObjIdx[t]
           next == Searched(i)
<1>1. /\ i \in Holders
      /\ next = MAX_CONCURRENT_ACTIONS \/ next \in Waiters
      /\ SyncObj' = IF next = MAX_CONCURRENT_ACTIONS THEN SyncObj
                    ELSE [SyncObj EXCEPT ![next] = TRUE]
      /\ ObjPool' \in [Objects -> ObjectType]
      /\ ObjPool'[i].sd = SL_MAX_SOCKETS
      /\ \A j \in Objects \ {i} :
           /\ ObjPool'[j].ActionID = ObjPool[j].ActionID /\ ObjPool'[j].sd = ObjPool[j].sd
           /\ ObjPool'[j].v6 = ObjPool[j].v6 /\ ObjPool'[j].pRespArgs = ObjPool[j].pRespArgs
      /\ {FreePoolIdx', ActivePoolIdx', PendingPoolIdx'} \subseteq Indices
      /\ \E free, active, pending \in Seq(Objects) :
           /\ Linked(ObjPool', FreePoolIdx', free)
           /\ Linked(ObjPool', ActivePoolIdx', active)
           /\ Linked(ObjPool', PendingPoolIdx', pending)
           /\ ToSet(active) = Holders \ {i}
           /\ ToSet(pending) = Waiters \ {next}
           /\ ToSet(free) = (Objects \ (Holders \cup Waiters \cup Travellers)) \cup {i}
  BY ReleaseIs
<1>2. /\ pc[t] = "release" /\ pc' = [pc EXCEPT ![t] = "idle"]
      /\ ActiveActionsBitmap' =
           ActiveActionsBitmap \ {Key(Call(ObjPool[i].ActionID, ObjPool[i].sd))}
      /\ ObjIdx' = [ObjIdx EXCEPT ![t] = MAX_CONCURRENT_ACTIONS]
      /\ answer' = [answer EXCEPT ![t] = Nobody]
      /\ UNCHANGED <<op, calls, ProtectionLost, asked, ping, rx, ActionIndex, OobOpcode>>
  BY DEF ReleasePoolObj, Goto
<1> HIDE DEF next, i
<1>3. /\ i \in Objects /\ ObjIdx[t] = i /\ next # i /\ MAX_CONCURRENT_ACTIONS \notin Objects
      /\ next \in Objects \/ next = MAX_CONCURRENT_ACTIONS
      /\ pc'[t] = "idle" /\ \A u \in Threads \ {t} : pc'[u] = pc[u]
      /\ ObjIdx'[t] = MAX_CONCURRENT_ACTIONS
      /\ \A u \in Threads \ {t} : ObjIdx'[u] = ObjIdx[u]
      /\ answer'[t] = Nobody /\ Nobody # t /\ \A u \in Threads \ {t} : answer'[u] = answer[u]
      /\ \A u \in Threads \ {t} : HasObj(u) => ObjIdx[u] # i /\ ObjIdx[u] \in Objects
  <2>1. i \in Objects /\ next # i /\ MAX_CONCURRENT_ACTIONS \notin Objects
        /\ (next \in Objects \/ next = MAX_CONCURRENT_ACTIONS)
    BY <1>1, Disjoint, IndexRange
  <2> QED
    BY <1>2, <2>1, PoolAssumption DEF TypeOK, Owners, HasObj, i
<1>4. /\ \A j \in Objects : SyncObj'[j] <=> SyncObj[j] \/ j = next
      /\ SyncObj' \in [Objects -> BOOLEAN]
  BY <1>1, <1>3 DEF TypeOK
<1>5. ~ SyncObj[i]
  BY <1>2, <1>3 DEF Signals, HasObj
<1>6. next \in Objects => \E u \in Threads \ {t} : ObjIdx[u] = next /\ pc[u] = "pend"
  BY <1>1, <1>2, <1>3 DEF Waiters
<1>7. TypeOK'
  <2>1. ObjIdx' \in [Threads -> Indices] /\ answer' \in [Threads -> Threads \cup {Nobody}]
    BY <1>2, IndexRange DEF TypeOK
  <2>2. ActiveActionsBitmap' \subseteq {Key(o) : o \in Ops}
    BY <1>2 DEF TypeOK
  <2> QED
    BY <1>1, <1>2, <1>4, <2>1, <2>2 DEF TypeOK, ObjectType, ping
<1>8. Owners'
  BY <1>3 DEF Owners, HasObj
<1>9. Contents'
  <2>1. ASSUME NEW u \in Threads, HasObj(u)'
        PROVE  /\ ObjPool'[ObjIdx'[u]].ActionID = op'[u].action
               /\ ObjPool'[ObjIdx'[u]].sd = op'[u].sd
               /\ pc'[u] \in {"family", "cmd", "wait", "release"} =>
                    ObjPool'[ObjIdx'[u]].pRespArgs = u
               /\ pc'[u] \in {"cmd", "wait", "release"} /\ op'[u].v6 /\ op'[u].action # "RECV" =>
                    ObjPool'[ObjIdx'[u]].v6
               /\ pc'[u] = "family" => op'[u].action = "GETHOSTBYSERVICE"
    <3>1. u # t /\ HasObj(u) /\ ObjIdx'[u] = ObjIdx[u] /\ ObjIdx[u] \in Objects \ {i}
      BY <1>3, <2>1 DEF HasObj
    <3> QED
      BY <1>1, <1>2, <1>3, <3>1 DEF Contents
  <2>2. ASSUME NEW j \in Objects, \A u \in Threads : ObjIdx'[u] # j
        PROVE  ObjPool'[j].sd = SL_MAX_SOCKETS
    <3>1. CASE j = i
      BY <1>1, <3>1
    <3>2. CASE j # i
      <4>1. \A u \in Threads : ObjIdx[u] # j
        BY <1>3, <2>2, <3>2
      <4> QED
        BY <1>1, <3>2, <4>1 DEF Contents
    <3> QED
      BY <3>1, <3>2
  <2> QED
    BY <2>1, <2>2 DEF Contents
<1>10. Keys'
  <2>1. \A u \in Threads : Running(u)' <=> Running(u) /\ u # t
    BY <1>3 DEF Running
  <2>2. Running(t)
    BY <1>2 DEF Running
  <2>3. Key(Call(ObjPool[i].ActionID, ObjPool[i].sd)) = Key(op[t])
    BY <1>2, <1>3 DEF Contents, HasObj, Key, Call, OnSocket
  <2>4. ActiveActionsBitmap = {Key(op[u]) : u \in {v \in Threads : Running(v)}}
    BY DEF Keys
  <2>5. ActiveActionsBitmap' = {Key(op[u]) : u \in {v \in Threads : Running(v)'}}
    BY <1>2, <2>1, <2>2, <2>3, <2>4 DEF Keys
  <2> QED
    BY <1>2, <2>1, <2>5 DEF Keys
<1>11. Signals'
  <2>1. \A j \in Objects : SyncObj'[j] =>
          \E u \in Threads : ObjIdx'[u] = j /\ pc'[u] \in {"pend", "wait"}
    BY <1>3, <1>4, <1>5, <1>6 DEF Signals
  <2>2. \A u \in Threads :
          /\ pc'[u] = "wait" /\ SyncObj'[ObjIdx'[u]] => answer'[u] = u
          /\ answer'[u] = u => pc'[u] \in {"wait", "release"}
          /\ pc'[u] = "release" /\ op'[u].action = "RECV" => answer'[u] = u
    <3>1. ASSUME NEW u \in Threads \ {t}, pc[u] = "wait", SyncObj'[ObjIdx[u]]
          PROVE  SyncObj[ObjIdx[u]]
      <4>1. ObjIdx[u] \in Objects /\ ObjIdx[u] # next
        BY <1>3, <1>6, <3>1 DEF Owners, HasObj
      <4> QED
        BY <1>4, <3>1, <4>1
    <3> QED
      BY <1>2, <1>3, <3>1 DEF Signals
  <2>3. \A n \in asked \cup {rx} : n.by \in Threads =>
          pc'[n.by] = "wait" /\ op'[n.by] = n.op /\ answer'[n.by] # n.by
    BY <1>2, <1>3 DEF Signals
  <2>4. rx.by \in Threads => ActionIndex = ObjIdx'[rx.by] /\ rx \notin asked
    BY <1>2, <1>3 DEF Signals
  <2> QED
    BY <1>2, <2>1, <2>2, <2>3, <2>4 DEF Signals
<1>12. Pings'
  <2>1. \A u \in Threads : InPing(u)' <=> InPing(u) /\ u # t
    BY <1>2, <1>3 DEF InPing, HasObj
  <2>2. Reports' = Reports
    BY <1>2 DEF Reports
  <2> QED
    BY <1>2, <1>3, <2>1, <2>2 DEF Pings, ping
<1>13. Lists'
  <2>1. \A u \in Threads \ {t} :
          /\ pc'[u] = pc[u] /\ ObjIdx'[u] = ObjIdx[u]
          /\ InTransit(u)' <=> InTransit(u) \/ (pc[u] = "pend" /\ ObjIdx[u] = next)
    BY <1>3, <1>4 DEF InTransit, Owners, HasObj
  <2>2. pc'[t] = "idle" /\ ~ InTransit(t)' /\ ~ InTransit(t) /\ pc[t] = "release"
    BY <1>2, <1>3 DEF InTransit
  <2>3. Holders' = Holders \ {i}
    BY <1>3, <2>1, <2>2 DEF Holders, HasObj
  <2>4. Waiters' = Waiters \ {next}
    BY <2>1, <2>2 DEF Waiters
  <2>5. Travellers' = Travellers \cup ({next} \cap Waiters)
    <3>1. CASE next = MAX_CONCURRENT_ACTIONS
      <4>1. \A u \in Threads \ {t} : pc[u] = "pend" => ObjIdx[u] # next
        BY <1>3, <3>1 DEF HasObj
      <4>2. next \notin Waiters
        BY <1>3, <3>1, Disjoint
      <4> QED
        BY <2>1, <2>2, <4>1, <4>2 DEF Travellers
    <3>2. CASE next \in Waiters
      <4>1. PICK w \in Threads : ObjIdx[w] = next /\ pc[w] = "pend" /\ ~ InTransit(w) /\ w # t
        BY <2>2, <3>2 DEF Waiters
      <4> QED
        BY <2>1, <2>2, <3>2, <4>1 DEF Travellers
    <3> QED
      BY <1>1, <3>1, <3>2
  <2>6. Objects \ (Holders' \cup Waiters' \cup Travellers')
          = (Objects \ (Holders \cup Waiters \cup Travellers)) \cup {i}
    BY <1>1, <1>3, <2>3, <2>4, <2>5, Disjoint
  <2> HIDE DEF PoolInv
  <2> QED
    BY <1>1, <2>3, <2>4, <2>6 DEF Lists
<1> QED
  BY <1>7, <1>8, <1>9, <1>10, <1>11, <1>12, <1>13

-------------------------------------------------------------------------------
(* The invariant holds *)

LEMMA PoolInit ==
  ASSUME Init
  PROVE  PoolInv
<1> DEFINE M == MAX_CONCURRENT_ACTIONS
           free == [k \in 1 .. M |-> k - 1]
<1>1. M \in Nat \ {0} /\ Objects = 0 .. M - 1 /\ M \notin Objects /\ Indices = 0 .. M
  BY PoolAssumption DEF Objects, Indices
<1>2. /\ \A t \in Threads : pc[t] = "idle" /\ ObjIdx[t] = M /\ answer[t] = Nobody /\ Nobody # t
      /\ \A t \in Threads : ~ HasObj(t) /\ ~ Running(t) /\ ~ InTransit(t) /\ ~ InPing(t)
      /\ op \in [Threads -> Ops]
      /\ \A i \in Objects : ObjPool[i] = [ActionID |-> NoAction, sd |-> SL_MAX_SOCKETS,
                                          v6 |-> FALSE, NextIndex |-> i + 1, pRespArgs |-> Nobody]
      /\ \A i \in Objects : SyncObj[i] = FALSE
      /\ NoMsg.by = Nobody
  BY StartsFromOps, PoolAssumption
     DEF Init, ObjInit, HasObj, Running, InTransit, InPing, NoMsg
<1>2a. ASSUME NEW i \in Objects
       PROVE  ObjPool[i].NextIndex = i + 1 /\ ObjPool[i].sd = SL_MAX_SOCKETS
  <2>1. ObjPool[i] = [ActionID |-> NoAction, sd |-> SL_MAX_SOCKETS,
                      v6 |-> FALSE, NextIndex |-> i + 1, pRespArgs |-> Nobody]
    BY <1>2
  <2> QED
    BY <2>1
<1>3. Holders = {} /\ Waiters = {} /\ Travellers = {}
  BY <1>2 DEF Holders, Waiters, Travellers
<1>4. TypeOK
  <2>1. ObjPool \in [Objects -> [ActionID : Actions \cup {NoAction},
                                 sd : 0 .. SL_MAX_SOCKETS, v6 : BOOLEAN,
                                 NextIndex : Indices, pRespArgs : Threads \cup {Nobody}]]
    <3>1. \A i \in Objects : i + 1 \in Indices
      BY <1>1
    <3>2. SL_MAX_SOCKETS \in 0 .. SL_MAX_SOCKETS
      BY PoolAssumption
    <3>3. \A n \in Indices :
            [ActionID |-> NoAction, sd |-> SL_MAX_SOCKETS, v6 |-> FALSE,
             NextIndex |-> n, pRespArgs |-> Nobody]
              \in [ActionID : Actions \cup {NoAction},
                   sd : 0 .. SL_MAX_SOCKETS, v6 : BOOLEAN,
                   NextIndex : Indices, pRespArgs : Threads \cup {Nobody}]
      BY <3>2
    <3> QED
      BY <3>1, <3>3 DEF Init, ObjInit
  <2>2. {FreePoolIdx, ActivePoolIdx, PendingPoolIdx, ActionIndex} \subseteq Indices
    BY <1>1 DEF Init
  <2>3. calls \in 0 .. MaxCalls
    BY PoolAssumption DEF Init
  <2>4. /\ pc \in [Threads -> {"idle", "pend", "again", "args", "family", "cmd", "ping",
                               "wait", "release"}]
        /\ ObjIdx \in [Threads -> Indices] /\ SyncObj \in [Objects -> BOOLEAN]
        /\ answer \in [Threads -> Threads \cup {Nobody}]
    BY <1>1 DEF Init
  <2> QED
    BY <1>2, <2>1, <2>2, <2>3, <2>4 DEF TypeOK, Init
<1>5. Owners /\ Keys /\ Pings
  <2>1. Owners
    BY <1>1, <1>2 DEF Owners
  <2>2. Keys
    BY <1>2 DEF Keys, Init
  <2>3. Reports = {}
    BY DEF Reports, Init
  <2> QED
    BY <1>2, <2>1, <2>2, <2>3 DEF Pings, HasObj
<1>6. Contents
  BY <1>2, <1>2a DEF Contents
<1>7. Signals
  BY <1>2 DEF Signals, Init
<1>8. Lists
  <2>1. free \in Seq(Objects) /\ Len(free) = M /\ \A k \in 1 .. M : free[k] = k - 1
    BY <1>1
  <2> HIDE DEF free
  <2>2. free # <<>> /\ free[1] = 0
    BY <1>1, <2>1
  <2>3. Linked(ObjPool, FreePoolIdx, free)
    <3>1. FreePoolIdx = 0
      BY DEF Init
    <3>2. \A j, k \in 1 .. M : free[j] = free[k] => j = k
      BY <1>1, <2>1
    <3>3. ASSUME NEW k \in 1 .. M
          PROVE  ObjPool[free[k]].NextIndex = IF k = M THEN M ELSE free[k + 1]
      <4>1. free[k] = k - 1 /\ k - 1 \in Objects /\ (k = M \/ free[k + 1] = k)
        BY <1>1, <2>1
      <4>2. ObjPool[k - 1].NextIndex = k
        <5>1. ObjPool[k - 1].NextIndex = (k - 1) + 1
          BY <1>2a, <4>1
        <5> QED
          BY <1>1, <5>1
      <4> QED
        BY <4>1, <4>2
    <3> QED
      BY <2>1, <2>2, <3>1, <3>2, <3>3 DEF Linked
  <2>4. ToSet(free) = Objects
    <3>1. ToSet(free) = {free[k] : k \in 1 .. M}
      BY <2>1, Members
    <3>2. \A i \in Objects : i + 1 \in 1 .. M /\ free[i + 1] = i
      BY <1>1, <2>1
    <3>3. \A i \in Objects : i \in ToSet(free)
      BY <3>1, <3>2
    <3>4. ToSet(free) \subseteq Objects
      BY <2>1, Members
    <3> QED
      BY <3>3, <3>4
  <2>5. /\ Linked(ObjPool, M, <<>>) /\ ToSet(<<>>) = {} /\ <<>> \in Seq(Objects)
    <3>1. <<>> \in Seq(Objects) /\ Len(<<>>) = 0
      OBVIOUS
    <3>2. ToSet(<<>>) = {<<>>[k] : k \in 1 .. Len(<<>>)}
      BY <3>1, Members
    <3>3. 1 .. Len(<<>>) = {}
      BY <3>1
    <3>4. ToSet(<<>>) = {}
      BY <3>2, <3>3
    <3>5. Linked(ObjPool, M, <<>>)
      BY <3>1, <3>3 DEF Linked
    <3> QED
      BY <3>1, <3>4, <3>5
  <2>6. ActivePoolIdx = M /\ PendingPoolIdx = M
    BY DEF Init
  <2>7. Objects \ (Holders \cup Waiters \cup Travellers) = Objects
    BY <1>3
  <2> QED
    BY <1>3, <2>1, <2>3, <2>4, <2>5, <2>6, <2>7 DEF Lists
<1> QED
  BY <1>4, <1>5, <1>6, <1>7, <1>8 DEF PoolInv

LEMMA PoolStep ==
  ASSUME CallKinds, PlainPings, PoolInv, [Next]_vars
  PROVE  PoolInv'
<1>1. ASSUME NEW t \in Threads, WaitForPoolObj(t) \/ PingStartCallback(t) \/ CallStep(t)
      PROVE  PoolInv'
  BY <1>1, WaitForPoolObjStep, PingStartCallbackStep, PendWakeStep, PendRetryStep, SetArgsStep,
     SetFamilyStep, CmdAcceptedStep, CmdRefusedStep, AnswerWaitStep, ReleasePoolObjStep,
     PingCommandStep DEF CallStep
<1>2. CASE RxStep
  BY <1>2, MsgReadRecvStep, MsgReadAsyncStep, HandlerStep DEF RxStep
<1>3. CASE UNCHANGED vars
  <2>1. /\ UNCHANGED <<pc, op, ObjIdx, calls, ObjPool, FreePoolIdx, ActivePoolIdx,
                       PendingPoolIdx, ActiveActionsBitmap, SyncObj, ProtectionLost, asked>>
        /\ UNCHANGED <<pPingCallBackFunc, rx, ActionIndex, answer, OobOpcode>>
    BY <1>3 DEF vars, lists, ping
  <2>2. TypeOK'
    BY <2>1 DEF PoolInv, TypeOK
  <2>3. Owners' /\ Keys' /\ Lists'
    BY <2>1, KeepLists DEF PoolInv, HasObj, Running, InTransit
  <2>4. Contents' /\ Signals' /\ Pings'
    BY <2>1 DEF PoolInv, Contents, Signals, Pings, HasObj, InPing, Reports
  <2> QED
    BY <2>2, <2>3, <2>4 DEF PoolInv
<1> QED
  BY <1>1, <1>2, <1>3 DEF Next

\* Every state of the pool satisfies the invariant: who owns which object, what the
\* object says of the call, which bits and semaphores are set, and what is on each list.
THEOREM PoolInvariant ==
  ASSUME CallKinds, PlainPings
  PROVE  Spec => []PoolInv
<1>1. PoolInv /\ [Next]_vars => PoolInv'
  BY PoolStep
<1> QED
  BY <1>1, PoolInit, PTL DEF Spec

\* The control block holds only what it can hold: the heads and links stay in the pool
\* and every call has its place.
THEOREM PoolTypes ==
  ASSUME CallKinds, PlainPings
  PROVE  Spec => []TypeOK
<1>1. PoolInv => TypeOK
  BY DEF PoolInv
<1> QED
  BY <1>1, PoolInvariant, PTL

\* The three lists that share one link field stay lists: no loop, no element lost and none
\* on two of them, whatever the order in which calls take, wait for and put back objects.
THEOREM ListsArePartition ==
  ASSUME CallKinds, PlainPings
  PROVE  Spec => []ListsPartition
<1>1. PoolInv => ListsPartition
  BY ListsAreOrders DEF PoolInv
<1> QED
  BY <1>1, PoolInvariant, PTL

\* The answer to a call finds the object of that call, whatever word follows the lookup
\* table in memory and whatever IPv6 calls are in front of it, and the object is still
\* that call's when the handler uses it.
THEOREM AnswersFindTheirCalls ==
  ASSUME CallKinds, PlainPings
  PROVE  Spec => []AnswerFindsItsCall
<1>1. PoolInv => AnswerFindsItsCall
  BY AnswersFind
<1> QED
  BY <1>1, PoolInvariant, PTL

-------------------------------------------------------------------------------
(* The pool implements SlActions *)

\* The stage of a call, before and after a step.
Stage(t) ==
  CASE pc[t] \in {"idle", "ping"} -> "out"
    [] InTransit(t) -> "called"
    [] pc[t] = "pend" /\ ~ InTransit(t) -> "pending"
    [] pc[t] \in {"args", "family", "cmd"} -> "active"
    [] pc[t] = "wait" -> IF answer[t] = t THEN "answered" ELSE "asked"
    [] pc[t] = "release" -> IF answer[t] = t THEN "answered"
                            ELSE IF op[t].action = "RECV" THEN "asked"
                            ELSE "active"

LEMMA StageNow ==
  ASSUME NEW t \in Threads
  PROVE  /\ pc[t] \in {"idle", "ping"} => st[t] = "out"
         /\ InTransit(t) => st[t] = "called"
         /\ pc[t] = "pend" /\ ~ InTransit(t) => st[t] = "pending"
         /\ pc[t] \in {"args", "family", "cmd"} => st[t] = "active"
         /\ pc[t] = "wait" => st[t] = IF answer[t] = t THEN "answered" ELSE "asked"
         /\ pc[t] = "release" => st[t] = IF answer[t] = t THEN "answered"
                                         ELSE IF op[t].action = "RECV" THEN "asked"
                                         ELSE "active"
<1>1. InTransit(t) => pc[t] \in {"again", "pend"}
  BY DEF InTransit
<1>2. st[t] = Stage(t)
  BY DEF st, Stage
<1> QED
  BY <1>1, <1>2 DEF Stage

LEMMA StageNext ==
  ASSUME NEW t \in Threads
  PROVE  /\ pc'[t] \in {"idle", "ping"} => st'[t] = "out"
         /\ InTransit(t)' => st'[t] = "called"
         /\ pc'[t] = "pend" /\ ~ InTransit(t)' => st'[t] = "pending"
         /\ pc'[t] \in {"args", "family", "cmd"} => st'[t] = "active"
         /\ pc'[t] = "wait" => st'[t] = IF answer'[t] = t THEN "answered" ELSE "asked"
         /\ pc'[t] = "release" => st'[t] = IF answer'[t] = t THEN "answered"
                                           ELSE IF op'[t].action = "RECV" THEN "asked"
                                           ELSE "active"
<1>1. InTransit(t)' => pc'[t] \in {"again", "pend"}
  BY DEF InTransit
<1>2. st'[t] = Stage(t)'
  BY DEF st, Stage
<1> QED
  BY <1>1, <1>2 DEF Stage

LEMMA RunsIs ==
  ASSUME PoolInv, NEW t \in Threads
  PROVE  /\ Abstract!Runs(t) <=> Running(t)
         /\ st[t] = "pending" <=> pc[t] = "pend" /\ ~ InTransit(t)
<1>1. /\ pc[t] \in {"idle", "pend", "again", "args", "family", "cmd", "ping", "wait", "release"}
      /\ pc[t] = "again" => InTransit(t)
      /\ InTransit(t) => pc[t] \in {"again", "pend"}
  BY DEF PoolInv, TypeOK, InTransit
<1> QED
  BY <1>1, StageNow DEF Abstract!Runs, Running

LEMMA BusyIs ==
  ASSUME PoolInv, NEW o \in Ops
  PROVE  Abstract!Busy(o) <=> Key(o) \in ActiveActionsBitmap
<1>1. \A c : Abstract!Key(c) = Key(c)
  BY DEF Abstract!Key, Key, Abstract!OnSocket, OnSocket
<1>2. ActiveActionsBitmap = {Key(op[t]) : t \in {u \in Threads : Running(u)}}
  BY DEF PoolInv, Keys
<1> QED
  BY <1>1, <1>2, RunsIs DEF Abstract!Busy

LEMMA StageType ==
  ASSUME PoolInv, PoolInv'
  PROVE  st \in [Threads -> Abstract!Statuses] /\ st' \in [Threads -> Abstract!Statuses]
<1>1. \A t \in Threads : st[t] \in Abstract!Statuses
  BY StageNow DEF PoolInv, TypeOK, Abstract!Statuses, InTransit
<1>2. \A t \in Threads : st'[t] \in Abstract!Statuses
  BY StageNext DEF PoolInv, TypeOK, Abstract!Statuses, InTransit
<1> DEFINE now(t) == Stage(t)
           next(t) == Stage(t)'
<1>3. st = [t \in Threads |-> now(t)] /\ st' = [t \in Threads |-> next(t)]
  BY DEF st, Stage
<1> HIDE DEF now, next
<1> QED
  BY <1>1, <1>2, <1>3

\* A step that changes the stage of no task but t.
LEMMA StageOf ==
  ASSUME PoolInv, PoolInv',
         NEW t \in Threads, NEW x, st'[t] = x, \A u \in Threads \ {t} : st'[u] = st[u]
  PROVE  st' = [st EXCEPT ![t] = x]
BY StageType

LEMMA StageSame ==
  ASSUME PoolInv, PoolInv', \A u \in Threads : st'[u] = st[u]
  PROVE  st' = st
BY StageType

LEMMA SameStage ==
  ASSUME PoolInv, PoolInv', NEW u \in Threads,
         pc'[u] = pc[u], op'[u] = op[u], answer'[u] = answer[u], InTransit(u)' <=> InTransit(u)
  PROVE  st'[u] = st[u]
<1>1. /\ pc[u] \in {"idle", "pend", "again", "args", "family", "cmd", "ping", "wait", "release"}
      /\ pc[u] = "again" => InTransit(u)
  BY DEF PoolInv, TypeOK, InTransit
<1> QED
  BY <1>1, StageNow, StageNext

\* A call that contends for its turn.
LEMMA ContendStages ==
  ASSUME PoolInv, PoolInv', NEW t \in Threads, NEW o \in Ops, NEW i \in Objects,
         pc[t] \in {"idle", "again"}, ObjIdx[t] \in {i, MAX_CONCURRENT_ACTIONS},
         pc' = [pc EXCEPT ![t] = IF Key(o) \in ActiveActionsBitmap THEN "pend" ELSE "args"],
         op' = [op EXCEPT ![t] = o], ObjIdx' = [ObjIdx EXCEPT ![t] = i],
         UNCHANGED <<SyncObj, answer>>
  PROVE  st' = [st EXCEPT ![t] = IF Abstract!Busy(o) THEN "pending" ELSE "active"]
<1>1. /\ pc'[t] = IF Key(o) \in ActiveActionsBitmap THEN "pend" ELSE "args"
      /\ ObjIdx'[t] = i
      /\ \A u \in Threads \ {t} : pc'[u] = pc[u] /\ op'[u] = op[u] /\ ObjIdx'[u] = ObjIdx[u]
  BY DEF PoolInv, TypeOK
<1>2. \A u \in Threads \ {t} : st'[u] = st[u]
  BY <1>1, SameStage DEF InTransit
<1>3. ~ SyncObj[i]
  <2>1. \A u \in Threads \ {t} : ObjIdx[u] # i
    <3>1. HasObj(t)'
      BY <1>1 DEF HasObj
    <3> QED
      BY <1>1, <3>1 DEF PoolInv, Owners
  <2> QED
    BY <2>1 DEF PoolInv, Signals
<1>4. st'[t] = IF Abstract!Busy(o) THEN "pending" ELSE "active"
  <2>1. CASE Key(o) \in ActiveActionsBitmap
    <3>1. pc'[t] = "pend" /\ ~ InTransit(t)'
      BY <1>1, <1>3, <2>1 DEF InTransit
    <3> QED
      BY <2>1, <3>1, BusyIs, StageNext
  <2>2. CASE Key(o) \notin ActiveActionsBitmap
    BY <1>1, <2>2, BusyIs, StageNext
  <2> QED
    BY <2>1, <2>2
<1> QED
  BY <1>2, <1>4, StageOf

LEMMA StartRefines ==
  ASSUME PoolInv, PoolInv', NEW t \in Threads, WaitForPoolObj(t)
  PROVE  Abstract!Start(t)
<1>1. /\ FreePoolIdx \in Objects /\ pc[t] = "idle" /\ UNCHANGED <<SyncObj, answer>>
      /\ ObjIdx[t] = MAX_CONCURRENT_ACTIONS
  BY IndexRange DEF WaitForPoolObj, PoolInv, TypeOK, Owners, HasObj
<1>2. PICK o \in Ops :
        /\ pc' = [pc EXCEPT ![t] = IF Key(o) \in ActiveActionsBitmap THEN "pend" ELSE "args"]
        /\ op' = [op EXCEPT ![t] = o]
        /\ ObjIdx' = [ObjIdx EXCEPT ![t] = FreePoolIdx]
  BY DEF WaitForPoolObj, Contend
<1>3. st' = [st EXCEPT ![t] = IF Abstract!Busy(o) THEN "pending" ELSE "active"]
  BY <1>1, <1>2, ContendStages
<1>4. st[t] = "out"
  BY <1>1, StageNow
<1> QED
  BY <1>2, <1>3, <1>4 DEF Abstract!Start

LEMMA RetryRefines ==
  ASSUME PoolInv, PoolInv', NEW t \in Threads, PendRetry(t)
  PROVE  Abstract!Retry(t)
<1>1. /\ pc[t] = "again" /\ UNCHANGED <<op, ObjIdx, SyncObj, answer>>
      /\ ObjIdx[t] \in Objects /\ op[t] \in Ops
      /\ op' = [op EXCEPT ![t] = op[t]] /\ ObjIdx' = [ObjIdx EXCEPT ![t] = ObjIdx[t]]
  BY DEF PendRetry, PoolInv, TypeOK, Owners, HasObj
<1>2. pc' = [pc EXCEPT ![t] = IF Key(op[t]) \in ActiveActionsBitmap THEN "pend" ELSE "args"]
  BY DEF PendRetry, Contend
<1>3. st' = [st EXCEPT ![t] = IF Abstract!Busy(op[t]) THEN "pending" ELSE "active"]
  BY <1>1, <1>2, ContendStages
<1>4. st[t] = "called"
  BY <1>1, StageNow DEF InTransit
<1> QED
  BY <1>1, <1>3, <1>4 DEF Abstract!Retry

LEMMA AskRefines ==
  ASSUME PoolInv, PoolInv', NEW t \in Threads, CmdAccepted(t)
  PROVE  Abstract!Ask(t)
<1>1. /\ pc[t] = "cmd" /\ pc'[t] = "wait" /\ UNCHANGED <<op, ObjIdx, SyncObj, answer>>
      /\ \A u \in Threads \ {t} : pc'[u] = pc[u]
  BY DEF CmdAccepted, Goto, PoolInv, TypeOK
<1>2. \A u \in Threads \ {t} : st'[u] = st[u]
  BY <1>1, SameStage DEF InTransit
<1>3. answer[t] # t
  BY <1>1 DEF PoolInv, Signals
<1>4. st[t] = "active" /\ st'[t] = "asked"
  BY <1>1, <1>3, StageNow, StageNext
<1>5. st' = [st EXCEPT ![t] = "asked"]
  BY <1>2, <1>4, StageOf
<1> QED
  BY <1>1, <1>4, <1>5 DEF Abstract!Ask

\* The answer to the call of t is delivered.
LEMMA DeliverRefines ==
  ASSUME PoolInv, PoolInv', NEW t \in Threads, pc[t] = "wait", answer[t] # t,
         answer' = [answer EXCEPT ![t] = t],
         SyncObj' = [SyncObj EXCEPT ![ObjIdx[t]] = TRUE],
         UNCHANGED <<pc, op, ObjIdx>>
  PROVE  Abstract!Answer(t)
<1>1. /\ answer'[t] = t /\ \A u \in Threads \ {t} : answer'[u] = answer[u]
      /\ \A u \in Threads \ {t} : HasObj(u) => SyncObj'[ObjIdx[u]] = SyncObj[ObjIdx[u]]
  <2>1. answer \in [Threads -> Threads \cup {Nobody}] /\ SyncObj \in [Objects -> BOOLEAN]
    BY DEF PoolInv, TypeOK
  <2>2. \A u \in Threads \ {t} : HasObj(u) => ObjIdx[u] \in Objects /\ ObjIdx[u] # ObjIdx[t]
    BY DEF PoolInv, Owners
  <2> QED
    BY <2>1, <2>2
<1>2. \A u \in Threads \ {t} : st'[u] = st[u]
  BY <1>1, SameStage DEF InTransit, HasObj
<1>3. st[t] = "asked" /\ st'[t] = "answered"
  BY <1>1, StageNow, StageNext
<1>4. st' = [st EXCEPT ![t] = "answered"]
  BY <1>2, <1>3, StageOf
<1> QED
  BY <1>3, <1>4 DEF Abstract!Answer

LEMMA StutterRefines ==
  ASSUME PoolInv, PoolInv', UNCHANGED <<op, answer>>,
         \A u \in Threads : st'[u] = st[u]
  PROVE  UNCHANGED Abstract!vars
BY StageSame DEF Abstract!vars

LEMMA ReleaseRefines ==
  ASSUME PoolInv, PoolInv', NEW t \in Threads, ReleasePoolObj(t)
  PROVE  Abstract!Release(t)
<1> DEFINE i == ObjIdx[t]
           next == Searched(i)
<1>1. /\ i \in Objects /\ pc[t] = "release" /\ pc'[t] = "idle"
      /\ \A u \in Threads \ {t} : /\ pc'[u] = pc[u] /\ ObjIdx'[u] = ObjIdx[u]
                                  /\ answer'[u] = answer[u]
      /\ UNCHANGED op
  BY DEF ReleasePoolObj, Goto, PoolInv, TypeOK, Owners, HasObj
<1>2. /\ next = MAX_CONCURRENT_ACTIONS \/ (next \in Waiters /\ CalledUp(next, i))
      /\ next = MAX_CONCURRENT_ACTIONS => \A j \in Waiters : ~ CalledUp(j, i)
      /\ SyncObj' = IF next = MAX_CONCURRENT_ACTIONS THEN SyncObj
                    ELSE [SyncObj EXCEPT ![next] = TRUE]
  <2>1. PICK b : Linked(ObjPool, PendingPoolIdx, b) /\ ToSet(b) = Waiters
    BY DEF PoolInv, Lists
  <2> QED
    BY <2>1, SearchedIs, ReleaseIs
<1> HIDE DEF next
<1>3. st'[t] = "out" /\ st[t] \in {"active", "answered"} /\ st[t] # "pending"
  BY <1>1, StageNow, StageNext DEF PoolInv, Signals
<1>4. \A c : Abstract!OnSocket(c) <=> OnSocket(c)
  BY DEF Abstract!OnSocket, OnSocket
<1>5. ASSUME NEW u \in Threads, pc[u] = "pend"
      PROVE  CalledUp(ObjIdx[u], i) <=>
               /\ op[u].action = op[t].action
               /\ Abstract!OnSocket(op[u]) => op[u].sd = op[t].sd
  <2>1. /\ ObjPool[ObjIdx[u]].ActionID = op[u].action /\ ObjPool[ObjIdx[u]].sd = op[u].sd
        /\ ObjPool[i].ActionID = op[t].action /\ ObjPool[i].sd = op[t].sd
    BY <1>1, <1>5 DEF PoolInv, Contents, HasObj
  <2> HIDE DEF i
  <2> QED
    BY <1>4, <2>1 DEF CalledUp, OnSocket
<1>6. \A u \in Threads : Abstract!Successor(u, t) <=>
        pc[u] = "pend" /\ ~ InTransit(u) /\ CalledUp(ObjIdx[u], i)
  BY <1>5, RunsIs DEF Abstract!Successor
<1>7. CASE next = MAX_CONCURRENT_ACTIONS
  <2>1. \A u \in Threads \ {t} : st'[u] = st[u]
    <3>1. SyncObj' = SyncObj
      BY <1>2, <1>7
    <3> QED
      BY <1>1, <3>1, SameStage DEF InTransit
  <2>2. st' = [st EXCEPT ![t] = "out"]
    BY <1>3, <2>1, StageOf
  <2>3. ~ \E u \in Threads : Abstract!Successor(u, t)
    BY <1>2, <1>6, <1>7 DEF Waiters
  <2> QED
    BY <1>1, <1>3, <2>2, <2>3 DEF Abstract!Release
<1>8. CASE next \in Waiters /\ next # MAX_CONCURRENT_ACTIONS
  <2>1. PICK w \in Threads : ObjIdx[w] = next /\ pc[w] = "pend" /\ ~ InTransit(w)
    BY <1>8 DEF Waiters
  <2>2. Abstract!Successor(w, t) /\ w # t
    BY <1>1, <1>2, <1>6, <1>8, <2>1
  <2>3. /\ next \in Objects /\ SyncObj'[next] = TRUE
        /\ \A j \in Objects \ {next} : SyncObj'[j] = SyncObj[j]
    BY <1>2, <1>8, Disjoint DEF PoolInv, TypeOK
  <2>4. st'[w] = "called"
    BY <1>1, <2>1, <2>2, <2>3, StageNext DEF InTransit
  <2>5. \A u \in Threads \ {t, w} : st'[u] = st[u]
    <3>1. ASSUME NEW u \in Threads \ {t, w}
          PROVE  InTransit(u)' <=> InTransit(u)
      <4>1. pc[u] = "pend" => ObjIdx[u] \in Objects \ {next}
        BY <2>1 DEF PoolInv, Owners, HasObj
      <4> QED
        BY <1>1, <2>3, <4>1 DEF InTransit
    <3> QED
      BY <1>1, <3>1, SameStage
  <2>6. st' = [st EXCEPT ![t] = "out", ![w] = "called"]
    BY <1>3, <2>2, <2>4, <2>5, StageType
  <2> QED
    BY <1>1, <1>3, <2>2, <2>6 DEF Abstract!Release
<1> QED
  BY <1>2, <1>7, <1>8

\* The steps that the stages do not show.
LEMMA QuietRefines ==
  ASSUME PoolInv, PoolInv', NEW t \in Threads,
         \/ PendWake(t) \/ SetArgs(t) \/ SetFamily(t) \/ CmdRefused(t) \/ AnswerWait(t)
         \/ PingStartCallback(t) \/ PingCommand(t)
  PROVE  UNCHANGED Abstract!vars
<1>1. UNCHANGED <<op, ObjIdx, answer>> /\ \A u \in Threads \ {t} : pc'[u] = pc[u]
  BY DEF PendWake, SetArgs, SetFamily, CmdRefused, AnswerWait, PingStartCallback, PingCommand,
         Goto, PoolInv, TypeOK
<1>2. \A u \in Threads \ {t} : pc[u] = "pend" => SyncObj'[ObjIdx[u]] = SyncObj[ObjIdx[u]]
  <2>1. HasObj(t) => \A u \in Threads \ {t} : pc[u] = "pend" => ObjIdx[u] # ObjIdx[t]
    BY DEF PoolInv, Owners
  <2>2. CASE PendWake(t) \/ AnswerWait(t)
    <3>1. HasObj(t) /\ SyncObj' = [SyncObj EXCEPT ![ObjIdx[t]] = FALSE]
      BY <2>2 DEF PendWake, AnswerWait, Goto, HasObj
    <3> QED
      BY <2>1, <3>1 DEF PoolInv, TypeOK, Owners, HasObj
  <2>3. CASE \/ SetArgs(t) \/ SetFamily(t) \/ CmdRefused(t) \/ PingStartCallback(t)
             \/ PingCommand(t)
    BY <2>3 DEF SetArgs, SetFamily, CmdRefused, PingStartCallback, PingCommand
  <2> QED
    BY <2>2, <2>3
<1>3. \A u \in Threads \ {t} : st'[u] = st[u]
  BY <1>1, <1>2, SameStage DEF InTransit
<1>4. st'[t] = st[t]
  <2>1. CASE PendWake(t)
    <3>1. InTransit(t) /\ InTransit(t)'
      BY <2>1 DEF PendWake, Goto, InTransit, PoolInv, TypeOK
    <3> QED
      BY <3>1, StageNow, StageNext
  <2>2. CASE SetArgs(t) \/ SetFamily(t)
    <3>1. pc[t] \in {"args", "family", "cmd"} /\ pc'[t] \in {"args", "family", "cmd"}
      BY <2>2 DEF SetArgs, SetFamily, Goto, PoolInv, TypeOK
    <3> QED
      BY <3>1, StageNow, StageNext
  <2>3. CASE CmdRefused(t)
    <3>1. pc[t] = "cmd" /\ pc'[t] = "release" /\ op[t].action # "RECV" /\ answer[t] # t
      BY <2>3 DEF CmdRefused, Goto, PoolInv, TypeOK, Signals
    <3> QED
      BY <1>1, <3>1, StageNow, StageNext
  <2>4. CASE AnswerWait(t)
    <3>1. pc[t] = "wait" /\ pc'[t] = "release" /\ answer[t] = t
      BY <2>4 DEF AnswerWait, Goto, PoolInv, TypeOK, Signals
    <3> QED
      BY <1>1, <3>1, StageNow, StageNext
  <2>5. CASE PingStartCallback(t) \/ PingCommand(t)
    <3>1. pc[t] \in {"idle", "ping"} /\ pc'[t] \in {"idle", "ping"}
      BY <2>5 DEF PingStartCallback, PingCommand, Goto, PoolInv, TypeOK
    <3> QED
      BY <3>1, StageNow, StageNext
  <2> QED
    BY <2>1, <2>2, <2>3, <2>4, <2>5
<1> QED
  BY <1>1, <1>3, <1>4, StutterRefines

LEMMA RxRefines ==
  ASSUME CallKinds, PoolInv, PoolInv', RxStep
  PROVE  UNCHANGED Abstract!vars \/ \E t \in Threads : Abstract!Answer(t)
<1>1. CASE MsgReadRecv
  <2>1. PICK m \in asked :
          /\ m.by \in Threads
          /\ answer' = [answer EXCEPT ![m.by] = m.by]
          /\ SyncObj' = [SyncObj EXCEPT ![ObjIdx[m.by]] = TRUE]
          /\ UNCHANGED <<pc, op, ObjIdx>>
    BY <1>1, RecvDelivers
  <2>2. pc[m.by] = "wait" /\ answer[m.by] # m.by
    BY <2>1 DEF PoolInv, Signals
  <2> QED
    BY <2>1, <2>2, DeliverRefines
<1>2. CASE MsgReadAsync
  <2>1. UNCHANGED <<pc, op, ObjIdx, SyncObj, answer>>
    BY <1>2 DEF MsgReadAsync
  <2> QED
    BY <2>1, SameStage, StutterRefines DEF InTransit
<1>3. CASE HandleAsync \/ HandleService \/ HandlePing
  <2>1. UNCHANGED <<pc, op, ObjIdx>>
    BY <1>3, HandlerCases DEF HandlerEnds
  <2>2. CASE rx.by \in Threads /\ Deliver(ActionIndex, rx)
    <3>1. pc[rx.by] = "wait" /\ answer[rx.by] # rx.by
      BY <2>2 DEF PoolInv, Signals
    <3> QED
      BY <2>1, <2>2, <3>1, Handled, DeliverRefines
  <2>3. CASE UNCHANGED <<answer, SyncObj>>
    BY <2>1, <2>3, SameStage, StutterRefines DEF InTransit
  <2> QED
    BY <1>3, <2>2, <2>3, HandlerCases
<1> QED
  BY <1>1, <1>2, <1>3 DEF RxStep

\* The pool implements SlActions: every step of it is a start, a retry, an answer or an
\* end of a call there, or changes no stage of a call.
THEOREM PoolImplementsActions ==
  ASSUME CallKinds, PlainPings
  PROVE  Spec => ImplementsActions
<1>1. Init => Abstract!Init
  <2> SUFFICES ASSUME Init
               PROVE  Abstract!Init
    OBVIOUS
  <2>1. \A t \in Threads : st[t] = "out"
    BY StageNow DEF Init
  <2>2. st = [t \in Threads |-> "out"]
    BY <2>1 DEF Init, st
  <2>3. op \in [Threads -> Ops]
    BY StartsFromOps DEF Init
  <2> QED
    BY <2>2, <2>3 DEF Abstract!Init
<1>2. PoolInv /\ PoolInv' /\ [Next]_vars => [Abstract!Next]_Abstract!vars
  <2> SUFFICES ASSUME PoolInv, PoolInv', [Next]_vars
               PROVE  Abstract!Next \/ UNCHANGED Abstract!vars
    OBVIOUS
  <2>1. ASSUME NEW t \in Threads, WaitForPoolObj(t) \/ PingStartCallback(t) \/ CallStep(t)
        PROVE  Abstract!Next \/ UNCHANGED Abstract!vars
    BY <2>1, StartRefines, RetryRefines, AskRefines, ReleaseRefines, QuietRefines
       DEF CallStep, Abstract!Next
  <2>2. CASE RxStep
    BY <2>2, RxRefines DEF Abstract!Next
  <2>3. CASE UNCHANGED vars
    <3>1. UNCHANGED <<pc, op, ObjIdx, SyncObj, answer>>
      BY <2>3 DEF vars
    <3> QED
      BY <3>1, SameStage, StutterRefines DEF InTransit
  <2> QED
    BY <2>1, <2>2, <2>3 DEF Next
<1> QED
  BY <1>1, <1>2, PoolInvariant, PTL DEF Spec, ImplementsActions, Abstract!Spec

-------------------------------------------------------------------------------
(* What the pool has from SlActions *)

Discipline == INSTANCE SlActionsProofs

LEMMA SameDiscipline == Abstract!Spec => Discipline!Spec
<1>1. Abstract!Init => Discipline!Init
  BY DEF Abstract!Init, Discipline!Init
<1>2. [Abstract!Next]_Abstract!vars => [Discipline!Next]_Discipline!vars
  <2>1. \A o : Abstract!Key(o) = Discipline!Key(o)
               /\ (Abstract!OnSocket(o) <=> Discipline!OnSocket(o))
    BY DEF Abstract!Key, Discipline!Key, Abstract!OnSocket, Discipline!OnSocket
  <2>2. \A o : Abstract!Busy(o) <=> Discipline!Busy(o)
    BY <2>1 DEF Abstract!Busy, Discipline!Busy, Abstract!Runs, Discipline!Runs
  <2>3. \A t, u : Abstract!Successor(u, t) <=> Discipline!Successor(u, t)
    BY <2>1 DEF Abstract!Successor, Discipline!Successor
  <2>4. ASSUME NEW t \in Threads
        PROVE  /\ Abstract!Start(t) => Discipline!Start(t)
               /\ Abstract!Retry(t) => Discipline!Retry(t)
    BY <2>2 DEF Abstract!Start, Discipline!Start, Abstract!Retry, Discipline!Retry
  <2>5. ASSUME NEW t \in Threads
        PROVE  /\ Abstract!Ask(t) => Discipline!Ask(t)
               /\ Abstract!Answer(t) => Discipline!Answer(t)
    BY DEF Abstract!Ask, Discipline!Ask, Abstract!Answer, Discipline!Answer
  <2>6. ASSUME NEW t \in Threads
        PROVE  Abstract!Release(t) => Discipline!Release(t)
    BY <2>3 DEF Abstract!Release, Discipline!Release
  <2> QED
    BY <2>4, <2>5, <2>6 DEF Abstract!Next, Discipline!Next, Abstract!vars, Discipline!vars
<1> QED
  BY <1>1, <1>2, PTL DEF Abstract!Spec, Discipline!Spec

\* Calls that exclude each other do not run together: two on one socket, or two of a
\* kind that is on no socket.
THEOREM PoolExcludes ==
  ASSUME CallKinds, PlainPings
  PROVE  Spec => []Exclusion
<1>1. Discipline!Exclusion => Exclusion
  BY DEF Exclusion, Abstract!Exclusion, Discipline!Exclusion, Abstract!Runs, Discipline!Runs,
         Abstract!Key, Discipline!Key, Abstract!OnSocket, Discipline!OnSocket
<1> QED
  BY <1>1, SameDiscipline, PoolImplementsActions, Discipline!OneAtATime, PTL
     DEF ImplementsActions

\* A call on the pending list has somebody who will call it up, if the calls that exclude
\* each other are of one kind; without that SlObjPool_mixed.cfg has the lost wake-up.
THEOREM PoolLosesNoWakeup ==
  ASSUME CallKinds, PlainPings, Abstract!OneKindPerKey
  PROVE  Spec => []NoLostWakeup
<1>1. Discipline!NoLostWakeup => NoLostWakeup
  BY DEF NoLostWakeup, Abstract!NoLostWakeup, Discipline!NoLostWakeup, Abstract!Runs,
         Discipline!Runs, Abstract!Key, Discipline!Key, Abstract!OnSocket, Discipline!OnSocket
<1>2. Discipline!OneKindPerKey
  BY DEF Abstract!OneKindPerKey, Discipline!OneKindPerKey, Abstract!Key, Discipline!Key,
         Abstract!OnSocket, Discipline!OnSocket
<1>3. Discipline!Spec => []Discipline!NoLostWakeup
  BY <1>2, Discipline!WakeupsReachTheirCalls
<1> QED
  BY <1>1, <1>3, SameDiscipline, PoolImplementsActions, PTL DEF ImplementsActions
===============================================================================
