--------------------------- MODULE SelectionProofs ---------------------------
(***************************************************************************)
(* Proofs about the two searches that pickers rely on.  The weighted draw  *)
(* finds the owner of every number, for groups and weights of any size.    *)
(* The ring is what its description says and moves only the keys it must,  *)
(* for any peers, weights and checksums.                                   *)
(***************************************************************************)
EXTENDS RandomSelect, ChashRing, Loops, FiniteSetTheorems, SequenceTheorems

-------------------------------------------------------------------------------
(* The weighted draw. *)

\* The table is empty and the search has not begun.
LEMMA SelectInitially == Init => SelectInv
  BY SelectAssumption DEF Init, SelectInv, TypeOK, RangesAdjacent, Bracketed

\* A new range begins where the last one ends.
LEMMA AddPeerPreserves ==
  ASSUME SelectInv, NEW w \in 1 .. MaxWeight, AddPeer(w)
  PROVE  SelectInv'
<1> USE SelectAssumption
<1> DEFINE n == Len(ranges)
<1>1. /\ weights \in Seq(1 .. MaxWeight) /\ ranges \in Seq(Nat) /\ Len(weights) = n
      /\ n \in Nat /\ w \in Nat /\ pc = "build"
  BY DEF SelectInv, TypeOK, AddPeer
<1>2. cumulative \in Nat /\ cumulative = IF n = 0 THEN 0 ELSE ranges[n]
  BY <1>1 DEF cumulative
<1>3. TypeOK'
  BY <1>1, <1>2 DEF SelectInv, TypeOK, AddPeer
<1>4. RangesAdjacent'
  <2> SUFFICES ASSUME NEW i \in DOMAIN ranges'
               PROVE  ranges'[i] - weights'[i] = IF i = 1 THEN 0 ELSE ranges'[i - 1]
    BY DEF RangesAdjacent
  <2>1. ranges' = Append(ranges, cumulative + w) /\ weights' = Append(weights, w)
    BY DEF AddPeer
  <2>2. i \in 1 .. n + 1
    BY <1>1, <1>2, <2>1
  <2>3. CASE i \in 1 .. n
    <3>1. ranges'[i] = ranges[i] /\ (i # 1 => ranges'[i - 1] = ranges[i - 1])
      <4>1. \A j \in 1 .. n : ranges'[j] = ranges[j]
        <5> HIDE DEF n
        <5> QED BY <1>1, <1>2, <2>1 DEF n
      <4> QED BY <1>1, <2>3, <4>1
    <3>2. weights'[i] = weights[i]
      BY <1>1, <2>1, <2>3
    <3>3. ranges[i] - weights[i] = IF i = 1 THEN 0 ELSE ranges[i - 1]
      BY <1>1, <2>3 DEF SelectInv, RangesAdjacent
    <3> QED BY <3>1, <3>2, <3>3
  <2>4. CASE i = n + 1
    <3>1. ranges'[i] = cumulative + w /\ weights'[i] = w
      BY <1>1, <1>2, <2>1, <2>4
    <3>2. n # 0 => ranges'[n] = ranges[n]
      BY <1>1, <1>2, <2>1
    <3> QED BY <1>1, <1>2, <2>4, <3>1, <3>2
  <2> QED BY <1>1, <2>2, <2>3, <2>4
<1>5. Bracketed' /\ (pc = "done" => lo = hi)'
  BY <1>1 DEF AddPeer, Bracketed
<1> QED BY <1>3, <1>4, <1>5 DEF SelectInv

\* The number drawn is below the last upper bound.
LEMMA DrawPreserves ==
  ASSUME SelectInv, Draw
  PROVE  SelectInv'
<1>1. ranges # <<>> /\ cumulative = ranges[Len(ranges)] /\ ranges \in Seq(Nat)
  BY DEF SelectInv, TypeOK, Draw, cumulative
<1>2. Len(ranges) \in Nat \ {0} /\ cumulative \in Nat
  BY <1>1
<1>3. TypeOK' /\ RangesAdjacent'
  BY <1>2 DEF SelectInv, TypeOK, RangesAdjacent, Draw
<1>4. Bracketed' /\ (pc = "done" => lo = hi)'
  BY <1>1, <1>2 DEF Draw, Bracketed
<1> QED BY <1>3, <1>4 DEF SelectInv

\* Each half that is dropped does not hold the answer.
LEMMA HalvePreserves ==
  ASSUME SelectInv, Halve
  PROVE  SelectInv'
<1> DEFINE mid == (lo + hi) \div 2
<1>1. /\ lo \in Nat /\ hi \in Nat /\ x \in Nat /\ lo < hi /\ hi < Len(ranges)
      /\ ranges \in Seq(Nat) /\ pc = "search"
  BY DEF SelectInv, TypeOK, Bracketed, Halve
<1>2. mid \in Nat /\ lo <= mid /\ mid < hi /\ ranges[mid + 1] \in Nat
  BY <1>1
<1>3. TypeOK' /\ RangesAdjacent'
  BY <1>2 DEF SelectInv, TypeOK, RangesAdjacent, Halve
<1>4. Bracketed'
  <2>1. CASE ranges[mid + 1] <= x
    BY <1>1, <1>2, <2>1 DEF SelectInv, Bracketed, Halve
  <2>2. CASE ~(ranges[mid + 1] <= x)
    BY <1>1, <1>2, <2>2 DEF SelectInv, Bracketed, Halve
  <2> QED BY <2>1, <2>2
<1>5. (pc = "done" => lo = hi)'
  BY <1>1 DEF Halve
<1> QED BY <1>3, <1>4, <1>5 DEF SelectInv

\* The bounds have met when the loop ends.
LEMMA ReturnPreserves ==
  ASSUME SelectInv, Return
  PROVE  SelectInv'
BY DEF SelectInv, TypeOK, RangesAdjacent, Bracketed, Return

\* SelectInv is an invariant of the search.
THEOREM SelectInvariant == Spec => []SelectInv
<1>1. Init => SelectInv
  BY SelectInitially
<1>2. SelectInv /\ [Next]_vars => SelectInv'
  <2> SUFFICES ASSUME SelectInv, [Next]_vars
               PROVE  SelectInv'
    OBVIOUS
  <2>1. CASE \E w \in 1 .. MaxWeight : AddPeer(w)
    BY <2>1, AddPeerPreserves
  <2>2. CASE Draw \/ Halve \/ Return
    BY <2>2, DrawPreserves, HalvePreserves, ReturnPreserves
  <2>3. CASE UNCHANGED vars
    BY <2>3 DEF vars, SelectInv, TypeOK, RangesAdjacent, Bracketed
  <2> QED BY <2>1, <2>2, <2>3 DEF Next, Returned
<1> QED BY <1>1, <1>2, PTL DEF Spec

\* randomSelect returns the peer in whose share of the weights the number lies,
\* whatever the number of peers and their weights.
THEOREM DrawIsWeighted == Spec => []DrawsByWeight
<1>1. SelectInv => DrawsByWeight
  <2> SUFFICES ASSUME SelectInv, pc = "done"
               PROVE  /\ lo + 1 \in DOMAIN ranges
                      /\ ranges[lo + 1] - weights[lo + 1] <= x
                      /\ x < ranges[lo + 1]
    BY DEF DrawsByWeight
  <2>1. /\ lo = hi /\ lo \in Nat /\ x \in Nat /\ hi < Len(ranges) /\ ranges \in Seq(Nat)
        /\ lo > 0 => ranges[lo] <= x
        /\ x < ranges[hi + 1]
    BY DEF SelectInv, TypeOK, Bracketed
  <2>2. lo + 1 \in DOMAIN ranges
    BY <2>1
  <2>3. PICK k \in DOMAIN ranges : k = lo + 1
    BY <2>2
  <2>4. ranges[k] - weights[k] = IF k = 1 THEN 0 ELSE ranges[k - 1]
    BY DEF SelectInv, RangesAdjacent
  <2>5. k - 1 = lo
    BY <2>1, <2>3
  <2> QED BY <2>1, <2>2, <2>3, <2>4, <2>5
<1> QED BY <1>1, SelectInvariant, PTL

\* Each iteration of randomSelect at least halves what is left to search, however
\* many peers there are.
THEOREM SearchIsBinary == Spec => SearchHalves
<1>1. ASSUME SelectInv, [Next]_vars, pc = "search", ~UNCHANGED vars
      PROVE  \/ pc' = "done" /\ lo = hi
             \/ 2 * (hi' - lo') <= hi - lo
  <2>1. lo \in Nat /\ hi \in Nat /\ lo <= hi
    BY <1>1 DEF SelectInv, TypeOK, Bracketed
  <2>2. Halve \/ Return
    BY <1>1 DEF Next, AddPeer, Draw, Returned
  <2>3. CASE Return
    BY <2>1, <2>3 DEF Return
  <2>4. CASE Halve
    <3> DEFINE mid == (lo + hi) \div 2
    <3>1. mid \in Nat /\ 2 * mid <= lo + hi /\ lo + hi < 2 * mid + 2
      BY <2>1
    <3>2. \/ lo' = mid + 1 /\ hi' = hi
          \/ lo' = lo /\ hi' = mid
      BY <2>4 DEF Halve
    <3> HIDE DEF mid
    <3> QED BY <2>1, <3>1, <3>2
  <2> QED BY <2>2, <2>3, <2>4
<1>2. SelectInv /\ [Next]_vars
      => [pc = "search" => \/ pc' = "done" /\ lo = hi
                           \/ 2 * (hi' - lo') <= hi - lo]_vars
  BY <1>1
<1> QED BY <1>2, SelectInvariant, PTL DEF Spec, SearchHalves

-------------------------------------------------------------------------------
(* The loops of buildChashRing. *)

Point == [hash : Hashes, addr : Addrs]

Checksums == chain \in [Addrs -> Chains]

\* No point before the k-th has its hash.
firstIn(pts, k) == \A m \in 1 .. k - 1 : pts[m].hash # pts[k].hash

\* The points after each peer, the sorted ones and those kept after each point.
generating(ps) == CHOOSE pts : pts = [p \in 0 .. Len(ps) |->
                      IF p = 0 THEN <<>> ELSE pts[p - 1] \o pointsOf(ps, p)]
sorting(pts) == CHOOSE out : out = [i \in 0 .. Len(pts) |->
                      IF i = 0 THEN <<>> ELSE insert(out[i - 1], pts[i])]
deduping(pts) == CHOOSE out : out = [i \in 0 .. Len(pts) |->
                      IF i = 0 THEN <<>> ELSE keep(out[i - 1], pts[i])]

\* Checksums are natural numbers.
LEMMA HashesAreNat == Cardinality(Hashes) \in Nat /\ Hashes \subseteq Nat /\ KeyHashes \subseteq Nat
<1>1. Cardinality(Hashes) \in Nat  BY RingAssumption, FS_CardinalityType
<1>2. Hashes \subseteq Nat
  <2> DEFINE N == Cardinality(Hashes)
  <2>1. Hashes = 0 .. N - 1 /\ N \in Nat  BY <1>1, RingAssumption
  <2> HIDE DEF N
  <2> QED  BY <2>1
<1> QED  BY <1>1, <1>2 DEF KeyHashes

\* The points of one peer: one for each of its checksums, and at least one.
LEMMA PointsOf ==
    ASSUME Checksums, NEW ps \in Seq(Peer), NEW p \in 1 .. Len(ps)
    PROVE  LET N == ps[p].weight * Replicas IN
           /\ N \in Nat \ {0}
           /\ ps[p].addr \in Addrs
           /\ pointsOf(ps, p) \in Seq(Point)
           /\ Len(pointsOf(ps, p)) = N
           /\ \A j \in 1 .. N : /\ pointsOf(ps, p)[j].hash = chain[ps[p].addr][j]
                                /\ pointsOf(ps, p)[j].addr = ps[p].addr
                                /\ chain[ps[p].addr][j] \in Hashes
<1> DEFINE w == ps[p].weight
           a == ps[p].addr
           N == w * Replicas
<1>1. w \in 1 .. MaxRingWeight /\ a \in Addrs
  <2>1. ps[p] \in Peer  OBVIOUS
  <2> QED  BY <2>1 DEF Peer
<1>2. w \in Nat \ {0} /\ Replicas \in Nat \ {0} /\ MaxRingWeight \in Nat /\ w <= MaxRingWeight
  BY <1>1, RingAssumption
<1>3. N \in Nat \ {0} /\ N <= MaxRingWeight * Replicas /\ MaxRingWeight * Replicas \in Nat
  <2> HIDE DEF w
  <2> QED  BY <1>2
<1>4. chain[a] \in [1 .. MaxRingWeight * Replicas -> Hashes]  BY <1>1 DEF Checksums, Chains
<1> HIDE DEF w, a
<1>5. \A j \in 1 .. N : j \in 1 .. MaxRingWeight * Replicas
  <2> DEFINE M == MaxRingWeight * Replicas
  <2>1. M \in Nat /\ N <= M  BY <1>3
  <2> HIDE DEF M, N
  <2> QED  BY <1>3, <2>1
<1>6. \A j \in 1 .. N : chain[a][j] \in Hashes  BY <1>4, <1>5
<1>7. pointsOf(ps, p) = [j \in 1 .. N |-> [hash |-> chain[a][j], addr |-> a]]
  BY DEF pointsOf, w, a
<1> HIDE DEF N
<1>8. \A j \in 1 .. N : [hash |-> chain[a][j], addr |-> a] \in Point  BY <1>1, <1>6 DEF Point
<1>9. pointsOf(ps, p) \in Seq(Point) /\ Len(pointsOf(ps, p)) = N  BY <1>3, <1>7, <1>8
<1> QED  BY <1>1, <1>3, <1>6, <1>7, <1>9 DEF N, w, a

\* The loop over the peers.
LEMMA Generating ==
    ASSUME Checksums, NEW ps \in Seq(Peer)
    PROVE  LET g == generating(ps) IN
           /\ generated(ps) = g[Len(ps)]
           /\ g[0] = <<>>
           /\ \A p \in 1 .. Len(ps) : g[p] = g[p - 1] \o pointsOf(ps, p)
<1> DEFINE N == Len(ps)
           Def(f) == [p \in 0 .. N |-> IF p = 0 THEN <<>> ELSE f[p - 1] \o pointsOf(ps, p)]
           V == [p \in Nat |-> [t \in Seq(Point) |->
                                  IF p \in 1 .. N THEN t \o pointsOf(ps, p) ELSE t]]
<1>1. N \in Nat /\ <<>> \in Seq(Point)  OBVIOUS
<1> HIDE DEF N
<1>2. \A p \in 1 .. N : pointsOf(ps, p) \in Seq(Point)  BY PointsOf DEF N
<1>3. V \in [Nat -> [Seq(Point) -> Seq(Point)]]  BY <1>2
<1>4. PICK h \in [Nat -> Seq(Point)] : course(h, N, <<>>, V)
  <2> HIDE DEF V
  <2> QED  BY <1>1, <1>3, Loop
<1>5. \A p \in 1 .. N : h[p] = h[p - 1] \o pointsOf(ps, p)
  <2> TAKE p \in 1 .. N
  <2>1. p \in Nat /\ h[p - 1] \in Seq(Point)  BY <1>1
  <2>2. h[p] = V[p][h[p - 1]]
    <3> HIDE DEF V
    <3> QED  BY <1>4 DEF course
  <2> QED  BY <2>1, <2>2
<1> DEFINE r == [p \in 0 .. N |-> h[p]]
<1>6. r = Def(r)
  <2>1. \A p \in 0 .. N : r[p] = IF p = 0 THEN <<>> ELSE r[p - 1] \o pointsOf(ps, p)
    <3> TAKE p \in 0 .. N
    <3>1. CASE p = 0  BY <1>4, <3>1 DEF course
    <3>2. CASE p # 0
      <4>1. p \in 1 .. N /\ p - 1 \in 0 .. N  BY <1>1, <3>2
      <4>2. h[p] = h[p - 1] \o pointsOf(ps, p)  BY <1>5, <4>1
      <4>3. r[p] = h[p] /\ r[p - 1] = h[p - 1]  BY <4>1
      <4> HIDE DEF r
      <4> QED  BY <3>2, <4>2, <4>3, Zenon
    <3> QED  BY <3>1, <3>2
  <2> QED  BY <2>1
<1>7. generating(ps) = Def(generating(ps))  BY <1>6, Zenon DEF generating, N
<1>8. generated(ps) = generating(ps)[N]  BY Zenon DEF generated, generating, N
<1>9. ASSUME NEW f, f = Def(f)
      PROVE  f[0] = <<>> /\ \A p \in 1 .. N : f[p] = f[p - 1] \o pointsOf(ps, p)
  <2>1. f[0] = <<>>  BY <1>1, <1>9
  <2>2. ASSUME NEW p \in 1 .. N PROVE f[p] = f[p - 1] \o pointsOf(ps, p)
    <3>1. p \in 0 .. N /\ p # 0  BY <1>1
    <3>2. f[p] = Def(f)[p]  BY <1>9
    <3> QED  BY <3>1, <3>2
  <2> QED  BY <2>1, <2>2
<1> HIDE DEF Def
<1> QED  BY <1>7, <1>8, <1>9 DEF N

\* The loop over the points that sorts them.
LEMMA Sorting ==
    ASSUME NEW pts \in Seq(Point), \A s \in Seq(Point), k \in 1 .. Len(pts) : insert(s, pts[k]) \in Seq(Point)
    PROVE  LET f == sorting(pts) IN
           /\ sorted(pts) = f[Len(pts)]
           /\ f[0] = <<>>
           /\ \A i \in 1 .. Len(pts) : f[i] = insert(f[i - 1], pts[i])
<1> DEFINE N == Len(pts)
           Def(f) == [i \in 0 .. N |-> IF i = 0 THEN <<>> ELSE insert(f[i - 1], pts[i])]
           V == [i \in Nat |-> [t \in Seq(Point) |->
                                  IF i \in 1 .. N THEN insert(t, pts[i]) ELSE t]]
<1>1. N \in Nat /\ <<>> \in Seq(Point)  OBVIOUS
<1> HIDE DEF N
<1>2. V \in [Nat -> [Seq(Point) -> Seq(Point)]]  BY DEF N
<1>3. PICK h \in [Nat -> Seq(Point)] : course(h, N, <<>>, V)
  <2> HIDE DEF V
  <2> QED  BY <1>1, <1>2, Loop
<1>4. \A i \in 1 .. N : h[i] = insert(h[i - 1], pts[i])
  <2> TAKE i \in 1 .. N
  <2>1. i \in Nat /\ h[i - 1] \in Seq(Point)  BY <1>1
  <2>2. h[i] = V[i][h[i - 1]]
    <3> HIDE DEF V
    <3> QED  BY <1>3 DEF course
  <2> QED  BY <2>1, <2>2
<1> DEFINE r == [i \in 0 .. N |-> h[i]]
<1>5. r = Def(r)  BY <1>1, <1>3, <1>4 DEF course
<1>6. sorting(pts) = Def(sorting(pts))  BY <1>5, Zenon DEF sorting, N
<1>7. sorted(pts) = sorting(pts)[N]  BY Zenon DEF sorted, sorting, N
<1>8. ASSUME NEW f, f = Def(f)
      PROVE  f[0] = <<>> /\ \A i \in 1 .. N : f[i] = insert(f[i - 1], pts[i])
  <2>1. f[0] = <<>>  BY <1>1, <1>8
  <2>2. ASSUME NEW i \in 1 .. N PROVE f[i] = insert(f[i - 1], pts[i])
    <3>1. i \in 0 .. N /\ i # 0  BY <1>1
    <3>2. f[i] = Def(f)[i]  BY <1>8
    <3> QED  BY <3>1, <3>2
  <2> QED  BY <2>1, <2>2
<1> HIDE DEF Def
<1> QED  BY <1>6, <1>7, <1>8 DEF N

\* The loop over the points that drops duplicates.
LEMMA Deduping ==
    ASSUME NEW pts \in Seq(Point)
    PROVE  LET f == deduping(pts) IN
           /\ dedupe(pts) = f[Len(pts)]
           /\ f[0] = <<>>
           /\ \A i \in 1 .. Len(pts) : f[i] = keep(f[i - 1], pts[i])
<1> DEFINE N == Len(pts)
           Def(f) == [i \in 0 .. N |-> IF i = 0 THEN <<>> ELSE keep(f[i - 1], pts[i])]
           V == [i \in Nat |-> [t \in Seq(Point) |->
                                  IF i \in 1 .. N THEN keep(t, pts[i]) ELSE t]]
<1>1. N \in Nat /\ <<>> \in Seq(Point)  OBVIOUS
<1>2. \A i \in 1 .. N, t \in Seq(Point) : keep(t, pts[i]) \in Seq(Point)  BY DEF keep
<1> HIDE DEF N
<1>3. V \in [Nat -> [Seq(Point) -> Seq(Point)]]  BY <1>2
<1>4. PICK h \in [Nat -> Seq(Point)] : course(h, N, <<>>, V)
  <2> HIDE DEF V
  <2> QED  BY <1>1, <1>3, Loop
<1>5. \A i \in 1 .. N : h[i] = keep(h[i - 1], pts[i])
  <2> TAKE i \in 1 .. N
  <2>1. i \in Nat /\ h[i - 1] \in Seq(Point)  BY <1>1
  <2>2. h[i] = V[i][h[i - 1]]
    <3> HIDE DEF V
    <3> QED  BY <1>4 DEF course
  <2> QED  BY <2>1, <2>2
<1> DEFINE r == [i \in 0 .. N |-> h[i]]
<1>6. r = Def(r)  BY <1>1, <1>4, <1>5 DEF course
<1>7. deduping(pts) = Def(deduping(pts))  BY <1>6, Zenon DEF deduping, N
<1>8. dedupe(pts) = deduping(pts)[N]  BY Zenon DEF dedupe, deduping, N
<1>9. ASSUME NEW f, f = Def(f)
      PROVE  f[0] = <<>> /\ \A i \in 1 .. N : f[i] = keep(f[i - 1], pts[i])
  <2>1. f[0] = <<>>  BY <1>1, <1>9
  <2>2. ASSUME NEW i \in 1 .. N PROVE f[i] = keep(f[i - 1], pts[i])
    <3>1. i \in 0 .. N /\ i # 0  BY <1>1
    <3>2. f[i] = Def(f)[i]  BY <1>9
    <3> QED  BY <3>1, <3>2
  <2> QED  BY <2>1, <2>2
<1> HIDE DEF Def
<1> QED  BY <1>7, <1>8, <1>9 DEF N

-------------------------------------------------------------------------------
(* What the loops compute. *)

\* The points are those of the first n peers, and where a hash comes up first, it
\* is a point of the first peer that has it.
Covers(ps, n, pts) ==
    /\ pts \in Seq(Point)
    /\ \A p \in 1 .. n, h \in Hashes : has(ps, p, h) => \E k \in 1 .. Len(pts) : pts[k].hash = h
    /\ \A k \in 1 .. Len(pts) : \E p \in 1 .. n :
          /\ has(ps, p, pts[k].hash) /\ pts[k].addr = ps[p].addr
          /\ firstIn(pts, k) => \A q \in 1 .. p - 1 : ~has(ps, q, pts[k].hash)

\* One more peer.
LEMMA CoversStep ==
    ASSUME Checksums, NEW ps \in Seq(Peer), NEW n \in 1 .. Len(ps), NEW s, Covers(ps, n - 1, s)
    PROVE  Covers(ps, n, s \o pointsOf(ps, n))
<1> DEFINE u == pointsOf(ps, n)
           t == s \o u
           L == Len(s)
           N == ps[n].weight * Replicas
<1>1. /\ N \in Nat \ {0} /\ u \in Seq(Point) /\ Len(u) = N
      /\ \A j \in 1 .. N : /\ u[j].hash = chain[ps[n].addr][j]
                           /\ u[j].addr = ps[n].addr
                           /\ chain[ps[n].addr][j] \in Hashes
  BY PointsOf
<1>2. s \in Seq(Point) /\ L \in Nat /\ n \in Nat /\ n >= 1  BY DEF Covers
<1>3. \A h : has(ps, n, h) <=> \E j \in 1 .. N : u[j].hash = h  BY <1>1 DEF has
<1> HIDE DEF u
<1>4. t \in Seq(Point) /\ Len(t) = L + N
  BY <1>1, <1>2, ConcatProperties
<1>5. \A k \in 1 .. L : t[k] = s[k]
  BY <1>1, <1>2, ConcatProperties
<1>6. \A j \in 1 .. N : t[L + j] = u[j]
  <2> TAKE j \in 1 .. N
  <2> HIDE DEF N, L
  <2>1. L + j \in 1 .. L + N /\ ~(L + j <= L) /\ (L + j) - L = j  BY <1>1, <1>2
  <2> QED  BY <1>1, <1>2, <2>1, ConcatProperties DEF L
<1> HIDE DEF t, L, N
<1>7. ASSUME NEW p \in 1 .. n, NEW h \in Hashes, has(ps, p, h)
      PROVE  \E k \in 1 .. Len(t) : t[k].hash = h
  <2>1. CASE p \in 1 .. n - 1
    <3>1. PICK k \in 1 .. L : s[k].hash = h  BY <1>7, <2>1 DEF Covers, L
    <3>2. k \in 1 .. Len(t) /\ t[k] = s[k]  BY <1>1, <1>2, <1>4, <1>5
    <3> QED  BY <3>1, <3>2
  <2>2. CASE p = n
    <3>1. PICK j \in 1 .. N : u[j].hash = h  BY <1>3, <1>7, <2>2
    <3>2. L + j \in 1 .. Len(t) /\ t[L + j] = u[j]  BY <1>1, <1>2, <1>4, <1>6
    <3> QED  BY <3>1, <3>2
  <2> QED  BY <1>2, <2>1, <2>2
<1>8. ASSUME NEW k \in 1 .. Len(t)
      PROVE  \E p \in 1 .. n :
                /\ has(ps, p, t[k].hash) /\ t[k].addr = ps[p].addr
                /\ firstIn(t, k) => \A q \in 1 .. p - 1 : ~has(ps, q, t[k].hash)
  <2>1. CASE k \in 1 .. L
    <3>1. PICK p \in 1 .. n - 1 : /\ has(ps, p, s[k].hash) /\ s[k].addr = ps[p].addr
                                  /\ firstIn(s, k) => \A q \in 1 .. p - 1 : ~has(ps, q, s[k].hash)
      BY <2>1 DEF Covers, L
    <3>2. t[k] = s[k] /\ p \in 1 .. n  BY <1>2, <1>5, <2>1
    <3>3. firstIn(t, k) => firstIn(s, k)
      <4>1. \A m \in 1 .. k - 1 : m \in 1 .. L  BY <1>2, <2>1
      <4> QED  BY <1>5, <2>1, <4>1 DEF firstIn
    <3> QED  BY <3>1, <3>2, <3>3
  <2>2. CASE k \notin 1 .. L
    <3>1. PICK j \in 1 .. N : k = L + j
      <4>1. k - L \in 1 .. N /\ k = L + (k - L)  BY <1>1, <1>2, <1>4, <2>2
      <4> QED  BY <4>1
    <3>2. t[k] = u[j] /\ has(ps, n, t[k].hash) /\ t[k].addr = ps[n].addr
      BY <1>1, <1>3, <1>6, <3>1 DEF N
    <3>3. ASSUME firstIn(t, k), NEW q \in 1 .. n - 1, has(ps, q, t[k].hash) PROVE FALSE
      <4>1. t[k].hash \in Hashes  BY <1>1, <3>2
      <4>2. PICK m \in 1 .. L : s[m].hash = t[k].hash  BY <3>3, <4>1 DEF Covers, L
      <4>3. m \in 1 .. k - 1 /\ t[m] = s[m]  BY <1>1, <1>2, <1>5, <3>1
      <4> QED  BY <3>3, <4>2, <4>3 DEF firstIn
    <3>4. n \in 1 .. n  BY <1>2
    <3> QED  BY <3>2, <3>3, <3>4
  <2> QED  BY <2>1, <2>2
<1> QED  BY <1>4, <1>7, <1>8 DEF Covers, t, u

\* All peers.
LEMMA Generated ==
    ASSUME Checksums, NEW ps \in Seq(Peer)
    PROVE  Covers(ps, Len(ps), generated(ps))
<1> DEFINE N == Len(ps)
           g == generating(ps)
           T == {n \in 0 .. N : Covers(ps, n, g[n])}
<1>1. N \in Nat  OBVIOUS
<1>2. /\ generated(ps) = g[N] /\ g[0] = <<>>
      /\ \A p \in 1 .. N : g[p] = g[p - 1] \o pointsOf(ps, p)
  BY Generating
<1> HIDE DEF g
<1>3. 0 \in T
  <2>1. Covers(ps, 0, <<>>)  BY DEF Covers
  <2> QED  BY <1>1, <1>2, <2>1
<1>4. ASSUME NEW n \in 1 .. N, n - 1 \in T PROVE n \in T
  <2>1. Covers(ps, n, g[n])  BY <1>2, <1>4, CoversStep
  <2> QED  BY <1>1, <2>1
<1>5. 0 .. N \subseteq T
  <2> HIDE DEF T, N
  <2> QED  BY <1>1, <1>3, <1>4, UpTo
<1> QED  BY <1>1, <1>2, <1>5

\* The hashes of points are natural numbers.
LEMMA PointHash == \A pt \in Point : pt.hash \in Hashes /\ pt.hash \in Nat
<1>1. \A pt \in Point : pt.hash \in Hashes  BY DEF Point
<1> QED  BY <1>1, HashesAreNat

\* The points of a sequence have a hash each.
LEMMA HashOf ==
    ASSUME NEW s \in Seq(Point)
    PROVE  /\ Len(s) \in Nat
           /\ \A a \in 1 .. Len(s) : s[a] \in Point /\ s[a].hash \in Hashes /\ s[a].hash \in Nat
<1>1. Len(s) \in Nat /\ \A a \in 1 .. Len(s) : s[a] \in Point  OBVIOUS
<1> QED  BY <1>1, PointHash

\* A point put between the first n and the others.
between(s, e, n) == SubSeq(s, 1, n) \o <<e>> \o SubSeq(s, n + 1, Len(s))

\* What is where after a point was put in.
LEMMA Between ==
    ASSUME NEW s \in Seq(Point), NEW e \in Point, NEW n \in 0 .. Len(s)
    PROVE  LET t == between(s, e, n) IN
           /\ t \in Seq(Point) /\ Len(t) = Len(s) + 1
           /\ \A a \in 1 .. n : t[a] = s[a]
           /\ t[n + 1] = e
           /\ \A a \in n + 1 .. Len(s) : t[a + 1] = s[a]
<1> DEFINE L == Len(s)
           u == SubSeq(s, 1, n)
           v == SubSeq(s, n + 1, L)
           m == u \o <<e>>
           t == m \o v
<1>1. L \in Nat /\ n \in Nat /\ n <= L /\ \A a \in 1 .. L : s[a] \in Point  OBVIOUS
<1> HIDE DEF L
<1>2. u \in Seq(Point) /\ Len(u) = n /\ \A a \in 1 .. n : u[a] = s[a]
  <2>1. \A a \in 1 .. n : s[a] \in Point  BY <1>1
  <2>2. /\ u \in Seq(Point) /\ Len(u) = IF 1 <= n THEN n - 1 + 1 ELSE 0
        /\ \A a \in 1 .. n - 1 + 1 : u[a] = s[1 + a - 1]
    BY <1>1, <2>1, SubSeqProperties
  <2> HIDE DEF u
  <2> QED  BY <1>1, <2>2
<1>3. v \in Seq(Point) /\ Len(v) = L - n /\ \A a \in 1 .. L - n : v[a] = s[n + a]
  <2>1. \A a \in n + 1 .. L : s[a] \in Point  BY <1>1
  <2>2. /\ v \in Seq(Point) /\ Len(v) = IF n + 1 <= L THEN L - (n + 1) + 1 ELSE 0
        /\ \A a \in 1 .. L - (n + 1) + 1 : v[a] = s[n + 1 + a - 1]
    BY <1>1, <2>1, SubSeqProperties
  <2> HIDE DEF v
  <2>3. L - (n + 1) + 1 = L - n /\ \A a \in 1 .. L - n : n + 1 + a - 1 = n + a  BY <1>1
  <2> QED  BY <1>1, <2>2, <2>3
<1> HIDE DEF u, v
<1>4. /\ m \in Seq(Point) /\ Len(m) = n + 1
      /\ \A a \in 1 .. n + 1 : m[a] = IF a <= n THEN u[a] ELSE e
  <2>1. <<e>> \in Seq(Point) /\ Len(<<e>>) = 1 /\ <<e>>[1] = e  OBVIOUS
  <2>2. /\ m \in Seq(Point) /\ Len(m) = n + 1
        /\ \A a \in 1 .. n + 1 : m[a] = IF a <= n THEN u[a] ELSE <<e>>[a - n]
    BY <1>2, <2>1, ConcatProperties
  <2> HIDE DEF m
  <2> QED  BY <1>1, <2>1, <2>2
<1> HIDE DEF m
<1>5. /\ t \in Seq(Point) /\ Len(t) = L + 1
      /\ \A a \in 1 .. L + 1 : t[a] = IF a <= n + 1 THEN m[a] ELSE v[a - (n + 1)]
  <2>1. n + 1 + (L - n) = L + 1  BY <1>1
  <2>2. /\ t \in Seq(Point) /\ Len(t) = Len(m) + Len(v)
        /\ \A a \in 1 .. Len(m) + Len(v) : t[a] = IF a <= Len(m) THEN m[a] ELSE v[a - Len(m)]
    BY <1>3, <1>4, ConcatProperties
  <2> HIDE DEF t
  <2> QED  BY <1>3, <1>4, <2>1, <2>2, Zenon
<1> HIDE DEF t
<1>6. \A a \in 1 .. n : t[a] = s[a]  BY <1>1, <1>2, <1>4, <1>5
<1>7. t[n + 1] = e  BY <1>1, <1>4, <1>5
<1>8. ASSUME NEW a \in n + 1 .. L PROVE t[a + 1] = s[a]
  <2>1. a + 1 \in 1 .. L + 1 /\ ~(a + 1 <= n + 1) /\ a + 1 - (n + 1) = a - n /\ a - n \in 1 .. L - n
        /\ n + (a - n) = a
    BY <1>1
  <2> QED  BY <1>3, <1>5, <2>1
<1> QED  BY <1>5, <1>6, <1>7, <1>8 DEF between, t, m, u, v, L

\* How many points come before a new one.
place(s, pt) == Cardinality({i \in DOMAIN s : s[i].hash <= pt.hash})

\* Among sorted points the place of a new one is after all that are not greater.
LEMMA Place ==
    ASSUME NEW s \in Seq(Point), NEW pt \in Point
    PROVE  /\ place(s, pt) \in 0 .. Len(s)
           /\ (\A a, b \in 1 .. Len(s) : a < b => s[a].hash <= s[b].hash)
              => \A a \in 1 .. Len(s) : a <= place(s, pt) <=> s[a].hash <= pt.hash
<1> DEFINE L == Len(s)
           B == {i \in 1 .. L : s[i].hash <= pt.hash}
<1>1. L \in Nat /\ pt.hash \in Nat /\ \A a \in 1 .. L : s[a].hash \in Nat
  BY PointHash, HashOf
<1>2. place(s, pt) = Cardinality(B)
  <2>1. DOMAIN s = 1 .. L  OBVIOUS
  <2> QED  BY <2>1, Zenon DEF place
<1> HIDE DEF L
<1>3. Cardinality(B) \in 0 .. L
  <2>1. IsFiniteSet(1 .. L) /\ Cardinality(1 .. L) = L
    <3>1. 1 \in Int /\ L \in Int  BY <1>1
    <3>2. IsFiniteSet(1 .. L) /\ Cardinality(1 .. L) = IF 1 > L THEN 0 ELSE L - 1 + 1
      BY <3>1, FS_Interval
    <3> QED  BY <1>1, <3>2
  <2>2. B \in SUBSET (1 .. L)  OBVIOUS
  <2>3. IsFiniteSet(B) /\ Cardinality(B) <= L  BY <2>1, <2>2, FS_Subset
  <2> QED  BY <1>1, <2>3, FS_CardinalityType
<1>4. ASSUME \A a, b \in 1 .. L : a < b => s[a].hash <= s[b].hash
      PROVE  \A a \in 1 .. L : a <= Cardinality(B) <=> s[a].hash <= pt.hash
  <2> DEFINE Out == {i \in 1 .. L + 1 : i \in 1 .. L => ~(s[i].hash <= pt.hash)}
  <2>1. Out \in SUBSET Nat /\ L + 1 \in Out  BY <1>1
  <2>2. PICK m \in Out : \A k \in Out : m <= k
    <3> HIDE DEF Out
    <3> QED  BY <2>1, Least
  <2>3. m \in 1 .. L + 1 /\ (m \in 1 .. L => ~(s[m].hash <= pt.hash))  OBVIOUS
  <2>4. \A a \in 1 .. L : a < m => s[a].hash <= pt.hash  BY <1>1, <2>2
  <2>5. \A a \in 1 .. L : s[a].hash <= pt.hash => a < m
    <3> SUFFICES ASSUME NEW a \in 1 .. L, s[a].hash <= pt.hash, ~(a < m) PROVE FALSE
      OBVIOUS
    <3>1. m \in 1 .. L  BY <1>1, <2>3
    <3>2. s[m].hash <= s[a].hash  BY <1>1, <1>4, <3>1
    <3> QED  BY <1>1, <2>3, <3>1, <3>2
  <2>6. B = 1 .. m - 1  BY <1>1, <2>3, <2>4, <2>5
  <2>7. Cardinality(1 .. m - 1) = m - 1
    BY <1>1, <2>3, FS_Interval
  <2>8. Cardinality(B) = m - 1  BY <2>6, <2>7
  <2> HIDE DEF B
  <2> QED  BY <1>1, <2>3, <2>4, <2>5, <2>8
<1> QED  BY <1>2, <1>3, <1>4 DEF L

\* One point is put into its place.
LEMMA Inserted ==
    ASSUME NEW s \in Seq(Point), NEW pt \in Point
    PROVE  LET n == place(s, pt) IN
           /\ insert(s, pt) \in Seq(Point) /\ Len(insert(s, pt)) = Len(s) + 1
           /\ \A a \in 1 .. n : insert(s, pt)[a] = s[a]
           /\ insert(s, pt)[n + 1] = pt
           /\ \A a \in n + 1 .. Len(s) : insert(s, pt)[a + 1] = s[a]
<1>1. place(s, pt) \in 0 .. Len(s)  BY Place
<1>2. PICK n \in 0 .. Len(s) : n = place(s, pt)  BY <1>1
<1>3. insert(s, pt) = between(s, pt, n)  BY <1>2 DEF insert, place, between
<1>4. /\ between(s, pt, n) \in Seq(Point) /\ Len(between(s, pt, n)) = Len(s) + 1
      /\ \A a \in 1 .. n : between(s, pt, n)[a] = s[a]
      /\ between(s, pt, n)[n + 1] = pt
      /\ \A a \in n + 1 .. Len(s) : between(s, pt, n)[a + 1] = s[a]
  BY Between
<1> QED  BY <1>2, <1>3, <1>4

-------------------------------------------------------------------------------
(* The sorted points and those kept. *)

\* The first i points in ascending order; where a hash comes up first, it is the
\* point that had it first before.
Sorts(pts, i, s) ==
    /\ s \in Seq(Point)
    /\ \A a, b \in 1 .. Len(s) : a < b => s[a].hash <= s[b].hash
    /\ \A k \in 1 .. i : \E a \in 1 .. Len(s) : s[a].hash = pts[k].hash
    /\ \A a \in 1 .. Len(s) : \E k \in 1 .. i : s[a] = pts[k] /\ (firstIn(s, a) => firstIn(pts, k))

\* One more point is inserted.
LEMMA SortsStep ==
    ASSUME NEW pts \in Seq(Point), NEW i \in 1 .. Len(pts), NEW s, Sorts(pts, i - 1, s)
    PROVE  Sorts(pts, i, insert(s, pts[i]))
<1> DEFINE pt == pts[i]
           n == place(s, pt)
           t == insert(s, pt)
           L == Len(s)
<1>1. s \in Seq(Point) /\ L \in Nat /\ pt \in Point /\ i \in Nat /\ i >= 1  BY DEF Sorts
<1>2. \A a, b \in 1 .. L : a < b => s[a].hash <= s[b].hash  BY DEF Sorts
<1>3. n \in 0 .. L /\ \A a \in 1 .. L : a <= n <=> s[a].hash <= pt.hash  BY <1>1, <1>2, Place
<1>4. /\ t \in Seq(Point) /\ Len(t) = L + 1 /\ t[n + 1] = pt
      /\ \A a \in 1 .. n : t[a] = s[a]
      /\ \A a \in n + 1 .. L : t[a + 1] = s[a]
  BY <1>1, Inserted
<1>5. pt.hash \in Nat /\ \A a \in 1 .. L : s[a].hash \in Nat  BY <1>1, PointHash, HashOf
<1>6. \A k \in 1 .. i - 1 : \E a \in 1 .. L : s[a].hash = pts[k].hash  BY DEF Sorts
<1>7. \A a \in 1 .. L : \E k \in 1 .. i - 1 : s[a] = pts[k] /\ (firstIn(s, a) => firstIn(pts, k))
  BY DEF Sorts
<1> HIDE DEF L, t, n
\* Where a point is now.
<1>8. \A a \in 1 .. L : IF a <= n THEN t[a] = s[a] ELSE t[a + 1] = s[a]  BY <1>1, <1>3, <1>4
<1>9. \A a \in 1 .. L + 1 : \/ a \in 1 .. L /\ a <= n /\ t[a] = s[a]
                            \/ a = n + 1 /\ t[a] = pt
                            \/ a - 1 \in 1 .. L /\ a - 1 > n /\ t[a] = s[a - 1]
  <2> TAKE a \in 1 .. L + 1
  <2>1. CASE a <= n  BY <1>1, <1>3, <1>8, <2>1
  <2>2. CASE a = n + 1  BY <1>4, <2>2
  <2>3. CASE a > n + 1
    <3>1. a - 1 \in n + 1 .. L /\ a - 1 \in 1 .. L /\ a - 1 > n /\ (a - 1) + 1 = a
      BY <1>1, <1>3, <2>3
    <3> QED  BY <1>4, <3>1
  <2> QED  BY <1>1, <1>3, <2>1, <2>2, <2>3
<1>10. \A a, b \in 1 .. L + 1 : a < b => t[a].hash <= t[b].hash
  <2> SUFFICES ASSUME NEW a \in 1 .. L + 1, NEW b \in 1 .. L + 1, a < b
               PROVE  t[a].hash <= t[b].hash
    OBVIOUS
  <2>1. CASE a \in 1 .. L /\ a <= n /\ t[a] = s[a]  BY <1>1, <1>2, <1>3, <1>5, <1>9, <2>1
  <2>2. CASE a = n + 1 /\ t[a] = pt
    <3>1. b - 1 \in 1 .. L /\ b - 1 > n /\ t[b] = s[b - 1]  BY <1>1, <1>3, <1>9, <2>2
    <3>2. ~(s[b - 1].hash <= pt.hash)  BY <1>1, <1>3, <3>1
    <3> QED  BY <1>5, <2>2, <3>1, <3>2
  <2>3. CASE a - 1 \in 1 .. L /\ a - 1 > n /\ t[a] = s[a - 1]
    <3>1. b - 1 \in 1 .. L /\ t[b] = s[b - 1] /\ a - 1 < b - 1  BY <1>1, <1>3, <1>9, <2>3
    <3> QED  BY <1>2, <2>3, <3>1
  <2> QED  BY <1>9, <2>1, <2>2, <2>3
<1>11. ASSUME NEW k \in 1 .. i PROVE \E a \in 1 .. L + 1 : t[a].hash = pts[k].hash
  <2>1. CASE k = i
    <3>1. n + 1 \in 1 .. L + 1  BY <1>1, <1>3
    <3> QED  BY <1>4, <2>1, <3>1
  <2>2. CASE k \in 1 .. i - 1
    <3>1. PICK a \in 1 .. L : s[a].hash = pts[k].hash  BY <1>6, <2>2
    <3>2. a \in 1 .. L + 1 /\ a + 1 \in 1 .. L + 1  BY <1>1
    <3> QED  BY <1>8, <3>1, <3>2
  <2> QED  BY <1>1, <2>1, <2>2
<1>12. ASSUME NEW a \in 1 .. L + 1
       PROVE  \E k \in 1 .. i : t[a] = pts[k] /\ (firstIn(t, a) => firstIn(pts, k))
  <2>1. CASE a \in 1 .. L /\ a <= n /\ t[a] = s[a]
    <3>1. PICK k \in 1 .. i - 1 : s[a] = pts[k] /\ (firstIn(s, a) => firstIn(pts, k))  BY <1>7, <2>1
    <3>2. firstIn(t, a) => firstIn(s, a)
      <4>1. \A m \in 1 .. a - 1 : m \in 1 .. L /\ m <= n  BY <1>1, <1>3, <2>1
      <4> QED  BY <1>8, <2>1, <4>1 DEF firstIn
    <3>3. k \in 1 .. i  BY <1>1
    <3> QED  BY <2>1, <3>1, <3>2, <3>3
  <2>2. CASE a = n + 1 /\ t[a] = pt
    <3>1. ASSUME firstIn(t, a), NEW m \in 1 .. i - 1, pts[m].hash = pt.hash PROVE FALSE
      <4>1. PICK b \in 1 .. L : s[b].hash = pt.hash  BY <1>6, <3>1
      <4>2. b <= n  BY <1>3, <1>5, <4>1
      <4>3. b \in 1 .. a - 1 /\ t[b] = s[b]  BY <1>1, <1>3, <1>8, <2>2, <4>2
      <4> QED  BY <2>2, <3>1, <4>1, <4>3 DEF firstIn
    <3>2. i \in 1 .. i  BY <1>1
    <3> QED  BY <2>2, <3>1, <3>2 DEF firstIn
  <2>3. CASE a - 1 \in 1 .. L /\ a - 1 > n /\ t[a] = s[a - 1]
    <3>1. PICK k \in 1 .. i - 1 : s[a - 1] = pts[k] /\ (firstIn(s, a - 1) => firstIn(pts, k))
      BY <1>7, <2>3
    <3>2. firstIn(t, a) => firstIn(s, a - 1)
      <4> SUFFICES ASSUME firstIn(t, a), NEW m \in 1 .. a - 1 - 1 PROVE s[m].hash # s[a - 1].hash
        BY DEF firstIn
      <4>1. m \in 1 .. L /\ m \in 1 .. a - 1 /\ m + 1 \in 1 .. a - 1  BY <1>1, <2>3
      <4> QED  BY <1>8, <2>3, <4>1 DEF firstIn
    <3>3. k \in 1 .. i  BY <1>1
    <3> QED  BY <2>3, <3>1, <3>2, <3>3
  <2> QED  BY <1>9, <2>1, <2>2, <2>3
<1> QED  BY <1>4, <1>10, <1>11, <1>12 DEF Sorts, t

\* All points.
LEMMA Sorted ==
    ASSUME NEW pts \in Seq(Point)
    PROVE  Sorts(pts, Len(pts), sorted(pts))
<1> DEFINE N == Len(pts)
           f == sorting(pts)
           T == {i \in 0 .. N : Sorts(pts, i, f[i])}
<1>1. N \in Nat  OBVIOUS
<1>2. \A s \in Seq(Point), k \in 1 .. Len(pts) : insert(s, pts[k]) \in Seq(Point)
  <2> TAKE s \in Seq(Point), k \in 1 .. Len(pts)
  <2>1. pts[k] \in Point  OBVIOUS
  <2> QED  BY <2>1, Inserted
<1>3. sorted(pts) = f[N] /\ f[0] = <<>> /\ \A i \in 1 .. N : f[i] = insert(f[i - 1], pts[i])
  BY <1>2, Sorting
<1> HIDE DEF f
<1>4. 0 \in T
  <2>1. Sorts(pts, 0, <<>>)  BY DEF Sorts
  <2> QED  BY <1>1, <1>3, <2>1
<1>5. ASSUME NEW i \in 1 .. N, i - 1 \in T PROVE i \in T
  <2>1. Sorts(pts, i, f[i])  BY <1>3, <1>5, SortsStep
  <2> QED  BY <1>1, <2>1
<1>6. 0 .. N \subseteq T
  <2> HIDE DEF T, N
  <2> QED  BY <1>1, <1>4, <1>5, UpTo
<1> QED  BY <1>1, <1>3, <1>6

\* Of the first i sorted points those that have their hash first.
Dedupes(s, i, t) ==
    /\ t \in Seq(Point)
    /\ \A a, b \in 1 .. Len(t) : a < b => t[a].hash < t[b].hash
    /\ IF i = 0 THEN t = <<>> ELSE Len(t) > 0 /\ t[Len(t)].hash = s[i].hash
    /\ \A k \in 1 .. i : \E a \in 1 .. Len(t) : t[a].hash = s[k].hash
    /\ \A a \in 1 .. Len(t) : \E k \in 1 .. i : t[a] = s[k] /\ firstIn(s, k)

\* One more sorted point is kept or dropped.
LEMMA DedupesStep ==
    ASSUME NEW s \in Seq(Point), \A a, b \in 1 .. Len(s) : a < b => s[a].hash <= s[b].hash,
           NEW i \in 1 .. Len(s), NEW t, Dedupes(s, i - 1, t)
    PROVE  Dedupes(s, i, keep(t, s[i]))
<1> DEFINE pt == s[i]
           L == Len(t)
<1>1. /\ t \in Seq(Point) /\ L \in Nat /\ pt \in Point /\ i \in Nat /\ i >= 1 /\ Len(s) \in Nat
      /\ pt.hash \in Nat
      /\ \A a \in 1 .. L : t[a].hash \in Nat
      /\ \A k \in 1 .. Len(s) : s[k].hash \in Nat
  <2>1. t \in Seq(Point)  BY DEF Dedupes
  <2>2. L \in Nat /\ \A a \in 1 .. L : t[a].hash \in Nat  BY <2>1, HashOf
  <2>3. Len(s) \in Nat /\ \A k \in 1 .. Len(s) : s[k] \in Point /\ s[k].hash \in Nat  BY HashOf
  <2> QED  BY <2>1, <2>2, <2>3
<1>2. \A a, b \in 1 .. L : a < b => t[a].hash < t[b].hash  BY DEF Dedupes
<1>3. i = 1 => t = <<>>  BY <1>1 DEF Dedupes
<1>4. i # 1 => L > 0 /\ t[L].hash = s[i - 1].hash  BY <1>1 DEF Dedupes
<1>5. \A k \in 1 .. i - 1 : \E a \in 1 .. L : t[a].hash = s[k].hash  BY DEF Dedupes
<1>6. \A a \in 1 .. L : \E k \in 1 .. i - 1 : t[a] = s[k] /\ firstIn(s, k)  BY DEF Dedupes
<1>7. t # <<>> <=> L > 0  BY <1>1
<1>8. Last(t) = t[L]  BY DEF Last
<1>9. \A k \in 1 .. i - 1 : k \in 1 .. i  BY <1>1
<1>10. CASE L > 0 /\ t[L].hash = pt.hash
  <2>1. keep(t, pt) = t  BY <1>7, <1>8, <1>10 DEF keep
  <2>2. \A k \in 1 .. i : \E a \in 1 .. L : t[a].hash = s[k].hash
    <3> TAKE k \in 1 .. i
    <3>1. CASE k = i  BY <1>1, <1>10, <3>1
    <3>2. CASE k # i  BY <1>1, <1>5, <3>2
    <3> QED  BY <3>1, <3>2
  <2>3. \A a \in 1 .. L : \E k \in 1 .. i : t[a] = s[k] /\ firstIn(s, k)  BY <1>6, <1>9
  <2> QED  BY <1>1, <1>2, <1>10, <2>1, <2>2, <2>3 DEF Dedupes
<1>11. CASE ~(L > 0 /\ t[L].hash = pt.hash)
  <2> DEFINE u == Append(t, pt)
  <2>1. keep(t, pt) = u  BY <1>7, <1>8, <1>11 DEF keep
  <2>2. u \in Seq(Point) /\ Len(u) = L + 1 /\ u[L + 1] = pt /\ \A a \in 1 .. L : u[a] = t[a]
    BY <1>1, AppendProperties
  <2> HIDE DEF u, L
  <2>3. L > 0 => i # 1 /\ t[L].hash = s[i - 1].hash /\ s[i - 1].hash < pt.hash
    <3> SUFFICES ASSUME L > 0 PROVE i # 1 /\ t[L].hash = s[i - 1].hash /\ s[i - 1].hash < pt.hash
      OBVIOUS
    <3>1. i # 1  BY <1>3, <1>7
    <3>2. i - 1 \in 1 .. Len(s) /\ i - 1 < i  BY <1>1, <3>1
    <3>3. s[i - 1].hash <= pt.hash  BY <3>2
    <3> QED  BY <1>1, <1>4, <1>11, <3>1, <3>2, <3>3
  <2>4. \A a \in 1 .. L : t[a].hash < pt.hash
    <3> TAKE a \in 1 .. L
    <3>1. L \in 1 .. L /\ L > 0 /\ (a = L \/ a < L)  BY <1>1
    <3>2. t[a].hash <= t[L].hash  BY <1>1, <1>2, <3>1
    <3>3. t[L].hash < pt.hash  BY <2>3, <3>1
    <3> QED  BY <1>1, <3>1, <3>2, <3>3
  <2>5. \A a, b \in 1 .. L + 1 : a < b => u[a].hash < u[b].hash
    <3> SUFFICES ASSUME NEW a \in 1 .. L + 1, NEW b \in 1 .. L + 1, a < b
                 PROVE  u[a].hash < u[b].hash
      OBVIOUS
    <3>1. a \in 1 .. L /\ (b \in 1 .. L \/ b = L + 1)  BY <1>1
    <3> QED  BY <1>2, <2>2, <2>4, <3>1
  <2>6. \A k \in 1 .. i : \E a \in 1 .. L + 1 : u[a].hash = s[k].hash
    <3> TAKE k \in 1 .. i
    <3>1. CASE k = i
      <4>1. L + 1 \in 1 .. L + 1  BY <1>1
      <4> QED  BY <2>2, <3>1, <4>1
    <3>2. CASE k # i
      <4>1. k \in 1 .. i - 1  BY <1>1, <3>2
      <4>2. PICK a \in 1 .. L : t[a].hash = s[k].hash  BY <1>5, <4>1
      <4>3. a \in 1 .. L + 1  BY <1>1
      <4> QED  BY <2>2, <4>2, <4>3
    <3> QED  BY <3>1, <3>2
  <2>7. firstIn(s, i)
    <3> SUFFICES ASSUME NEW m \in 1 .. i - 1, s[m].hash = pt.hash PROVE FALSE
      BY DEF firstIn
    <3>1. PICK a \in 1 .. L : t[a].hash = s[m].hash  BY <1>5
    <3> QED  BY <1>1, <2>4, <3>1
  <2>8. \A a \in 1 .. L + 1 : \E k \in 1 .. i : u[a] = s[k] /\ firstIn(s, k)
    <3> TAKE a \in 1 .. L + 1
    <3>1. CASE a = L + 1
      <4>1. i \in 1 .. i  BY <1>1
      <4> QED  BY <2>2, <2>7, <3>1, <4>1
    <3>2. CASE a # L + 1
      <4>1. a \in 1 .. L  BY <1>1, <3>2
      <4> QED  BY <1>6, <1>9, <2>2, <4>1
    <3> QED  BY <3>1, <3>2
  <2>9. Len(u) > 0 /\ u[Len(u)].hash = s[i].hash /\ i # 0  BY <1>1, <2>2
  <2> QED  BY <2>1, <2>2, <2>5, <2>6, <2>8, <2>9 DEF Dedupes
<1> QED  BY <1>10, <1>11

\* What the last loop of buildChashRing computes.
LEMMA Deduped ==
    ASSUME NEW s \in Seq(Point), \A a, b \in 1 .. Len(s) : a < b => s[a].hash <= s[b].hash
    PROVE  Dedupes(s, Len(s), dedupe(s))
<1> DEFINE N == Len(s)
           f == deduping(s)
           T == {i \in 0 .. N : Dedupes(s, i, f[i])}
<1>1. N \in Nat  OBVIOUS
<1>2. dedupe(s) = f[N] /\ f[0] = <<>> /\ \A i \in 1 .. N : f[i] = keep(f[i - 1], s[i])
  BY Deduping
<1> HIDE DEF f
<1>3. 0 \in T
  <2>1. Dedupes(s, 0, <<>>)  BY DEF Dedupes
  <2> QED  BY <1>1, <1>2, <2>1
<1>4. ASSUME NEW i \in 1 .. N, i - 1 \in T PROVE i \in T
  <2>1. Dedupes(s, i, f[i])  BY <1>2, <1>4, DedupesStep
  <2> QED  BY <1>1, <2>1
<1>5. 0 .. N \subseteq T
  <2> HIDE DEF T, N
  <2> QED  BY <1>1, <1>3, <1>4, UpTo
<1> QED  BY <1>1, <1>2, <1>5

-------------------------------------------------------------------------------
(* The ring. *)

\* The p-th is the first peer that has hash h.
owner(ps, p, h) == has(ps, p, h) /\ \A q \in 1 .. p - 1 : ~has(ps, q, h)

\* The ring of any peers: its points ascend, every checksum of a peer is there and
\* belongs to the first peer that has it.
LEMMA Ring ==
    ASSUME Checksums, NEW ps \in Seq(Peer)
    PROVE  LET points == buildChashRing(ps) IN
           /\ points \in Seq(Point)
           /\ \A i, j \in 1 .. Len(points) : i < j => points[i].hash < points[j].hash
           /\ \A p \in 1 .. Len(ps), h \in Hashes :
                 has(ps, p, h) => \E i \in 1 .. Len(points) : points[i].hash = h
           /\ \A i \in 1 .. Len(points) : \E p \in 1 .. Len(ps) :
                 owner(ps, p, points[i].hash) /\ points[i].addr = ps[p].addr
<1> DEFINE g == generated(ps)
           s == sorted(g)
           t == dedupe(s)
<1>1. Covers(ps, Len(ps), g)  BY Generated
<1>2. g \in Seq(Point)  BY <1>1 DEF Covers
<1>3. Sorts(g, Len(g), s)  BY <1>2, Sorted
<1>4. s \in Seq(Point) /\ \A a, b \in 1 .. Len(s) : a < b => s[a].hash <= s[b].hash  BY <1>3 DEF Sorts
<1>5. Dedupes(s, Len(s), t)  BY <1>4, Deduped
<1>6. buildChashRing(ps) = t  BY DEF buildChashRing
<1> HIDE DEF g, s, t
<1>7. t \in Seq(Point) /\ \A i, j \in 1 .. Len(t) : i < j => t[i].hash < t[j].hash  BY <1>5 DEF Dedupes
<1>8. ASSUME NEW p \in 1 .. Len(ps), NEW h \in Hashes, has(ps, p, h)
      PROVE  \E i \in 1 .. Len(t) : t[i].hash = h
  <2>1. PICK k \in 1 .. Len(g) : g[k].hash = h  BY <1>1, <1>8 DEF Covers
  <2>2. PICK a \in 1 .. Len(s) : s[a].hash = h  BY <1>3, <2>1 DEF Sorts
  <2> QED  BY <1>5, <2>2 DEF Dedupes
<1>9. ASSUME NEW i \in 1 .. Len(t)
      PROVE  \E p \in 1 .. Len(ps) : owner(ps, p, t[i].hash) /\ t[i].addr = ps[p].addr
  <2>1. PICK a \in 1 .. Len(s) : t[i] = s[a] /\ firstIn(s, a)  BY <1>5 DEF Dedupes
  <2>2. PICK k \in 1 .. Len(g) : s[a] = g[k] /\ firstIn(g, k)  BY <1>3, <2>1 DEF Sorts
  <2> QED  BY <1>1, <2>1, <2>2 DEF Covers, owner
<1> QED  BY <1>6, <1>7, <1>8, <1>9

\* There is at least one peer, and all are well-formed.
RingTypeOK == Checksums /\ peers \in Seq(Peer) /\ peers # <<>>

\* A peer that is taken away.
LEMMA Removed ==
    ASSUME NEW ps \in Seq(Peer), NEW i \in 1 .. Len(ps)
    PROVE  LET qs == RemoveAt(ps, i) IN
           /\ qs \in Seq(Peer) /\ Len(qs) = Len(ps) - 1
           /\ \A p \in 1 .. i - 1 : qs[p] = ps[p]
           /\ \A p \in i .. Len(ps) - 1 : qs[p] = ps[p + 1]
<1> DEFINE L == Len(ps)
           u == SubSeq(ps, 1, i - 1)
           v == SubSeq(ps, i + 1, L)
           qs == u \o v
<1>1. L \in Nat /\ i \in 1 .. L /\ \A p \in 1 .. L : ps[p] \in Peer  OBVIOUS
<1> HIDE DEF L
<1>2. u \in Seq(Peer) /\ Len(u) = i - 1 /\ \A p \in 1 .. i - 1 : u[p] = ps[p]
  <2>1. (\A p \in 1 .. i - 1 : ps[p] \in Peer) /\ i - 1 \in Int  BY <1>1
  <2>2. /\ u \in Seq(Peer) /\ Len(u) = IF 1 <= i - 1 THEN i - 1 - 1 + 1 ELSE 0
        /\ \A p \in 1 .. i - 1 - 1 + 1 : u[p] = ps[1 + p - 1]
    BY <1>1, <2>1, SubSeqProperties
  <2> HIDE DEF u
  <2> QED  BY <1>1, <2>2
<1>3. v \in Seq(Peer) /\ Len(v) = L - i /\ \A p \in 1 .. L - i : v[p] = ps[i + p]
  <2>1. (\A p \in i + 1 .. L : ps[p] \in Peer) /\ i + 1 \in Int  BY <1>1
  <2>2. /\ v \in Seq(Peer) /\ Len(v) = IF i + 1 <= L THEN L - (i + 1) + 1 ELSE 0
        /\ \A p \in 1 .. L - (i + 1) + 1 : v[p] = ps[i + 1 + p - 1]
    BY <1>1, <2>1, SubSeqProperties
  <2> HIDE DEF v
  <2>3. L - (i + 1) + 1 = L - i /\ \A p \in 1 .. L - i : i + 1 + p - 1 = i + p  BY <1>1
  <2> QED  BY <1>1, <2>2, <2>3
<1> HIDE DEF u, v
<1>4. /\ qs \in Seq(Peer) /\ Len(qs) = (i - 1) + (L - i)
      /\ \A p \in 1 .. (i - 1) + (L - i) : qs[p] = IF p <= i - 1 THEN u[p] ELSE v[p - (i - 1)]
  <2>1. /\ qs \in Seq(Peer) /\ Len(qs) = Len(u) + Len(v)
        /\ \A p \in 1 .. Len(u) + Len(v) : qs[p] = IF p <= Len(u) THEN u[p] ELSE v[p - Len(u)]
    BY <1>2, <1>3, ConcatProperties
  <2> HIDE DEF qs
  <2> QED  BY <1>2, <1>3, <2>1, Zenon
<1> HIDE DEF qs
<1>5. (i - 1) + (L - i) = L - 1  BY <1>1
<1>6. \A p \in 1 .. i - 1 : qs[p] = ps[p]  BY <1>1, <1>2, <1>4, <1>5
<1>7. ASSUME NEW p \in i .. L - 1 PROVE qs[p] = ps[p + 1]
  <2>1. /\ p \in 1 .. L - 1 /\ ~(p <= i - 1) /\ p - (i - 1) \in 1 .. L - i
        /\ i + (p - (i - 1)) = p + 1
    BY <1>1
  <2> QED  BY <1>3, <1>4, <1>5, <2>1
<1>8. RemoveAt(ps, i) = qs  BY DEF RemoveAt, qs, u, v, L
<1> QED  BY <1>4, <1>5, <1>6, <1>7, <1>8 DEF L

\* The weight of a peer that is raised: only its own record changes.
LEMMA Raised ==
    ASSUME NEW ps \in Seq(Peer), NEW i \in 1 .. Len(ps), ps[i].weight < MaxRingWeight
    PROVE  LET qs == [ps EXCEPT ![i].weight = @ + 1] IN
           /\ qs \in Seq(Peer) /\ Len(qs) = Len(ps)
           /\ \A p \in 1 .. Len(ps) : p # i => qs[p] = ps[p]
           /\ qs[i].addr = ps[i].addr /\ qs[i].weight = ps[i].weight + 1
           /\ ps[i].weight \in Nat
<1> DEFINE new == [ps[i] EXCEPT !.weight = @ + 1]
           qs == [ps EXCEPT ![i] = new]
<1>1. ps[i] \in Peer  OBVIOUS
<1>2. ps[i].weight \in 1 .. MaxRingWeight /\ ps[i].addr \in Addrs /\ MaxRingWeight \in Nat
  BY <1>1, RingAssumption DEF Peer
<1>3. new \in Peer /\ new.addr = ps[i].addr /\ new.weight = ps[i].weight + 1
  BY <1>1, <1>2 DEF Peer
<1> HIDE DEF new
<1>4. /\ qs \in Seq(Peer) /\ Len(qs) = Len(ps)
      /\ \A p \in 1 .. Len(ps) : qs[p] = IF p = i THEN new ELSE ps[p]
  BY <1>3, ExceptSeq
<1>5. [ps EXCEPT ![i].weight = @ + 1] = qs  BY DEF new
<1> HIDE DEF qs
<1>6. /\ qs \in Seq(Peer) /\ Len(qs) = Len(ps)
      /\ \A p \in 1 .. Len(ps) : p # i => qs[p] = ps[p]
      /\ qs[i].addr = ps[i].addr /\ qs[i].weight = ps[i].weight + 1
      /\ ps[i].weight \in Nat
  BY <1>2, <1>3, <1>4
<1> QED  BY <1>5, <1>6, Zenon

\* The peers and the chains keep their types.
LEMMA RingTyped == RingSpec => []RingTypeOK
<1>1. RingInit => RingTypeOK
  BY DEF RingInit, RingTypeOK, Checksums
<1>2. RingTypeOK /\ [RingNext]_ringVars => RingTypeOK'
  <2> SUFFICES ASSUME RingTypeOK, [RingNext]_ringVars PROVE RingTypeOK'
    OBVIOUS
  <2>1. peers \in Seq(Peer) /\ peers # <<>> /\ DOMAIN peers = 1 .. Len(peers) /\ Len(peers) \in Nat
    BY DEF RingTypeOK
  <2>2. Checksums'  BY DEF RingTypeOK, Checksums, RingNext, AddToRing, RemoveFromRing, RaiseWeight, ringVars
  <2>3. peers' \in Seq(Peer) /\ peers' # <<>>
    <3>1. ASSUME NEW p \in Peer, AddToRing(p) PROVE peers' \in Seq(Peer) /\ peers' # <<>>
      BY <2>1, <3>1, AppendProperties DEF AddToRing
    <3>2. ASSUME NEW i \in 1 .. Len(peers), RemoveFromRing(i) PROVE peers' \in Seq(Peer) /\ peers' # <<>>
      <4>1. peers' \in Seq(Peer) /\ Len(peers') = Len(peers) - 1 /\ Len(peers) > 1
        BY <2>1, <3>2, Removed DEF RemoveFromRing
      <4> QED  BY <2>1, <4>1
    <3>3. ASSUME NEW i \in 1 .. Len(peers), RaiseWeight(i) PROVE peers' \in Seq(Peer) /\ peers' # <<>>
      <4>1. peers' \in Seq(Peer) /\ Len(peers') = Len(peers)
        BY <2>1, <3>3, Raised DEF RaiseWeight
      <4> QED  BY <2>1, <4>1
    <3>4. CASE UNCHANGED ringVars  BY <2>1, <3>4 DEF ringVars
    <3> QED  BY <2>1, <3>1, <3>2, <3>3, <3>4 DEF RingNext
  <2> QED  BY <2>2, <2>3 DEF RingTypeOK
<1> QED  BY <1>1, <1>2, PTL DEF RingSpec

\* buildChashRing makes the ring that its comment describes for any number of peers
\* and replicas, any weights and any checksums, also where the checksums of several
\* peers, or of one, collide.
THEOREM RingIsAsDescribed == RingSpec => []RingAsDescribed
<1>1. RingTypeOK => RingAsDescribed
  <2> SUFFICES ASSUME RingTypeOK PROVE RingAsDescribed
    OBVIOUS
  <2> DEFINE points == buildChashRing(peers)
  <2>1. Checksums /\ peers \in Seq(Peer)  BY DEF RingTypeOK
  <2>2. /\ points \in Seq(Point)
        /\ \A i, j \in 1 .. Len(points) : i < j => points[i].hash < points[j].hash
        /\ \A p \in 1 .. Len(peers), h \in Hashes :
              has(peers, p, h) => \E i \in 1 .. Len(points) : points[i].hash = h
        /\ \A i \in 1 .. Len(points) : \E p \in 1 .. Len(peers) :
              owner(peers, p, points[i].hash) /\ points[i].addr = peers[p].addr
    BY <2>1, Ring
  <2> HIDE DEF points
  <2>3. DOMAIN points = 1 .. Len(points) /\ DOMAIN peers = 1 .. Len(peers)  BY <2>1, <2>2
  <2> QED  BY <2>2, <2>3, Zenon DEF RingAsDescribed, owner, points
<1> QED  BY <1>1, RingTyped, PTL

-------------------------------------------------------------------------------
(* Looking keys up. *)

\* The checksums of all peers.
hashesOf(ps) == {g \in Hashes : \E p \in 1 .. Len(ps) : has(ps, p, g)}

\* The least checksum in G at or after h, or the least of all when there is none.
follows(G, h, g) ==
    /\ g \in G
    /\ \A y \in G : y >= h => g >= h /\ g <= y
    /\ (\A y \in G : ~(y >= h)) => \A y \in G : g <= y

\* A key goes to the first peer that has the checksum that follows its hash.
LEMMA Lookup ==
    ASSUME Checksums, NEW ps \in Seq(Peer), ps # <<>>, NEW h \in Nat
    PROVE  \E g \in Hashes, p \in 1 .. Len(ps) :
              /\ follows(hashesOf(ps), h, g)
              /\ owner(ps, p, g)
              /\ serverOf(ps, h) = ps[p].addr
<1> DEFINE t == buildChashRing(ps)
           i == findChashStart(t, h)
           G == hashesOf(ps)
           after == {k \in 1 .. Len(t) : t[k].hash >= h}
<1>1. /\ t \in Seq(Point)
      /\ \A k, j \in 1 .. Len(t) : k < j => t[k].hash < t[j].hash
      /\ \A p \in 1 .. Len(ps), g \in Hashes :
            has(ps, p, g) => \E k \in 1 .. Len(t) : t[k].hash = g
      /\ \A k \in 1 .. Len(t) : \E p \in 1 .. Len(ps) :
            owner(ps, p, t[k].hash) /\ t[k].addr = ps[p].addr
  BY Ring
<1>2. serverOf(ps, h) = t[i].addr  BY DEF serverOf
<1>3. i = IF after = {} THEN 1 ELSE CHOOSE k \in after : \A j \in after : k <= j
  <2> DEFINE from == {k \in DOMAIN t : t[k].hash >= h}
  <2>1. from = after  BY <1>1
  <2>2. i = IF from = {} THEN 1 ELSE CHOOSE k \in from : \A j \in from : k <= j
    <3> HIDE DEF t
    <3> QED  BY DEF findChashStart
  <2> HIDE DEF from, after, i
  <2> QED  BY <2>1, <2>2
<1> HIDE DEF t, i
<1>4. Len(t) \in Nat /\ \A k \in 1 .. Len(t) : t[k].hash \in Hashes /\ t[k].hash \in Nat
  BY <1>1, HashOf
<1>5. \A y \in G : \E k \in 1 .. Len(t) : t[k].hash = y  BY <1>1 DEF hashesOf
<1>6. \A k \in 1 .. Len(t) : t[k].hash \in G  BY <1>1, <1>4 DEF hashesOf, owner
<1>7. 1 \in 1 .. Len(t)
  <2>1. 1 \in 1 .. Len(ps)  OBVIOUS
  <2>2. /\ ps[1].weight * Replicas \in Nat \ {0}
        /\ \A j \in 1 .. ps[1].weight * Replicas : chain[ps[1].addr][j] \in Hashes
    BY <2>1, PointsOf
  <2>3. 1 \in 1 .. ps[1].weight * Replicas
    <3> DEFINE N == ps[1].weight * Replicas
    <3>1. N \in Nat \ {0}  BY <2>2
    <3> HIDE DEF N
    <3>2. 1 \in 1 .. N  BY <3>1
    <3> QED  BY <3>2 DEF N
  <2>4. chain[ps[1].addr][1] \in Hashes /\ has(ps, 1, chain[ps[1].addr][1])  BY <2>2, <2>3 DEF has
  <2>5. PICK k \in 1 .. Len(t) : t[k].hash = chain[ps[1].addr][1]  BY <1>1, <2>1, <2>4
  <2> QED  BY <1>4, <2>5
<1> HIDE DEF G
<1>8. i \in 1 .. Len(t) /\ follows(G, h, t[i].hash)
  <2>1. CASE after = {}
    <3>1. i = 1  BY <1>3, <2>1
    <3>2. \A y \in G : ~(y >= h)  BY <1>5, <2>1
    <3>3. \A y \in G : t[1].hash <= y
      <4> TAKE y \in G
      <4>1. PICK k \in 1 .. Len(t) : t[k].hash = y  BY <1>5
      <4> QED  BY <1>1, <1>4, <1>7, <4>1
    <3> QED  BY <1>6, <1>7, <3>1, <3>2, <3>3 DEF follows
  <2>2. CASE after # {}
    <3>1. after \in SUBSET Nat  OBVIOUS
    <3>2. \E k \in after : \A j \in after : k <= j
      <4> HIDE DEF after
      <4> QED  BY <2>2, <3>1, Least
    <3>3. i \in after /\ \A j \in after : i <= j
      <4> HIDE DEF after
      <4> QED  BY <1>3, <2>2, <3>2, Zenon
    <3>4. i \in 1 .. Len(t) /\ t[i].hash >= h  BY <3>3
    <3>5. \A y \in G : y >= h => t[i].hash <= y
      <4> SUFFICES ASSUME NEW y \in G, y >= h PROVE t[i].hash <= y
        OBVIOUS
      <4>1. PICK k \in 1 .. Len(t) : t[k].hash = y  BY <1>5
      <4>2. i <= k  BY <3>3, <4>1
      <4> QED  BY <1>1, <1>4, <3>4, <4>1, <4>2
    <3> QED  BY <1>6, <3>4, <3>5 DEF follows
  <2> QED  BY <2>1, <2>2
<1>9. PICK p \in 1 .. Len(ps) : owner(ps, p, t[i].hash) /\ t[i].addr = ps[p].addr  BY <1>1, <1>8
<1> QED  BY <1>2, <1>4, <1>8, <1>9 DEF G

\* Two groups that differ in one peer m of the larger one: it is only in qs, or it has
\* more checksums there.  e says where the peers of ps are in qs.
Grows(ps, qs, m, e) ==
    /\ ps \in Seq(Peer) /\ ps # <<>> /\ qs \in Seq(Peer) /\ qs # <<>>
    /\ m \in 1 .. Len(qs) /\ e \in [1 .. Len(ps) -> 1 .. Len(qs)]
    /\ \A p, q \in 1 .. Len(ps) : p < q => e[p] < e[q]
    /\ \A p \in 1 .. Len(ps) : ps[p].addr = qs[e[p]].addr
    /\ \A p \in 1 .. Len(ps), g \in Hashes : has(ps, p, g) => has(qs, e[p], g)
    /\ \A q \in 1 .. Len(qs) : q # m => \E p \in 1 .. Len(ps) :
          e[p] = q /\ \A g \in Hashes : has(qs, q, g) => has(ps, p, g)

\* A key that does not go to the same server in both goes to m in qs.
LEMMA Moves ==
    ASSUME Checksums, NEW ps, NEW qs, NEW m, NEW e, Grows(ps, qs, m, e),
           NEW h \in Nat, serverOf(ps, h) # serverOf(qs, h)
    PROVE  serverOf(qs, h) = qs[m].addr
<1> USE DEF Grows
<1>1. PICK g1 \in Hashes, p1 \in 1 .. Len(ps) :
         follows(hashesOf(ps), h, g1) /\ owner(ps, p1, g1) /\ serverOf(ps, h) = ps[p1].addr
  BY Lookup
<1>2. PICK g2 \in Hashes, p2 \in 1 .. Len(qs) :
         follows(hashesOf(qs), h, g2) /\ owner(qs, p2, g2) /\ serverOf(qs, h) = qs[p2].addr
  BY Lookup
<1>3. CASE p2 = m  BY <1>2, <1>3
<1>4. CASE p2 # m
  <2>1. PICK p \in 1 .. Len(ps) : e[p] = p2 /\ \A g \in Hashes : has(qs, p2, g) => has(ps, p, g)
    BY <1>4
  <2>2. has(ps, p, g2) /\ g2 \in hashesOf(ps)  BY <1>2, <2>1 DEF owner, hashesOf
  <2>3. hashesOf(ps) \subseteq hashesOf(qs)  BY DEF hashesOf
  <2>4. g1 = g2
    <3>1. g1 \in Nat /\ g2 \in Nat /\ hashesOf(ps) \subseteq Nat /\ hashesOf(qs) \subseteq Nat
      BY HashesAreNat DEF hashesOf
    <3>2. g1 \in hashesOf(ps) /\ g1 \in hashesOf(qs) /\ g2 \in hashesOf(qs)
      BY <1>1, <1>2, <2>3 DEF follows
    <3> QED  BY <1>1, <1>2, <2>2, <2>3, <3>1, <3>2 DEF follows
  <2>5. Len(ps) \in Nat /\ Len(qs) \in Nat  OBVIOUS
  <2>6. ~(p < p1)  BY <1>1, <2>2, <2>4, <2>5 DEF owner
  <2>7. ~(e[p1] < e[p])
    <3>1. has(qs, e[p1], g2) /\ e[p1] \in 1 .. Len(qs)  BY <1>1, <2>4 DEF owner
    <3> QED  BY <1>2, <2>1, <2>5, <3>1 DEF owner
  <2>8. p1 = p  BY <2>5, <2>6, <2>7
  <2> QED  BY <1>1, <1>2, <2>1, <2>8
<1> QED  BY <1>3, <1>4

\* A peer that is added, raised or removed, as a case of Moves.
LEMMA AddMoves ==
    ASSUME RingTypeOK, NEW p \in Peer, AddToRing(p), NEW h \in Nat,
           serverOf(peers, h) # serverOf(peers', h)
    PROVE  serverOf(peers', h) = Last(peers').addr
<1> DEFINE L == Len(peers)
           e == [k \in 1 .. L |-> k]
<1>1. Checksums /\ peers \in Seq(Peer) /\ peers # <<>> /\ L \in Nat  BY DEF RingTypeOK
<1>2. /\ peers' \in Seq(Peer) /\ peers' # <<>> /\ Len(peers') = L + 1
      /\ \A k \in 1 .. L : peers'[k] = peers[k]
  BY <1>1, AppendProperties DEF AddToRing
<1>3. Last(peers') = peers'[L + 1]  BY <1>2 DEF Last
<1> HIDE DEF L
<1>4. L + 1 \in 1 .. L + 1 /\ e \in [1 .. L -> 1 .. L + 1]  BY <1>1
<1>5. \A k \in 1 .. L, g \in Hashes : has(peers, k, g) <=> has(peers', k, g)  BY <1>2 DEF has
<1>6. \A k \in 1 .. L : e[k] = k  OBVIOUS
<1>7. \A q \in 1 .. L + 1 : q # L + 1 => q \in 1 .. L  BY <1>1
<1> HIDE DEF e
<1>8. Grows(peers, peers', L + 1, e)
  <2>1. \A k, q \in 1 .. L : k < q => e[k] < e[q]  BY <1>6
  <2>2. \A k \in 1 .. L : peers[k].addr = peers'[e[k]].addr  BY <1>2, <1>6
  <2>3. \A k \in 1 .. L, g \in Hashes : has(peers, k, g) => has(peers', e[k], g)  BY <1>5, <1>6
  <2>4. \A q \in 1 .. L + 1 : q # L + 1 => \E k \in 1 .. L :
           e[k] = q /\ \A g \in Hashes : has(peers', q, g) => has(peers, k, g)
    BY <1>5, <1>6, <1>7
  <2> QED  BY <1>1, <1>2, <1>4, <2>1, <2>2, <2>3, <2>4 DEF Grows, L
<1>9. serverOf(peers', h) = peers'[L + 1].addr  BY <1>1, <1>8, Moves
<1> QED  BY <1>3, <1>9

\* Keys move only to a peer whose weight is raised.
LEMMA RaiseMoves ==
    ASSUME RingTypeOK, NEW i \in 1 .. Len(peers), RaiseWeight(i), NEW h \in Nat,
           serverOf(peers, h) # serverOf(peers', h)
    PROVE  serverOf(peers', h) = peers[i].addr
<1> DEFINE L == Len(peers)
           e == [k \in 1 .. L |-> k]
           w == peers[i].weight
<1>1. Checksums /\ peers \in Seq(Peer) /\ peers # <<>> /\ L \in Nat  BY DEF RingTypeOK
<1>2. /\ peers' \in Seq(Peer) /\ Len(peers') = L
      /\ \A k \in 1 .. L : k # i => peers'[k] = peers[k]
      /\ peers'[i].addr = peers[i].addr /\ peers'[i].weight = w + 1 /\ w \in Nat
  BY <1>1, Raised DEF RaiseWeight
<1>3. peers' # <<>>  BY <1>1, <1>2
<1>4. ASSUME NEW k \in 1 .. L, k # i
      PROVE  \A g \in Hashes : has(peers, k, g) <=> has(peers', k, g)
  BY <1>2, <1>4 DEF has
<1>5. \A g \in Hashes : has(peers, i, g) => has(peers', i, g)
  <2>1. \A j \in 1 .. w * Replicas : j \in 1 .. (w + 1) * Replicas
    <3> HIDE DEF w
    <3>1. ASSUME NEW n \in Nat, NEW r \in Nat
          PROVE  n * r \in Nat /\ (n + 1) * r = n * r + r
      OBVIOUS
    <3>2. w \in Nat /\ Replicas \in Nat  BY <1>2, RingAssumption
    <3>3. w * Replicas \in Nat /\ (w + 1) * Replicas = w * Replicas + Replicas  BY <3>1, <3>2
    <3> DEFINE n == w * Replicas
    <3>4. n \in Nat /\ (w + 1) * Replicas = n + Replicas  BY <3>3
    <3> HIDE DEF n
    <3>5. \A j \in 1 .. n : j \in 1 .. n + Replicas  BY <3>2, <3>4
    <3> QED  BY <3>4, <3>5 DEF n
  <2> QED  BY <1>2, <2>1 DEF has
<1>6. e \in [1 .. L -> 1 .. L] /\ \A k \in 1 .. L : e[k] = k  BY <1>1
<1>7. \A k \in 1 .. L : peers[k].addr = peers'[k].addr  BY <1>2
<1> HIDE DEF e, L
<1>8. \A k \in 1 .. L, g \in Hashes : has(peers, k, g) => has(peers', e[k], g)  BY <1>4, <1>5, <1>6
<1>9. \A q \in 1 .. L : q # i => \E k \in 1 .. L :
         e[k] = q /\ \A g \in Hashes : has(peers', q, g) => has(peers, k, g)
  BY <1>4, <1>6
<1>10. \A k \in 1 .. L : peers[k].addr = peers'[e[k]].addr  BY <1>6, <1>7
<1>11. \A k, q \in 1 .. L : k < q => e[k] < e[q]  BY <1>6
<1>12. i \in 1 .. L  BY DEF L
<1>13. Grows(peers, peers', i, e)
  BY <1>1, <1>2, <1>3, <1>6, <1>8, <1>9, <1>10, <1>11, <1>12 DEF Grows, L
<1> QED  BY <1>1, <1>2, <1>13, Moves

\* Only the keys of a peer that is removed move.
LEMMA RemoveMoves ==
    ASSUME RingTypeOK, NEW i \in 1 .. Len(peers), RemoveFromRing(i), NEW h \in Nat,
           serverOf(peers, h) # serverOf(peers', h)
    PROVE  serverOf(peers, h) = peers[i].addr
<1> DEFINE L == Len(peers)
           M == L - 1
           e == [k \in 1 .. M |-> IF k < i THEN k ELSE k + 1]
<1>1. Checksums /\ peers \in Seq(Peer) /\ peers # <<>> /\ L \in Nat  BY DEF RingTypeOK
<1>2. /\ peers' \in Seq(Peer) /\ Len(peers') = M /\ L > 1
      /\ \A k \in 1 .. i - 1 : peers'[k] = peers[k]
      /\ \A k \in i .. M : peers'[k] = peers[k + 1]
  BY <1>1, Removed DEF RemoveFromRing
<1>3. peers' # <<>> /\ i \in 1 .. L  BY <1>1, <1>2
<1> HIDE DEF L
<1>4. M \in Nat /\ M = L - 1  BY <1>1, <1>2
<1>5. e \in [1 .. M -> 1 .. L] /\ \A k \in 1 .. M : e[k] = IF k < i THEN k ELSE k + 1
  BY <1>1, <1>3, <1>4
<1> HIDE DEF e, M
<1>6. \A k \in 1 .. M : peers'[k] = peers[e[k]]
  <2> TAKE k \in 1 .. M
  <2>1. CASE k < i
    <3>1. k \in 1 .. i - 1  BY <1>3, <1>4, <2>1
    <3> QED  BY <1>2, <1>5, <2>1, <3>1
  <2>2. CASE ~(k < i)
    <3>1. k \in i .. M  BY <1>3, <1>4, <2>2
    <3> QED  BY <1>2, <1>5, <2>2, <3>1
  <2> QED  BY <2>1, <2>2
<1>7. \A k, q \in 1 .. M : k < q => e[k] < e[q]  BY <1>3, <1>4, <1>5
<1>8. \A k \in 1 .. M, g \in Hashes : has(peers', k, g) <=> has(peers, e[k], g)  BY <1>6 DEF has
<1>9. \A q \in 1 .. L : q # i => \E k \in 1 .. M : e[k] = q
  <2> SUFFICES ASSUME NEW q \in 1 .. L, q # i PROVE \E k \in 1 .. M : e[k] = q
    OBVIOUS
  <2>1. CASE q < i
    <3>1. q \in 1 .. M /\ e[q] = q  BY <1>1, <1>3, <1>4, <1>5, <2>1
    <3> QED  BY <3>1
  <2>2. CASE q > i
    <3>1. q - 1 \in 1 .. M /\ ~(q - 1 < i) /\ (q - 1) + 1 = q  BY <1>1, <1>3, <1>4, <2>2
    <3>2. e[q - 1] = q  BY <1>5, <3>1
    <3> QED  BY <3>1, <3>2
  <2> QED  BY <1>1, <1>3, <2>1, <2>2
<1>10. \A q \in 1 .. L : q # i => \E k \in 1 .. M :
          e[k] = q /\ \A g \in Hashes : has(peers, q, g) => has(peers', k, g)
  BY <1>8, <1>9
<1>11. \A k \in 1 .. M : peers'[k].addr = peers[e[k]].addr  BY <1>6
<1>12. \A k \in 1 .. M, g \in Hashes : has(peers', k, g) => has(peers, e[k], g)  BY <1>8
<1>13. Grows(peers', peers, i, e)
  BY <1>1, <1>2, <1>3, <1>5, <1>7, <1>10, <1>11, <1>12 DEF Grows, L
<1> QED  BY <1>1, <1>13, Moves

\* A change of one peer moves only keys from or to it, for any number of peers and
\* replicas, any weights and any checksums, also where checksums collide or peers share
\* an address.
THEOREM OnlyKeysOfThePeerMove == RingSpec => OnlyItsKeysMove
<1> DEFINE A == \A h \in KeyHashes :
          peers # <<>> /\ serverOf(peers', h) # serverOf(peers, h)
          => /\ \A i \in DOMAIN peers : RemoveFromRing(i) => serverOf(peers, h) = peers[i].addr
             /\ Len(peers') > Len(peers) => serverOf(peers', h) = Last(peers').addr
             /\ \A i \in DOMAIN peers : RaiseWeight(i) => serverOf(peers', h) = peers[i].addr
<1>1. RingTypeOK /\ [RingNext]_ringVars => [A]_ringVars
  <2> SUFFICES ASSUME RingTypeOK, RingNext PROVE A
    OBVIOUS
  <2> SUFFICES ASSUME NEW h \in KeyHashes, serverOf(peers, h) # serverOf(peers', h)
               PROVE  /\ \A i \in DOMAIN peers : RemoveFromRing(i) => serverOf(peers, h) = peers[i].addr
                      /\ Len(peers') > Len(peers) => serverOf(peers', h) = Last(peers').addr
                      /\ \A i \in DOMAIN peers : RaiseWeight(i) => serverOf(peers', h) = peers[i].addr
    OBVIOUS
  <2>1. h \in Nat  BY HashesAreNat
  <2>2. peers \in Seq(Peer) /\ DOMAIN peers = 1 .. Len(peers) /\ Len(peers) \in Nat  BY DEF RingTypeOK
  <2>3. \A i \in 1 .. Len(peers) : RemoveFromRing(i) => serverOf(peers, h) = peers[i].addr
    BY <2>1, RemoveMoves
  <2>4. \A i \in 1 .. Len(peers) : RaiseWeight(i) => serverOf(peers', h) = peers[i].addr
    BY <2>1, RaiseMoves
  <2>5. ASSUME Len(peers') > Len(peers) PROVE serverOf(peers', h) = Last(peers').addr
    <3>1. \A i \in 1 .. Len(peers) : ~RemoveFromRing(i) /\ ~RaiseWeight(i)
      <4> TAKE i \in 1 .. Len(peers)
      <4>1. ASSUME RemoveFromRing(i) PROVE FALSE
        <5>1. Len(peers') = Len(peers) - 1  BY <2>2, <4>1, Removed DEF RemoveFromRing
        <5> QED  BY <2>2, <2>5, <5>1
      <4>2. ASSUME RaiseWeight(i) PROVE FALSE
        <5>1. Len(peers') = Len(peers)  BY <2>2, <4>2, Raised DEF RaiseWeight
        <5> QED  BY <2>2, <2>5, <5>1
      <4> QED  BY <4>1, <4>2
    <3>2. PICK p \in Peer : AddToRing(p)  BY <2>2, <3>1 DEF RingNext
    <3> QED  BY <2>1, <3>2, AddMoves
  <2> QED  BY <2>2, <2>3, <2>4, <2>5
<1> QED  BY <1>1, RingTyped, PTL DEF RingSpec, OnlyItsKeysMove
===============================================================================
