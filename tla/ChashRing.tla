------------------------------ MODULE ChashRing ------------------------------
(***************************************************************************)
(* The ketama ring of the consistent-hash balancer (chash.go): how         *)
(* buildChashRing makes it from the peers and findChashStart looks a key   *)
(* up in it.  A balancer is made anew when the configuration changes, so   *)
(* the steps are the changes an operator makes from one balancer to the    *)
(* next, and the question is which keys change their server.               *)
(***************************************************************************)
EXTENDS Integers, Sequences, SequencesExt

CONSTANTS
    Addrs,         \* addresses of peers; several peers may have the same one
    Hashes,        \* the values of the checksum, an interval from 0
    Replicas,      \* consistentReplicas: 160 in the code
    MaxRingWeight, \* bound: weights of peers
    MaxRingPeers   \* bound: primary peers

\* One key hash beyond all points, to wrap around.
KeyHashes == Hashes \cup {Cardinality(Hashes)}

ASSUME RingAssumption ==
    /\ IsFiniteSet(Hashes) /\ Hashes = 0 .. Cardinality(Hashes) - 1
    /\ Replicas \in Nat \ {0} /\ MaxRingWeight \in Nat \ {0} /\ MaxRingPeers \in Nat \ {0}

VARIABLES
    chain,       \* chain[a][j]: the j-th checksum of the seed of address a
    peers        \* the primary peers, in configuration order

ringVars == <<chain, peers>>

Peer == [addr : Addrs, weight : 1 .. MaxRingWeight]

\* External: the checksum of the seed and of the previous checksum, which is 0 at
\* the first point: equal checksums have equal successors.
isChain(c) ==
    LET prev(j) == IF j = 1 THEN 0 ELSE c[j - 1] IN
    \A i, j \in DOMAIN c : prev(i) = prev(j) => c[i] = c[j]

Chains == {c \in [1 .. MaxRingWeight * Replicas -> Hashes] : isChain(c)}

-------------------------------------------------------------------------------
\* The points of peer p, in the order they are generated.
pointsOf(ps, p) ==
    [j \in 1 .. ps[p].weight * Replicas |-> [hash |-> chain[ps[p].addr][j], addr |-> ps[p].addr]]

generated(ps) ==
    LET pts[p \in 0 .. Len(ps)] == IF p = 0 THEN <<>> ELSE pts[p - 1] \o pointsOf(ps, p)
    IN  pts[Len(ps)]

\* Mutant of insert: points with the same hash change their order.
insertBefore(pts, pt) ==
    LET n == Cardinality({i \in DOMAIN pts : pts[i].hash < pt.hash})
    IN  SubSeq(pts, 1, n) \o <<pt>> \o SubSeq(pts, n + 1, Len(pts))

\* A stable sort puts a point after those with the same hash.
insert(pts, pt) ==
    LET n == Cardinality({i \in DOMAIN pts : pts[i].hash <= pt.hash})
    IN  SubSeq(pts, 1, n) \o <<pt>> \o SubSeq(pts, n + 1, Len(pts))

sorted(pts) ==
    LET out[i \in 0 .. Len(pts)] == IF i = 0 THEN <<>> ELSE insert(out[i - 1], pts[i])
    IN  out[Len(pts)]

\* Of several points with the same hash the first one stays.
keep(out, pt) == IF out # <<>> /\ Last(out).hash = pt.hash THEN out ELSE Append(out, pt)

dedupe(pts) ==
    LET out[i \in 0 .. Len(pts)] == IF i = 0 THEN <<>> ELSE keep(out[i - 1], pts[i])
    IN  out[Len(pts)]

buildChashRing(ps) == dedupe(sorted(generated(ps)))

\* Mutant of findChashStart: the lookup by modulo of the plain hash.
findModulo(points, h) == 1 + (h % Len(points))

\* The first point at or after the hash of the key, or the first of all.
findChashStart(points, h) ==
    LET after == {i \in DOMAIN points : points[i].hash >= h}
    IN  IF after = {} THEN 1 ELSE CHOOSE i \in after : \A j \in after : i <= j

\* The server that a key is looked up to.
serverOf(ps, h) ==
    LET points == buildChashRing(ps) IN points[findChashStart(points, h)].addr

-------------------------------------------------------------------------------
RingInit ==
    /\ chain \in [Addrs -> Chains]
    /\ \E p \in Peer : peers = <<p>>

AddToRing(p) ==
    /\ Len(peers) < MaxRingPeers
    /\ peers' = Append(peers, p)
    /\ UNCHANGED chain

RemoveFromRing(i) ==
    /\ Len(peers) > 1
    /\ peers' = RemoveAt(peers, i)
    /\ UNCHANGED chain

RaiseWeight(i) ==
    /\ peers[i].weight < MaxRingWeight
    /\ peers' = [peers EXCEPT ![i].weight = @ + 1]
    /\ UNCHANGED chain

RingNext ==
    \/ \E p \in Peer : AddToRing(p)
    \/ \E i \in DOMAIN peers : RemoveFromRing(i) \/ RaiseWeight(i)

RingSpec == RingInit /\ [][RingNext]_ringVars

-------------------------------------------------------------------------------
(* Properties. *)

\* One of the checksums of the p-th peer is h.
has(ps, p, h) == \E j \in 1 .. ps[p].weight * Replicas : chain[ps[p].addr][j] = h

\* The ring is what its description says, whatever collides: strictly ascending,
\* with a point for each checksum of a peer, which belongs to the first peer in
\* configuration order that has it ("keeping the first occurrence", chash.go).
RingAsDescribed ==
    LET points == buildChashRing(peers)
    IN  /\ \A i, j \in DOMAIN points : i < j => points[i].hash < points[j].hash
        /\ \A p \in DOMAIN peers, h \in Hashes :
              has(peers, p, h) => \E i \in DOMAIN points : points[i].hash = h
        /\ \A i \in DOMAIN points : \E p \in DOMAIN peers :
              /\ has(peers, p, points[i].hash) /\ points[i].addr = peers[p].addr
              /\ \A q \in 1 .. p - 1 : ~has(peers, q, points[i].hash)

\* Consistency, which is what the ring is for: when a peer is removed only the
\* keys it served move, when one is added or its weight is raised keys only move
\* to it, also where checksums collide or peers share an address ("removing or
\* adding one peer redistributes only ~1/N of keys", chash.go).
OnlyItsKeysMove ==
    [][\A h \in KeyHashes :
          peers # <<>> /\ serverOf(peers', h) # serverOf(peers, h)
          => /\ \A i \in DOMAIN peers : RemoveFromRing(i) => serverOf(peers, h) = peers[i].addr
             /\ Len(peers') > Len(peers) => serverOf(peers', h) = Last(peers').addr
             /\ \A i \in DOMAIN peers : RaiseWeight(i) => serverOf(peers', h) = peers[i].addr]_ringVars
===============================================================================
