--------------------------- MODULE RoundRobinProofs ---------------------------
(***************************************************************************)
(* Proofs about RoundRobin, for every pool of servers, every number of     *)
(* concurrent requests and every bound: sums of weights, the health of the *)
(* peers, the credit of smooth weighted round-robin and the loop that      *)
(* moves it, and at the end the books on the connections and the contract  *)
(* of module Picker.                                                       *)
(***************************************************************************)
EXTENDS RoundRobin, Loops, FiniteSetTheorems

-------------------------------------------------------------------------------
(* Sums of weights, by induction over the peers of a group. *)

\* The sum over the peers of S that are not behind the i-th.
sums(f, S) == CHOOSE sum : sum = [i \in 0 .. NPeers |->
                  IF i = 0 THEN 0 ELSE sum[i - 1] + (IF i \in S THEN f[i] ELSE 0)]

\* The partial sums of total, and where they end.
LEMMA Sums ==
    ASSUME NEW f \in [Peers -> Int], NEW S
    PROVE  /\ sums(f, S) \in [0 .. NPeers -> Int]
           /\ sums(f, S)[0] = 0
           /\ \A i \in Peers : sums(f, S)[i] = sums(f, S)[i - 1] + (IF i \in S THEN f[i] ELSE 0)
           /\ total(f, S) = sums(f, S)[NPeers]
<1> DEFINE V == [i \in Nat |-> [x \in Int |-> x + (IF i \in S \cap Peers THEN f[i] ELSE 0)]]
           Def(sum) == [i \in 0 .. NPeers |->
                  IF i = 0 THEN 0 ELSE sum[i - 1] + (IF i \in S THEN f[i] ELSE 0)]
<1>0. NPeers \in Nat /\ Peers = 1 .. NPeers
  BY ServersAssumption DEF Peers
<1>1. V \in [Nat -> [Int -> Int]]
  BY <1>0
<1>2. PICK h \in [Nat -> Int] : course(h, NPeers, 0, V)
  <2>1. 0 \in Int
    OBVIOUS
  <2> HIDE DEF V
  <2> QED BY <1>0, <1>1, <2>1, Loop
<1>3. ASSUME NEW i \in 1 .. NPeers
      PROVE  h[i] = h[i - 1] + (IF i \in S THEN f[i] ELSE 0)
  <2>1. i \in Peers /\ i \in Nat /\ h[i - 1] \in Int
    BY <1>0
  <2>2. h[i] = V[i][h[i - 1]]
    <3> HIDE DEF V
    <3> QED BY <1>2 DEF course
  <2> QED BY <2>1, <2>2
<1> DEFINE r == [i \in 0 .. NPeers |-> h[i]]
<1>4. r = Def(r)
  BY <1>0, <1>2, <1>3 DEF course
<1>5. sums(f, S) = Def(sums(f, S))
  BY <1>4, Zenon DEF sums
<1>6. total(f, S) = sums(f, S)[NPeers]
  BY Zenon DEF total, sums
<1>7. ASSUME NEW s, s = Def(s)
      PROVE  /\ s \in [0 .. NPeers -> Int] /\ s[0] = 0
             /\ \A i \in Peers : s[i] = s[i - 1] + (IF i \in S THEN f[i] ELSE 0)
  <2>1. s[0] = 0
    BY <1>0, <1>7
  <2>2. \A i \in Peers : s[i] = s[i - 1] + (IF i \in S THEN f[i] ELSE 0)
    BY <1>0, <1>7
  <2> DEFINE T == {i \in 0 .. NPeers : s[i] \in Int}
  <2>3. 0 \in T
    BY <1>0, <2>1
  <2>4. ASSUME NEW i \in 1 .. NPeers, i - 1 \in T PROVE i \in T
    <3>1. s[i - 1] \in Int /\ i \in Peers /\ f[i] \in Int /\ i \in 0 .. NPeers
      BY <1>0, <2>4
    <3>2. s[i] \in Int
      BY <2>2, <3>1
    <3> QED BY <3>1, <3>2
  <2>5. 0 .. NPeers \subseteq T
    <3> HIDE DEF T
    <3> QED BY <1>0, <2>3, <2>4, UpTo
  <2>6. \A i \in 0 .. NPeers : s[i] \in Int
    BY <2>5
  <2>7. s \in [0 .. NPeers -> Int]
    BY <1>7, <2>6
  <2> QED BY <2>1, <2>2, <2>7
<1> HIDE DEF Def
<1> QED
  BY <1>5, <1>6, <1>7

\* The sum of numbers is a number, of natural numbers a natural number.
LEMMA TotalType ==
    ASSUME NEW f \in [Peers -> Int], NEW S
    PROVE  /\ total(f, S) \in Int
           /\ (\A p \in Peers : f[p] \in Nat) => total(f, S) \in Nat
<1> DEFINE s == sums(f, S)
<1>0. NPeers \in Nat /\ Peers = 1 .. NPeers
  BY ServersAssumption DEF Peers
<1>1. /\ s \in [0 .. NPeers -> Int] /\ s[0] = 0 /\ total(f, S) = s[NPeers]
      /\ \A i \in Peers : s[i] = s[i - 1] + (IF i \in S THEN f[i] ELSE 0)
  BY Sums
<1> HIDE DEF s
<1>2. ASSUME \A p \in Peers : f[p] \in Nat PROVE s[NPeers] \in Nat
  <2> DEFINE T == {i \in 0 .. NPeers : s[i] \in Nat}
  <2>1. 0 \in T
    BY <1>0, <1>1
  <2>2. ASSUME NEW i \in 1 .. NPeers, i - 1 \in T PROVE i \in T
    <3>1. s[i - 1] \in Nat /\ i \in Peers /\ f[i] \in Nat /\ i \in 0 .. NPeers
      BY <1>0, <1>2, <2>2
    <3>2. s[i] \in Nat
      BY <1>1, <3>1
    <3> QED BY <3>1, <3>2
  <2>3. 0 .. NPeers \subseteq T
    <3> HIDE DEF T
    <3> QED BY <1>0, <2>1, <2>2, UpTo
  <2> QED BY <1>0, <2>3
<1> QED
  BY <1>0, <1>1, <1>2

\* Sums add up.
LEMMA TotalAdd ==
    ASSUME NEW f \in [Peers -> Int], NEW g \in [Peers -> Int], NEW h \in [Peers -> Int], NEW S,
           \A p \in Peers : p \in S => h[p] = f[p] + g[p]
    PROVE  total(h, S) = total(f, S) + total(g, S)
<1> DEFINE a == sums(f, S)
           b == sums(g, S)
           c == sums(h, S)
           T == {i \in 0 .. NPeers : c[i] = a[i] + b[i]}
<1>0. NPeers \in Nat /\ Peers = 1 .. NPeers
  BY ServersAssumption DEF Peers
<1>1. /\ a \in [0 .. NPeers -> Int] /\ a[0] = 0 /\ total(f, S) = a[NPeers]
      /\ \A i \in Peers : a[i] = a[i - 1] + (IF i \in S THEN f[i] ELSE 0)
  BY Sums
<1>2. /\ b \in [0 .. NPeers -> Int] /\ b[0] = 0 /\ total(g, S) = b[NPeers]
      /\ \A i \in Peers : b[i] = b[i - 1] + (IF i \in S THEN g[i] ELSE 0)
  BY Sums
<1>3. /\ c \in [0 .. NPeers -> Int] /\ c[0] = 0 /\ total(h, S) = c[NPeers]
      /\ \A i \in Peers : c[i] = c[i - 1] + (IF i \in S THEN h[i] ELSE 0)
  BY Sums
<1> HIDE DEF a, b, c
<1>4. 0 \in T
  BY <1>0, <1>1, <1>2, <1>3
<1>5. ASSUME NEW i \in 1 .. NPeers, i - 1 \in T PROVE i \in T
  <2>1. /\ c[i - 1] = a[i - 1] + b[i - 1] /\ i \in Peers
        /\ a[i - 1] \in Int /\ b[i - 1] \in Int
        /\ f[i] \in Int /\ g[i] \in Int
    BY <1>0, <1>1, <1>2, <1>5
  <2>2. CASE i \in S
    BY <1>0, <1>1, <1>2, <1>3, <2>1, <2>2
  <2>3. CASE i \notin S
    BY <1>0, <1>1, <1>2, <1>3, <2>1, <2>3
  <2> QED BY <2>2, <2>3
<1>6. 0 .. NPeers \subseteq T
  <2> HIDE DEF T
  <2> QED BY <1>0, <1>4, <1>5, UpTo
<1> QED
  BY <1>0, <1>1, <1>2, <1>3, <1>6

\* A sum over some of the peers of S is a sum over S in which the others count 0.
LEMMA TotalWithin ==
    ASSUME NEW f \in [Peers -> Int], NEW g \in [Peers -> Int], NEW S, NEW E \in SUBSET S,
           \A p \in Peers : g[p] = IF p \in E THEN f[p] ELSE 0
    PROVE  total(g, S) = total(f, E)
<1> DEFINE a == sums(f, E)
           b == sums(g, S)
           T == {i \in 0 .. NPeers : b[i] = a[i]}
<1>0. NPeers \in Nat /\ Peers = 1 .. NPeers
  BY ServersAssumption DEF Peers
<1>1. /\ a \in [0 .. NPeers -> Int] /\ a[0] = 0 /\ total(f, E) = a[NPeers]
      /\ \A i \in Peers : a[i] = a[i - 1] + (IF i \in E THEN f[i] ELSE 0)
  BY Sums
<1>2. /\ b \in [0 .. NPeers -> Int] /\ b[0] = 0 /\ total(g, S) = b[NPeers]
      /\ \A i \in Peers : b[i] = b[i - 1] + (IF i \in S THEN g[i] ELSE 0)
  BY Sums
<1> HIDE DEF a, b
<1>3. 0 \in T
  BY <1>0, <1>1, <1>2
<1>4. ASSUME NEW i \in 1 .. NPeers, i - 1 \in T PROVE i \in T
  <2>1. b[i - 1] = a[i - 1] /\ i \in Peers /\ a[i - 1] \in Int /\ f[i] \in Int
    BY <1>0, <1>1, <1>4
  <2>2. CASE i \in E
    BY <1>0, <1>1, <1>2, <2>1, <2>2
  <2>3. CASE i \notin E
    <3>1. (IF i \in S THEN g[i] ELSE 0) = 0
      BY <2>1, <2>3
    <3>2. b[i] = b[i - 1] + 0 /\ a[i] = a[i - 1] + 0
      BY <1>1, <1>2, <2>1, <2>3, <3>1
    <3> QED BY <1>0, <2>1, <3>2
  <2> QED BY <2>2, <2>3
<1>5. 0 .. NPeers \subseteq T
  <2> HIDE DEF T
  <2> QED BY <1>0, <1>3, <1>4, UpTo
<1> QED
  BY <1>0, <1>1, <1>2, <1>5

\* A sum in which only one peer counts.
LEMMA TotalOne ==
    ASSUME NEW g \in [Peers -> Int], NEW S, NEW p \in Peers, p \in S,
           \A q \in Peers \ {p} : g[q] = 0
    PROVE  total(g, S) = g[p]
<1> DEFINE b == sums(g, S)
           T == {i \in 0 .. NPeers : b[i] = IF p <= i THEN g[p] ELSE 0}
<1>0. NPeers \in Nat /\ Peers = 1 .. NPeers /\ g[p] \in Int
  BY ServersAssumption DEF Peers
<1>1. /\ b \in [0 .. NPeers -> Int] /\ b[0] = 0 /\ total(g, S) = b[NPeers]
      /\ \A i \in Peers : b[i] = b[i - 1] + (IF i \in S THEN g[i] ELSE 0)
  BY Sums
<1> HIDE DEF b
<1>2. 0 \in T
  BY <1>0, <1>1
<1>3. ASSUME NEW i \in 1 .. NPeers, i - 1 \in T PROVE i \in T
  <2>1. /\ b[i - 1] = (IF p <= i - 1 THEN g[p] ELSE 0) /\ i \in Peers
        /\ b[i] = b[i - 1] + (IF i \in S THEN g[i] ELSE 0)
    BY <1>0, <1>1, <1>3
  <2>2. CASE i = p
    BY <1>0, <2>1, <2>2
  <2>3. CASE i # p
    BY <1>0, <2>1, <2>3
  <2> QED BY <2>2, <2>3
<1>4. 0 .. NPeers \subseteq T
  <2> HIDE DEF T
  <2> QED BY <1>0, <1>2, <1>3, UpTo
<1> QED
  BY <1>0, <1>1, <1>4

\* A sum in which no peer counts.
LEMMA TotalZero ==
    ASSUME NEW g \in [Peers -> Int], NEW S, \A p \in Peers : g[p] = 0
    PROVE  total(g, S) = 0
<1> DEFINE s == sums(g, S)
           T == {i \in 0 .. NPeers : s[i] = 0}
<1>0. NPeers \in Nat /\ Peers = 1 .. NPeers
  BY ServersAssumption DEF Peers
<1>1. /\ s \in [0 .. NPeers -> Int] /\ s[0] = 0 /\ total(g, S) = s[NPeers]
      /\ \A i \in Peers : s[i] = s[i - 1] + (IF i \in S THEN g[i] ELSE 0)
  BY Sums
<1> HIDE DEF s
<1>2. 0 \in T
  BY <1>0, <1>1
<1>3. ASSUME NEW i \in 1 .. NPeers, i - 1 \in T PROVE i \in T
  <2>1. s[i - 1] = 0 /\ i \in Peers /\ i \in 0 .. NPeers /\ g[i] = 0
    BY <1>0, <1>3
  <2>2. s[i] = 0 + 0
    BY <1>1, <2>1
  <2> QED BY <2>1, <2>2
<1>4. 0 .. NPeers \subseteq T
  <2> HIDE DEF T
  <2> QED BY <1>0, <1>2, <1>3, UpTo
<1> QED
  BY <1>0, <1>1, <1>4

\* A round of smooth weighted round-robin among peers of S moves credit within S,
\* and does not touch the credit of other peers: what the winner loses is what all
\* the eligible peers gain.
LEMMA SmoothBalanced ==
    ASSUME currentWeight \in [Peers -> Int], effectiveWeight \in [Peers -> Nat],
           NEW S \in SUBSET Peers, NEW E \in SUBSET Peers, E \subseteq S \/ E \cap S = {},
           NEW best \in E, smoothWeightedPeer(E, best)
    PROVE  total(currentWeight', S) = total(currentWeight, S)
<1> DEFINE w == total(effectiveWeight, E)
           gain == [p \in Peers |-> IF p \in E THEN effectiveWeight[p] ELSE 0]
           cw == [p \in Peers |-> IF p \in E THEN currentWeight[p] + effectiveWeight[p]
                                             ELSE currentWeight[p]]
           loss == [p \in Peers |-> IF p = best THEN - w ELSE 0]
<1>0. currentWeight' = [cw EXCEPT ![best] = @ - w] /\ best \in Peers
  BY DEF smoothWeightedPeer, TotalEffectiveWeight
<1>1. effectiveWeight \in [Peers -> Int] /\ w \in Int
  BY TotalType
<1> HIDE DEF w
<1>2. cw \in [Peers -> Int] /\ gain \in [Peers -> Int] /\ loss \in [Peers -> Int]
  BY <1>1
<1>3. currentWeight' \in [Peers -> Int]
  BY <1>0, <1>1, <1>2
<1>4. CASE E \subseteq S
  <2>1. total(cw, S) = total(currentWeight, S) + total(gain, S)
    <3>1. \A p \in Peers : p \in S => cw[p] = currentWeight[p] + gain[p]
      OBVIOUS
    <3> HIDE DEF cw, gain
    <3> QED BY <1>2, <3>1, TotalAdd
  <2>2. total(gain, S) = w
    <3>1. \A p \in Peers : gain[p] = IF p \in E THEN effectiveWeight[p] ELSE 0
      OBVIOUS
    <3>2. E \in SUBSET S
      BY <1>4
    <3> HIDE DEF gain
    <3> QED BY <1>1, <1>2, <3>1, <3>2, TotalWithin DEF w
  <2>3. total(currentWeight', S) = total(cw, S) + total(loss, S)
    <3>1. \A p \in Peers : p \in S => currentWeight'[p] = cw[p] + loss[p]
      BY <1>0, <1>1, <1>2
    <3> HIDE DEF cw, loss
    <3> QED BY <1>2, <1>3, <3>1, TotalAdd
  <2>4. total(loss, S) = - w
    <3>1. best \in S /\ loss[best] = - w /\ \A q \in Peers \ {best} : loss[q] = 0
      BY <1>0, <1>4
    <3>2. total(loss, S) = loss[best]
      <4> HIDE DEF loss
      <4> QED BY <1>0, <1>2, <3>1, TotalOne
    <3> QED BY <3>1, <3>2
  <2>5. total(currentWeight, S) \in Int
    BY TotalType
  <2> HIDE DEF cw, gain, loss
  <2> QED
    BY <1>1, <2>1, <2>2, <2>3, <2>4, <2>5
<1>5. CASE E \cap S = {}
  <2> DEFINE none == [p \in Peers |-> 0]
  <2>1. none \in [Peers -> Int] /\ \A p \in Peers : none[p] = 0
    OBVIOUS
  <2>2. \A p \in Peers : p \in S => currentWeight'[p] = currentWeight[p] + none[p]
    BY <1>0, <1>1, <1>2, <1>5
  <2>3. total(none, S) = 0
    BY <2>1, TotalZero
  <2>4. total(currentWeight', S) = total(currentWeight, S) + total(none, S)
    <3> HIDE DEF none
    <3> QED BY <1>3, <2>1, <2>2, TotalAdd
  <2>5. total(currentWeight, S) \in Int
    BY TotalType
  <2> QED
    BY <2>3, <2>4, <2>5
<1> QED
  BY <1>4, <1>5

-------------------------------------------------------------------------------
(* Configuration and helpers. *)

\* Peer.init leaves every peer with a positive weight and a timeout.
LEMMA ConfigTypes ==
    \A p \in Peers : /\ Weight(p) \in Nat /\ Weight(p) > 0
                     /\ MaxFails(p) \in Int
                     /\ FailTimeout(p) \in Nat
                     /\ MaxConns(p) \in Int
                     /\ Down(p) \in BOOLEAN
<1> TAKE p \in Peers
<1>1. Server[p] \in ServerConfig
  BY ServersAssumption
<1>2. /\ Server[p].Weight \in Int /\ Server[p].MaxFails \in Int
      /\ Server[p].FailTimeout \in Nat /\ Server[p].MaxConns \in Int
      /\ Server[p].Down \in BOOLEAN
  BY <1>1 DEF ServerConfig
<1> QED
  BY <1>2, ServersAssumption
  DEF Weight, MaxFails, FailTimeout, MaxConns, Down

\* The index 0 stands for nil and for no peer of the pool.
LEMMA PeersNat == Peers \subseteq Nat /\ NoPeer \notin Peers
  BY ServersAssumption DEF Peers, NoPeer

\* What Weight / MaxFails can be in done.
LEMMA DivType ==
    ASSUME NEW w \in Nat, NEW m \in Nat, m > 0
    PROVE  w \div m \in Nat
  BY SMT

\* One entry of a function of functions is replaced, as in probeChecked.
LEMMA UpdateEntry ==
    ASSUME NEW S, NEW T, NEW R, NEW f \in [S -> [T -> R]],
           NEW a \in S, NEW b \in T, NEW e \in R
    PROVE  LET F == [f EXCEPT ![a][b] = e]
           IN  /\ F \in [S -> [T -> R]]
               /\ \A x \in S, y \in T : F[x][y] = IF x = a /\ y = b THEN e ELSE f[x][y]
<1> DEFINE F == [f EXCEPT ![a][b] = e]
<1>1. [f[a] EXCEPT ![b] = e] \in [T -> R]
  OBVIOUS
<1>2. F = [f EXCEPT ![a] = [f[a] EXCEPT ![b] = e]]
  OBVIOUS
<1>3. F \in [S -> [T -> R]]
  BY <1>1, <1>2
<1>4. ASSUME NEW x \in S, NEW y \in T
      PROVE  F[x][y] = IF x = a /\ y = b THEN e ELSE f[x][y]
  <2>1. CASE x = a
    BY <1>2, <2>1
  <2>2. CASE x # a
    BY <1>2, <2>2
  <2> QED BY <2>1, <2>2
<1> QED
  BY <1>3, <1>4

-------------------------------------------------------------------------------
(* Type correctness. *)

Entry == [prior : Nat, seq : Nat]

\* One round of smooth weighted round-robin keeps the types of the weights.
LEMMA SmoothType ==
    ASSUME TypeOK, NEW E \in SUBSET Peers, NEW best \in E, smoothWeightedPeer(E, best)
    PROVE  /\ currentWeight' \in [Peers -> Int]
           /\ effectiveWeight' \in [Peers -> Nat]
           /\ \A p \in Peers : effectiveWeight'[p] <= Weight(p)
<1>1. effectiveWeight \in [Peers -> Int]
  BY DEF TypeOK
<1>2. TotalEffectiveWeight(E) \in Int
  BY <1>1, TotalType DEF TotalEffectiveWeight
<1> QED
  BY <1>2, ConfigTypes DEF TypeOK, smoothWeightedPeer

\* Giving a peer to a request keeps the types of what it touches.
LEMMA TakeType ==
    ASSUME TypeOK, NEW g \in Pickers, NEW p \in Peers, take(g, p)
    PROVE  /\ conns' \in [Peers -> Int]
           /\ tried' \in [Pickers -> SUBSET Peers]
           /\ pc' \in [Pickers -> {"none", "ready", "backup", "busy"}]
           /\ peerOf' \in [Pickers -> Peers \cup {NoPeer}]
           /\ picked' \in [Pickers -> SUBSET Peers]
           /\ pickedAt' \in [Pickers -> Nat]
           /\ probing' \in [Pickers -> BOOLEAN]
  BY DEF TypeOK, take

\* commitPeer keeps the types of the health fields and of probeChecked.
LEMMA CommitType ==
    ASSUME TypeOK, NEW g \in Pickers, NEW p \in Peers, commitPeer(g, p, now)
    PROVE  /\ fails' \in [Peers -> Nat]
           /\ accessed' \in [Peers -> Nat]
           /\ checked' \in [Peers -> Nat]
           /\ checkedSeq' \in [Peers -> Nat]
           /\ probeChecked' \in [Pickers -> [Peers -> Entry]]
<1> DEFINE e == [prior |-> checked[p], seq |-> checkedSeq[p] + 1]
<1>1. fails' \in [Peers -> Nat] /\ accessed' \in [Peers -> Nat]
  BY DEF TypeOK, commitPeer
<1>2. CASE now - checked[p] > FailTimeout(p)
  <2>1. setChecked(p, now) /\ probeChecked' = [probeChecked EXCEPT ![g][p] = e]
    BY <1>2 DEF commitPeer
  <2>2. checked' \in [Peers -> Nat] /\ checkedSeq' \in [Peers -> Nat]
    BY <2>1 DEF TypeOK, setChecked
  <2>3. e \in Entry
    BY DEF TypeOK, Entry
  <2>4. probeChecked \in [Pickers -> [Peers -> Entry]]
    BY DEF TypeOK, Entry
  <2> HIDE DEF e
  <2>5. probeChecked' \in [Pickers -> [Peers -> Entry]]
    BY <2>1, <2>3, <2>4, UpdateEntry
  <2> QED
    BY <1>1, <2>2, <2>5
<1>3. CASE ~(now - checked[p] > FailTimeout(p))
  BY <1>1, <1>3 DEF TypeOK, commitPeer, Entry
<1> QED
  BY <1>2, <1>3

\* A Pick that returns a peer keeps all types.
LEMMA PickType ==
    ASSUME TypeOK, NEW g \in Pickers, NEW G \in SUBSET Peers, pickFromGroup(g, G),
           UNCHANGED <<now, backupPhase, started>>
    PROVE  TypeOK'
<1> DEFINE E == Selectable(g, G, now)
<1>1. E \in SUBSET Peers
  BY DEF Selectable
<1>2. PICK best \in E : IF single
                        THEN take(g, best) /\ UNCHANGED <<weightVars, healthVars, probeChecked>>
                        ELSE smoothWeightedPeer(E, best) /\ commitPeer(g, best, now)
  BY DEF pickFromGroup
<1>3. best \in Peers
  BY <1>1, <1>2
<1>4. CASE single
  BY <1>2, <1>3, <1>4, TakeType DEF TypeOK, weightVars, healthVars
<1>5. CASE ~single
  <2>1. smoothWeightedPeer(E, best) /\ commitPeer(g, best, now)
    BY <1>2, <1>5
  <2>2. take(g, best)
    BY <2>1 DEF commitPeer
  <2> HIDE DEF E
  <2>3. /\ currentWeight' \in [Peers -> Int]
        /\ effectiveWeight' \in [Peers -> Nat]
        /\ \A p \in Peers : effectiveWeight'[p] <= Weight(p)
    BY <1>1, <1>2, <2>1, SmoothType
  <2> QED
    BY <1>3, <2>1, <2>2, <2>3, TakeType, CommitType DEF TypeOK, Entry
<1> QED
  BY <1>4, <1>5

\* The end of a request keeps all types.
LEMMA DismissType ==
    ASSUME TypeOK, NEW g \in Pickers, dismiss(g)
    PROVE  TypeOK'
  BY DEF TypeOK, dismiss, weightVars, healthVars, NoProbe

\* A neutral release keeps the types of the health fields and of probeChecked.
LEMMA NothingType ==
    ASSUME TypeOK, NEW g \in Pickers, NEW p \in Peers, recordNothing(g, p)
    PROVE  /\ UNCHANGED <<currentWeight, effectiveWeight, fails, accessed>>
           /\ checked' \in [Peers -> Nat]
           /\ checkedSeq' \in [Peers -> Nat]
           /\ probeChecked' \in [Pickers -> [Peers -> Entry]]
<1>1. NoProbe \in Entry /\ probeChecked \in [Pickers -> [Peers -> Entry]]
  BY DEF TypeOK, NoProbe, Entry
<1>2. probeChecked' \in [Pickers -> [Peers -> Entry]]
  BY <1>1, UpdateEntry DEF recordNothing
<1>3. probeChecked[g][p].prior \in Nat
  BY <1>1 DEF Entry
<1>4. CASE ownsProbe(g, p)
  <2>1. setChecked(p, probeChecked[g][p].prior)
    BY <1>4 DEF recordNothing
  <2> QED
    BY <1>2, <1>3, <2>1 DEF TypeOK, setChecked, recordNothing, weightVars
<1>5. CASE ~ownsProbe(g, p)
  BY <1>2, <1>5 DEF TypeOK, recordNothing, weightVars
<1> QED
  BY <1>4, <1>5

\* A release keeps all types, whatever its outcome.
LEMMA DoneType ==
    ASSUME TypeOK, HoldInv, NEW g \in Pickers, NEW outcome \in Outcomes, Done(g, outcome)
    PROVE  TypeOK'
<1> DEFINE p == peerOf[g]
<1>1. p \in Peers
  BY DEF TypeOK, HoldInv, Done
<1>2. /\ conns' \in [Peers -> Int]
      /\ pc' \in [Pickers -> {"none", "ready", "backup", "busy"}]
      /\ peerOf' \in [Pickers -> Peers \cup {NoPeer}]
      /\ probing' \in [Pickers -> BOOLEAN]
      /\ pickedAt' \in [Pickers -> Nat]
      /\ now' \in Nat /\ tried' \in [Pickers -> SUBSET Peers]
      /\ backupPhase' \in [Pickers -> BOOLEAN] /\ started' \in Nat
      /\ picked' \in [Pickers -> SUBSET Peers]
  BY <1>1 DEF TypeOK, Done, release
<1>3. CASE single /\ fails' = [fails EXCEPT ![p] = 0]
               /\ UNCHANGED <<weightVars, accessed, checked, checkedSeq, probeChecked>>
  BY <1>1, <1>2, <1>3 DEF TypeOK, weightVars
<1>4. CASE recordFailure(p)
  <2>1. /\ fails' \in [Peers -> Nat] /\ accessed' \in [Peers -> Nat]
        /\ checked' \in [Peers -> Nat] /\ checkedSeq' \in [Peers -> Nat]
        /\ currentWeight' = currentWeight /\ probeChecked' = probeChecked
    BY <1>1, <1>4 DEF TypeOK, recordFailure, setChecked
  <2> DEFINE penalty == IF MaxFails(p) > 0 THEN Weight(p) \div MaxFails(p) ELSE 0
             reduced == effectiveWeight[p] - penalty
             weight  == IF reduced < 0 THEN 0 ELSE reduced
  <2>2. penalty \in Nat
    BY <1>1, ConfigTypes, DivType
  <2>3. effectiveWeight[p] \in Nat /\ effectiveWeight[p] <= Weight(p) /\ Weight(p) \in Nat
    BY <1>1, ConfigTypes DEF TypeOK
  <2>4. weight \in Nat /\ weight <= Weight(p)
    <3> HIDE DEF penalty
    <3> QED BY <2>2, <2>3
  <2>5. effectiveWeight' = [effectiveWeight EXCEPT ![p] = weight]
    BY <1>4 DEF recordFailure
  <2> HIDE DEF weight
  <2> QED
    BY <1>1, <1>2, <2>1, <2>4, <2>5 DEF TypeOK
<1>5. CASE recordSuccess(p)
  BY <1>1, <1>2, <1>5 DEF TypeOK, recordSuccess, weightVars
<1>6. CASE recordNothing(g, p)
  BY <1>1, <1>2, <1>6, NothingType DEF TypeOK, Entry
<1> QED
  BY <1>3, <1>4, <1>5, <1>6 DEF Done

-------------------------------------------------------------------------------
(* What the steps do to checked and to the entries of probeChecked. *)

\* The owner of a probe and the prior value, point by point.
LEMMA CommitEffect ==
    ASSUME TypeOK, NEW g \in Pickers, NEW p \in Peers, commitPeer(g, p, now)
    PROVE  /\ fails' = fails /\ accessed' = accessed
           /\ \A q \in Peers \ {p} : checked'[q] = checked[q] /\ checkedSeq'[q] = checkedSeq[q]
           /\ \A h \in Pickers, q \in Peers :
                 h # g \/ q # p => probeChecked'[h][q] = probeChecked[h][q]
           /\ \/ /\ now - checked[p] > FailTimeout(p)
                 /\ checked'[p] = now
                 /\ checkedSeq'[p] = checkedSeq[p] + 1
                 /\ probeChecked'[g][p].prior = checked[p]
                 /\ probeChecked'[g][p].seq = checkedSeq[p] + 1
              \/ /\ ~(now - checked[p] > FailTimeout(p))
                 /\ checked' = checked /\ checkedSeq' = checkedSeq
                 /\ probeChecked' = probeChecked
<1> DEFINE e == [prior |-> checked[p], seq |-> checkedSeq[p] + 1]
<1>1. fails' = fails /\ accessed' = accessed
  BY DEF commitPeer
<1>2. CASE now - checked[p] > FailTimeout(p)
  <2>1. setChecked(p, now) /\ probeChecked' = [probeChecked EXCEPT ![g][p] = e]
    BY <1>2 DEF commitPeer
  <2>2. /\ checked'[p] = now /\ checkedSeq'[p] = checkedSeq[p] + 1
        /\ \A q \in Peers \ {p} : checked'[q] = checked[q] /\ checkedSeq'[q] = checkedSeq[q]
    BY <2>1 DEF TypeOK, setChecked
  <2>3. e \in Entry /\ probeChecked \in [Pickers -> [Peers -> Entry]]
    BY DEF TypeOK, Entry
  <2>4. e.prior = checked[p] /\ e.seq = checkedSeq[p] + 1
    OBVIOUS
  <2> HIDE DEF e
  <2>5. \A h \in Pickers, q \in Peers :
           probeChecked'[h][q] = IF h = g /\ q = p THEN e ELSE probeChecked[h][q]
    BY <2>1, <2>3, UpdateEntry
  <2> QED
    BY <1>1, <1>2, <2>2, <2>4, <2>5
<1>3. CASE ~(now - checked[p] > FailTimeout(p))
  BY <1>1, <1>3 DEF commitPeer
<1> QED
  BY <1>2, <1>3

\* A neutral release changes checked only if the request still owns the probe.
LEMMA NothingEffect ==
    ASSUME TypeOK, NEW g \in Pickers, NEW p \in Peers, recordNothing(g, p)
    PROVE  /\ fails' = fails /\ accessed' = accessed
           /\ \A q \in Peers \ {p} : checked'[q] = checked[q] /\ checkedSeq'[q] = checkedSeq[q]
           /\ \A h \in Pickers, q \in Peers :
                 h # g \/ q # p => probeChecked'[h][q] = probeChecked[h][q]
           /\ probeChecked'[g][p].seq = 0
           /\ \/ /\ ownsProbe(g, p)
                 /\ checked'[p] = probeChecked[g][p].prior
                 /\ checkedSeq'[p] = checkedSeq[p] + 1
              \/ /\ ~ownsProbe(g, p)
                 /\ checked' = checked /\ checkedSeq' = checkedSeq
<1>1. fails' = fails /\ accessed' = accessed
  BY DEF recordNothing
<1>2. NoProbe \in Entry /\ NoProbe.seq = 0 /\ probeChecked \in [Pickers -> [Peers -> Entry]]
  BY DEF TypeOK, Entry, NoProbe
<1>3. \A h \in Pickers, q \in Peers :
         probeChecked'[h][q] = IF h = g /\ q = p THEN NoProbe ELSE probeChecked[h][q]
  BY <1>2, UpdateEntry DEF recordNothing
<1>4. CASE ownsProbe(g, p)
  <2>1. setChecked(p, probeChecked[g][p].prior)
    BY <1>4 DEF recordNothing
  <2>2. /\ checked'[p] = probeChecked[g][p].prior /\ checkedSeq'[p] = checkedSeq[p] + 1
        /\ \A q \in Peers \ {p} : checked'[q] = checked[q] /\ checkedSeq'[q] = checkedSeq[q]
    BY <2>1 DEF TypeOK, setChecked
  <2> QED
    BY <1>1, <1>2, <1>3, <1>4, <2>2
<1>5. CASE ~ownsProbe(g, p)
  <2>1. checked' = checked /\ checkedSeq' = checkedSeq
    BY <1>5 DEF recordNothing
  <2> QED
    BY <1>1, <1>2, <1>3, <1>5, <2>1
<1> QED
  BY <1>4, <1>5

\* A failure moves accessed and checked of one peer to now.
LEMMA FailureEffect ==
    ASSUME TypeOK, NEW p \in Peers, recordFailure(p)
    PROVE  /\ probeChecked' = probeChecked
           /\ checked'[p] = now /\ accessed'[p] = now
           /\ checkedSeq'[p] = checkedSeq[p] + 1
           /\ \A q \in Peers \ {p} : /\ checked'[q] = checked[q] /\ accessed'[q] = accessed[q]
                                     /\ checkedSeq'[q] = checkedSeq[q] /\ fails'[q] = fails[q]
  BY DEF TypeOK, recordFailure, setChecked

-------------------------------------------------------------------------------
(* What a request is given. *)

\* What pickFromGroup says about the peer it returns.
LEMMA PickedPeer ==
    ASSUME NEW g \in Pickers, NEW G \in SUBSET Peers, pickFromGroup(g, G)
    PROVE  \E p \in G : /\ p \notin tried[g] /\ ~Down(p) /\ HasRoom(p)
                        /\ take(g, p)
                        /\ \/ single /\ UNCHANGED <<healthVars, probeChecked>>
                           \/ ~single /\ ~Quarantined(p, now) /\ commitPeer(g, p, now)
<1> DEFINE E == Selectable(g, G, now)
<1>1. PICK best \in E : IF single
                        THEN take(g, best) /\ UNCHANGED <<weightVars, healthVars, probeChecked>>
                        ELSE smoothWeightedPeer(E, best) /\ commitPeer(g, best, now)
  BY DEF pickFromGroup
<1>2. /\ best \in G /\ best \notin tried[g] /\ ~Down(best)
      /\ IF single THEN HasRoom(best) ELSE peerAvailable(best, now)
  BY <1>1 DEF Selectable
<1>3. CASE single
  BY <1>1, <1>2, <1>3
<1>4. CASE ~single
  BY <1>1, <1>2, <1>4 DEF peerAvailable, commitPeer
<1> QED
  BY <1>3, <1>4

\* A Pick step, in whichever group.
LEMMA PickCases ==
    ASSUME HoldInv, NEW g \in Pickers, PickPrimary(g) \/ PickBackup(g)
    PROVE  \E p \in Peers :
              /\ pc[g] # "busy" /\ p \notin tried[g] /\ ~Down(p) /\ HasRoom(p)
              /\ p \in Backup <=> backupPhase[g]
              /\ take(g, p) /\ UNCHANGED <<now, backupPhase>>
              /\ \/ single /\ UNCHANGED <<healthVars, probeChecked>>
                 \/ ~single /\ ~Quarantined(p, now) /\ commitPeer(g, p, now)
<1>1. CASE PickPrimary(g)
  <2>1. Primary \in SUBSET Peers /\ Primary \cap Backup = {}
    BY DEF Primary
  <2>2. pc[g] = "ready" /\ ~backupPhase[g] /\ pickFromGroup(g, Primary)
        /\ UNCHANGED <<now, backupPhase>>
    BY <1>1 DEF PickPrimary
  <2> QED
    BY <2>1, <2>2, PickedPeer
<1>2. CASE PickBackup(g)
  <2>1. Backup \in SUBSET Peers
    BY DEF Backup
  <2>2. pc[g] # "busy" /\ backupPhase[g] /\ pickFromGroup(g, Backup)
        /\ UNCHANGED <<now, backupPhase>>
    BY <1>2 DEF PickBackup, inBackupPhase, HoldInv
  <2> QED
    BY <2>1, <2>2, PickedPeer
<1> QED
  BY <1>1, <1>2

\* A request that turns to the backups or ends holds nothing.
LEMMA DismissCases ==
    ASSUME NEW g \in Pickers, Finish(g) \/ BackupExhausted(g) \/ PrimaryExhausted(g)
    PROVE  /\ pc[g] # "busy"
           /\ \/ dismiss(g)
              \/ /\ pc' = [pc EXCEPT ![g] = "backup"]
                 /\ ~backupPhase[g]
                 /\ backupPhase' = [backupPhase EXCEPT ![g] = TRUE]
                 /\ tried' = [tried EXCEPT ![g] = @ \ Backup]
                 /\ UNCHANGED <<weightVars, healthVars, conns, now, probeChecked,
                                peerOf, started, auxVars>>
  BY DEF Finish, BackupExhausted, PrimaryExhausted, inBackupPhase

\* A request is given a peer of the group it is at.
LEMMA TakeHold ==
    ASSUME TypeOK, HoldInv, NEW g \in Pickers, NEW p \in Peers,
           p \in Backup <=> backupPhase[g], take(g, p), UNCHANGED backupPhase
    PROVE  HoldInv'
  BY PeersNat DEF TypeOK, HoldInv, take

\* Every step keeps the bookkeeping of what a request holds and was given.
LEMMA HoldStep ==
    ASSUME TypeOK, HoldInv, [Next]_vars
    PROVE  HoldInv'
<1>1. ASSUME NEW g \in Pickers, NewPicker(g)
      PROVE  HoldInv'
  BY <1>1 DEF TypeOK, HoldInv, NewPicker, auxVars
<1>2. ASSUME NEW g \in Pickers, PickPrimary(g) \/ PickBackup(g)
      PROVE  HoldInv'
  <2>1. PICK p \in Peers : /\ p \in Backup <=> backupPhase[g]
                           /\ take(g, p) /\ UNCHANGED backupPhase
    BY <1>2, PickCases
  <2> QED
    BY <2>1, TakeHold
<1>3. ASSUME NEW g \in Pickers, Finish(g) \/ BackupExhausted(g) \/ PrimaryExhausted(g)
      PROVE  HoldInv'
  <2>1. CASE dismiss(g)
    BY <1>3, <2>1, DismissCases DEF TypeOK, HoldInv, dismiss
  <2>2. CASE ~dismiss(g)
    BY <1>3, <2>2, DismissCases DEF TypeOK, HoldInv, auxVars
  <2> QED BY <2>1, <2>2
<1>4. ASSUME NEW g \in Pickers, NEW outcome \in Outcomes, Done(g, outcome)
      PROVE  HoldInv'
  BY <1>4 DEF TypeOK, HoldInv, Done
<1>5. CASE Tick \/ Idle \/ UNCHANGED vars
  BY <1>5 DEF HoldInv, Tick, Idle, vars, auxVars
<1> QED
  BY <1>1, <1>2, <1>3, <1>4, <1>5 DEF Next, Step

-------------------------------------------------------------------------------
(* Suspension and recovery. *)

\* When a peer is suspended, and why: what holds of every balancer.
Health == HealthInv /\ RollbackInv /\ SuspensionInv

\* With one reading of the clock per Pick, probes also keep their distance.
Recovery == Health /\ WindowInv /\ OneProbePerWindow

\* The fields of an entry of probeChecked are numbers.
LEMMA EntryTypes ==
    ASSUME TypeOK
    PROVE  \A g \in Pickers, p \in Peers : /\ probeChecked[g][p].prior \in Nat
                                           /\ probeChecked[g][p].seq \in Nat
  BY DEF TypeOK

\* So are the others that are compared with them.
LEMMA HealthTypes ==
    ASSUME TypeOK
    PROVE  /\ \A q \in Peers : /\ FailTimeout(q) \in Nat /\ MaxFails(q) \in Int
                               /\ checked[q] \in Nat /\ accessed[q] \in Nat
                               /\ checkedSeq[q] \in Nat /\ fails[q] \in Nat
           /\ \A h \in Pickers, q \in Peers : /\ probeChecked[h][q].prior \in Nat
                                              /\ probeChecked[h][q].seq \in Nat
           /\ \A h \in Pickers : pickedAt[h] \in Nat
           /\ now \in Nat
  BY ConfigTypes, EntryTypes DEF TypeOK

\* commitPeer advances checked of the peer.
advances(p) == now - checked[p] > FailTimeout(p)

\* What a commit does to the request, the peer and the entries of probeChecked.
LEMMA CommitFacts ==
    ASSUME TypeOK, RollbackInv, NEW g \in Pickers, NEW p \in Peers, commitPeer(g, p, now)
    PROVE  /\ fails' = fails /\ accessed' = accessed
           /\ \A q \in Peers \ {p} : checked'[q] = checked[q] /\ checkedSeq'[q] = checkedSeq[q]
           /\ \A h \in Pickers, q \in Peers :
                 h # g \/ q # p => probeChecked'[h][q] = probeChecked[h][q]
           /\ advances(p) => /\ checked'[p] = now
                             /\ checkedSeq'[p] = checkedSeq[p] + 1
                             /\ probeChecked'[g][p].prior = checked[p]
                             /\ probeChecked'[g][p].seq = checkedSeq[p] + 1
           /\ ~advances(p) => /\ checked' = checked /\ checkedSeq' = checkedSeq
                              /\ probeChecked' = probeChecked
           /\ pc'[g] = "busy" /\ peerOf'[g] = p /\ pickedAt'[g] = now
           /\ probing'[g] => MaxFails(p) > 0 /\ fails[p] >= MaxFails(p)
           /\ \A h \in Pickers \ {g} : /\ pc'[h] = pc[h] /\ peerOf'[h] = peerOf[h]
                                       /\ pickedAt'[h] = pickedAt[h] /\ probing'[h] = probing[h]
           /\ \A h \in Pickers, q \in Peers :
                 ownsProbe(h, q)' /\ ~(advances(p) /\ h = g /\ q = p)
                 => ownsProbe(h, q) /\ probeChecked'[h][q] = probeChecked[h][q]
<1>0. \A h \in Pickers, q \in Peers : probeChecked[h][q].seq \in Nat /\ checkedSeq[q] \in Nat
  BY HealthTypes
<1>1. /\ fails' = fails /\ accessed' = accessed
      /\ \A q \in Peers \ {p} : checked'[q] = checked[q] /\ checkedSeq'[q] = checkedSeq[q]
      /\ \A h \in Pickers, q \in Peers :
            h # g \/ q # p => probeChecked'[h][q] = probeChecked[h][q]
      /\ advances(p) => /\ checked'[p] = now
                        /\ checkedSeq'[p] = checkedSeq[p] + 1
                        /\ probeChecked'[g][p].prior = checked[p]
                        /\ probeChecked'[g][p].seq = checkedSeq[p] + 1
      /\ ~advances(p) => checked' = checked /\ checkedSeq' = checkedSeq /\ probeChecked' = probeChecked
  BY CommitEffect DEF advances
<1>2. /\ pc'[g] = "busy" /\ peerOf'[g] = p /\ pickedAt'[g] = now
      /\ probing'[g] => MaxFails(p) > 0 /\ fails[p] >= MaxFails(p)
      /\ \A h \in Pickers \ {g} : /\ pc'[h] = pc[h] /\ peerOf'[h] = peerOf[h]
                                  /\ pickedAt'[h] = pickedAt[h] /\ probing'[h] = probing[h]
  BY DEF commitPeer, take, TypeOK
<1>3. ASSUME NEW h \in Pickers, NEW q \in Peers, ownsProbe(h, q)',
             ~(advances(p) /\ h = g /\ q = p)
      PROVE  ownsProbe(h, q) /\ probeChecked'[h][q] = probeChecked[h][q]
  <2>1. probeChecked'[h][q] = probeChecked[h][q]
    BY <1>1, <1>3
  <2>2. advanced(h, q)
    BY <1>3, <2>1 DEF ownsProbe, advanced
  <2>3. probeChecked[h][q].seq <= checkedSeq[q]
    BY <2>2 DEF RollbackInv
  <2>4. checkedSeq'[q] = probeChecked[h][q].seq
    BY <1>3, <2>1 DEF ownsProbe
  <2>5. checkedSeq'[q] = checkedSeq[q] \/ checkedSeq'[q] = checkedSeq[q] + 1
    BY <1>1
  <2> QED
    BY <1>0, <2>1, <2>2, <2>3, <2>4, <2>5 DEF ownsProbe
<1> QED
  BY <1>1, <1>2, <1>3

\* A request g that holds nothing is given p in a pool that is not single, by a
\* reading of the clock that may be later than the one that commitPeer gets.
LEMMA HealthCommit ==
    ASSUME TypeOK, Health, NEW g \in Pickers, NEW p \in Peers, ~single, pc[g] # "busy",
           now' \in Nat, now <= now', ~Quarantined(p, now'), commitPeer(g, p, now)
    PROVE  Health'
<1> USE DEF Health
<1>0. /\ \A q \in Peers : /\ FailTimeout(q) \in Nat /\ MaxFails(q) \in Int
                           /\ checked[q] \in Nat /\ accessed[q] \in Nat
                           /\ checkedSeq[q] \in Nat /\ fails[q] \in Nat
      /\ \A h \in Pickers, q \in Peers : /\ probeChecked[h][q].prior \in Nat
                                          /\ probeChecked[h][q].seq \in Nat
      /\ now \in Nat
  BY HealthTypes
<1>1. /\ fails' = fails /\ accessed' = accessed
      /\ \A q \in Peers \ {p} : checked'[q] = checked[q] /\ checkedSeq'[q] = checkedSeq[q]
      /\ \A h \in Pickers, q \in Peers :
            h # g \/ q # p => probeChecked'[h][q] = probeChecked[h][q]
      /\ advances(p) => /\ checked'[p] = now
                        /\ checkedSeq'[p] = checkedSeq[p] + 1
                        /\ probeChecked'[g][p].prior = checked[p]
                        /\ probeChecked'[g][p].seq = checkedSeq[p] + 1
      /\ ~advances(p) => checked' = checked /\ checkedSeq' = checkedSeq /\ probeChecked' = probeChecked
  BY CommitFacts
<1>2. /\ pc'[g] = "busy" /\ peerOf'[g] = p /\ pickedAt'[g] = now
      /\ \A h \in Pickers \ {g} : /\ pc'[h] = pc[h] /\ peerOf'[h] = peerOf[h]
                                  /\ pickedAt'[h] = pickedAt[h]
  BY CommitFacts
<1>3. \A h \in Pickers, q \in Peers :
         ownsProbe(h, q)' /\ ~(advances(p) /\ h = g /\ q = p)
         => ownsProbe(h, q) /\ probeChecked'[h][q] = probeChecked[h][q]
  BY CommitFacts
<1>4. HealthInv'
  BY <1>0, <1>1 DEF HealthInv
<1>5. RollbackInv'
  <2> SUFFICES ASSUME NEW h \in Pickers, NEW q \in Peers, advanced(h, q)'
               PROVE  /\ probeChecked'[h][q].seq <= checkedSeq'[q]
                      /\ now' - probeChecked'[h][q].prior > FailTimeout(q)
                      /\ ownsProbe(h, q)' => accessed'[q] <= probeChecked'[h][q].prior
    BY DEF RollbackInv
  <2>1. CASE advances(p) /\ h = g /\ q = p
    BY <1>0, <1>1, <2>1 DEF HealthInv, advances
  <2>2. CASE ~(advances(p) /\ h = g /\ q = p)
    <3>1. probeChecked'[h][q] = probeChecked[h][q] /\ checkedSeq[q] <= checkedSeq'[q]
      BY <1>0, <1>1, <2>2
    <3>2. advanced(h, q)
      BY <3>1 DEF advanced
    <3> QED
      BY <1>0, <1>1, <1>3, <2>2, <3>1, <3>2 DEF RollbackInv
  <2> QED BY <2>1, <2>2
<1>6. SuspensionInv'
  <2> SUFFICES ASSUME NEW q \in Peers, MaxFails(q) > 0, fails'[q] >= MaxFails(q)
               PROVE  \/ checked'[q] = accessed'[q]
                      \/ now' - checked'[q] > FailTimeout(q)
                      \/ \E h \in Pickers : /\ pc'[h] = "busy" /\ peerOf'[h] = q
                                            /\ ownsProbe(h, q)' /\ pickedAt'[h] = checked'[q]
    BY DEF SuspensionInv, Holders
  <2>1. CASE q = p /\ advances(p)
    <3>1. ownsProbe(g, p)'
      BY <1>0, <1>1, <2>1 DEF ownsProbe, advanced
    <3> QED
      BY <1>1, <1>2, <2>1, <3>1
  <2>2. CASE q = p /\ ~advances(p)
    BY <1>0, <1>1, <2>2 DEF Quarantined
  <2>3. CASE q # p
    <3>1. /\ checked'[q] = checked[q] /\ checkedSeq'[q] = checkedSeq[q]
          /\ \A h \in Pickers : probeChecked'[h][q] = probeChecked[h][q]
      BY <1>1, <2>3
    <3>2. \/ checked[q] = accessed[q]
          \/ now - checked[q] > FailTimeout(q)
          \/ \E h \in Pickers : /\ pc[h] = "busy" /\ peerOf[h] = q
                                /\ ownsProbe(h, q) /\ pickedAt[h] = checked[q]
      BY <1>1 DEF SuspensionInv, Holders
    <3>3. CASE now - checked[q] > FailTimeout(q)
      BY <1>0, <3>1, <3>3
    <3>4. CASE checked[q] = accessed[q]
      BY <1>1, <3>1, <3>4
    <3>5. CASE \E h \in Pickers : /\ pc[h] = "busy" /\ peerOf[h] = q
                                  /\ ownsProbe(h, q) /\ pickedAt[h] = checked[q]
      BY <1>1, <1>2, <3>1, <3>5 DEF ownsProbe, advanced
    <3> QED BY <3>2, <3>3, <3>4, <3>5
  <2> QED BY <2>1, <2>2, <2>3
<1> QED
  BY <1>4, <1>5, <1>6

\* The same with one reading of the clock.
LEMMA RecoveryCommit ==
    ASSUME TypeOK, HoldInv, Recovery, NEW g \in Pickers, NEW p \in Peers,
           ~single, pc[g] # "busy", ~Quarantined(p, now), commitPeer(g, p, now), now' = now
    PROVE  Recovery'
<1> USE DEF Recovery, Health
<1>0. /\ \A q \in Peers : /\ FailTimeout(q) \in Nat /\ MaxFails(q) \in Int
                           /\ checked[q] \in Nat /\ accessed[q] \in Nat
                           /\ checkedSeq[q] \in Nat /\ fails[q] \in Nat
      /\ \A h \in Pickers, q \in Peers : /\ probeChecked[h][q].prior \in Nat
                                          /\ probeChecked[h][q].seq \in Nat
      /\ \A h \in Pickers : pickedAt[h] \in Nat
      /\ now \in Nat
  BY HealthTypes
<1>1. /\ \A q \in Peers \ {p} : checked'[q] = checked[q]
      /\ \A h \in Pickers, q \in Peers :
            h # g \/ q # p => probeChecked'[h][q] = probeChecked[h][q]
      /\ advances(p) => checked'[p] = now /\ checkedSeq'[p] = checkedSeq[p] + 1
                        /\ probeChecked'[g][p].prior = checked[p]
      /\ ~advances(p) => checked' = checked
  BY CommitFacts
<1>2. /\ pc'[g] = "busy" /\ peerOf'[g] = p /\ pickedAt'[g] = now
      /\ probing'[g] => MaxFails(p) > 0 /\ fails[p] >= MaxFails(p)
      /\ \A h \in Pickers \ {g} : /\ peerOf'[h] = peerOf[h] /\ pickedAt'[h] = pickedAt[h]
                                  /\ probing'[h] = probing[h]
  BY CommitFacts
<1>3. probing'[g] => advances(p)
  BY <1>0, <1>2 DEF Quarantined, advances
<1>4. \A h \in Pickers, q \in Peers :
         ownsProbe(h, q)' /\ ~(advances(p) /\ h = g /\ q = p)
         => ownsProbe(h, q) /\ probeChecked'[h][q] = probeChecked[h][q]
  BY CommitFacts
<1>5. Health'
  BY <1>0, HealthCommit
<1>6. WindowInv'
  <2> SUFFICES ASSUME NEW x \in Pickers, NEW q \in Peers, probing'[x], peerOf'[x] = q
               PROVE  /\ pickedAt'[x] <= checked'[q]
                      /\ \A h \in Pickers \ {x} :
                            ownsProbe(h, q)' => pickedAt'[x] <= probeChecked'[h][q].prior
    BY DEF WindowInv
  <2>1. CASE x = g
    <3>1. q = p /\ advances(p) /\ pickedAt'[x] = now /\ checked'[q] = now
      BY <1>1, <1>2, <1>3, <2>1
    <3>2. ASSUME NEW h \in Pickers \ {x} PROVE ~ownsProbe(h, q)'
      <4>1. probeChecked'[h][q] = probeChecked[h][q] /\ checkedSeq'[q] = checkedSeq[q] + 1
        BY <1>1, <2>1, <3>1
      <4>2. advanced(h, q) => probeChecked[h][q].seq <= checkedSeq[q]
        BY DEF RollbackInv
      <4> QED
        BY <1>0, <4>1, <4>2 DEF ownsProbe, advanced
    <3> QED
      BY <1>0, <3>1, <3>2
  <2>2. CASE x # g
    <3>1. probing[x] /\ peerOf[x] = q /\ pickedAt'[x] = pickedAt[x]
      BY <1>2, <2>2
    <3>2. /\ pickedAt[x] <= checked[q]
          /\ \A h \in Pickers \ {x} :
                ownsProbe(h, q) => pickedAt[x] <= probeChecked[h][q].prior
      BY <3>1 DEF WindowInv
    <3>3. checked[q] <= checked'[q]
      BY <1>0, <1>1 DEF HealthInv
    <3>4. checked[q] <= now /\ checked'[q] \in Nat
      BY <1>0, <1>1 DEF HealthInv
    <3>5. pickedAt'[x] <= checked'[q]
      BY <1>0, <3>1, <3>2, <3>3, <3>4
    <3>6. ASSUME NEW h \in Pickers \ {x}, ownsProbe(h, q)'
          PROVE  pickedAt'[x] <= probeChecked'[h][q].prior
      <4>1. CASE advances(p) /\ h = g /\ q = p
        BY <1>1, <3>1, <3>2, <4>1
      <4>2. CASE ~(advances(p) /\ h = g /\ q = p)
        BY <1>4, <3>1, <3>2, <3>6, <4>2
      <4> QED BY <4>1, <4>2
    <3> QED
      BY <3>5, <3>6
  <2> QED BY <2>1, <2>2
<1>7. OneProbePerWindow'
  <2>1. ASSUME NEW y \in Pickers \ {g}, probing[y], probing'[g], peerOf[y] = p
        PROVE  now - pickedAt[y] > FailTimeout(p)
    <3>1. pickedAt[y] <= checked[p]
      BY <2>1 DEF WindowInv
    <3> QED
      BY <1>0, <1>3, <2>1, <3>1 DEF advances
  <2> QED
    BY <1>2, <2>1 DEF OneProbePerWindow
<1> QED
  BY <1>5, <1>6, <1>7

\* A step that leaves the health of the peers alone, and in a pool that is not
\* single also the requests that hold a peer.
LEMMA HealthQuiet ==
    ASSUME TypeOK, Health, now' \in Nat, now <= now',
           UNCHANGED <<accessed, checked, checkedSeq>>,
           \A h \in Pickers, q \in Peers : \/ probeChecked'[h][q] = probeChecked[h][q]
                                          \/ probeChecked'[h][q].seq = 0,
           \/ single
           \/ /\ fails' = fails
              /\ \A h \in Pickers : pc[h] = "busy" => /\ pc'[h] = "busy"
                                                     /\ peerOf'[h] = peerOf[h]
                                                     /\ pickedAt'[h] = pickedAt[h]
                                                     /\ probeChecked'[h] = probeChecked[h]
    PROVE  Health' /\ \A h \in Pickers, q \in Peers :
                        ownsProbe(h, q)' => ownsProbe(h, q) /\ probeChecked'[h][q] = probeChecked[h][q]
<1> USE DEF Health
<1>0. /\ \A q \in Peers : /\ FailTimeout(q) \in Nat
                           /\ checked[q] \in Nat /\ accessed[q] \in Nat
                           /\ checkedSeq[q] \in Nat
      /\ \A h \in Pickers, q \in Peers : /\ probeChecked[h][q].prior \in Nat
                                          /\ probeChecked[h][q].seq \in Nat
      /\ now \in Nat
  BY HealthTypes
<1>1. ASSUME NEW h \in Pickers, NEW q \in Peers, advanced(h, q)'
      PROVE  advanced(h, q) /\ probeChecked'[h][q] = probeChecked[h][q]
  BY <1>0, <1>1 DEF advanced
<1>2. ASSUME NEW h \in Pickers, NEW q \in Peers, ownsProbe(h, q)'
      PROVE  ownsProbe(h, q) /\ probeChecked'[h][q] = probeChecked[h][q]
  BY <1>1, <1>2 DEF ownsProbe
<1>3. HealthInv'
  BY <1>0 DEF HealthInv
<1>4. RollbackInv'
  BY <1>0, <1>1, <1>2 DEF RollbackInv
<1>5. SuspensionInv'
  <2> SUFFICES ASSUME NEW q \in Peers, ~single, MaxFails(q) > 0, fails'[q] >= MaxFails(q)
               PROVE  \/ checked'[q] = accessed'[q]
                      \/ now' - checked'[q] > FailTimeout(q)
                      \/ \E h \in Pickers : /\ pc'[h] = "busy" /\ peerOf'[h] = q
                                            /\ ownsProbe(h, q)' /\ pickedAt'[h] = checked'[q]
    BY DEF SuspensionInv, Holders
  <2>1. \/ checked[q] = accessed[q]
        \/ now - checked[q] > FailTimeout(q)
        \/ \E h \in Pickers : /\ pc[h] = "busy" /\ peerOf[h] = q
                              /\ ownsProbe(h, q) /\ pickedAt[h] = checked[q]
    BY DEF SuspensionInv, Holders
  <2>2. CASE \E h \in Pickers : /\ pc[h] = "busy" /\ peerOf[h] = q
                                /\ ownsProbe(h, q) /\ pickedAt[h] = checked[q]
    BY <2>2 DEF ownsProbe, advanced
  <2> QED
    BY <1>0, <2>1, <2>2
<1> QED
  BY <1>2, <1>3, <1>4, <1>5

\* The same for the probes.
LEMMA RecoveryQuiet ==
    ASSUME TypeOK, Recovery, now' \in Nat, now <= now',
           UNCHANGED <<accessed, checked, checkedSeq>>,
           \A h \in Pickers : probing'[h] => /\ probing[h] /\ peerOf'[h] = peerOf[h]
                                            /\ pickedAt'[h] = pickedAt[h],
           \A h \in Pickers, q \in Peers : \/ probeChecked'[h][q] = probeChecked[h][q]
                                          \/ probeChecked'[h][q].seq = 0,
           \/ single
           \/ /\ fails' = fails
              /\ \A h \in Pickers : pc[h] = "busy" => /\ pc'[h] = "busy"
                                                     /\ peerOf'[h] = peerOf[h]
                                                     /\ pickedAt'[h] = pickedAt[h]
                                                     /\ probeChecked'[h] = probeChecked[h]
    PROVE  Recovery'
<1> USE DEF Recovery
<1>1. Health' /\ \A h \in Pickers, q \in Peers :
                    ownsProbe(h, q)' => ownsProbe(h, q) /\ probeChecked'[h][q] = probeChecked[h][q]
  BY HealthQuiet
<1>2. WindowInv'
  BY <1>1 DEF WindowInv
<1>3. OneProbePerWindow'
  BY DEF OneProbePerWindow
<1> QED
  BY <1>1, <1>2, <1>3

\* done writes checked of the peer.
rewritten(p) == checkedSeq'[p] = checkedSeq[p] + 1

\* What the three outcomes of a release do to the peer and to probeChecked.
LEMMA DoneFacts ==
    ASSUME TypeOK, RollbackInv, NEW g \in Pickers, NEW p \in Peers,
           recordFailure(p) \/ recordSuccess(p) \/ recordNothing(g, p)
    PROVE  /\ \A q \in Peers \ {p} : /\ checked'[q] = checked[q] /\ checkedSeq'[q] = checkedSeq[q]
                                     /\ accessed'[q] = accessed[q] /\ fails'[q] = fails[q]
           /\ \A h \in Pickers, q \in Peers :
                 h # g \/ q # p => probeChecked'[h][q] = probeChecked[h][q]
           /\ \/ probeChecked'[g][p] = probeChecked[g][p]
              \/ probeChecked'[g][p].seq = 0
           /\ \/ rewritten(p)
              \/ ~rewritten(p) /\ checked' = checked /\ checkedSeq' = checkedSeq /\ accessed' = accessed
           \* Where checked goes.
           /\ rewritten(p) => \/ checked'[p] = now /\ accessed'[p] = now
                              \/ /\ ownsProbe(g, p) /\ checked'[p] = probeChecked[g][p].prior
                                 /\ accessed'[p] = accessed[p]
           /\ ~rewritten(p) => \/ fails'[p] = 0
                               \/ fails'[p] = fails[p] /\ accessed[p] >= checked[p]
                               \/ fails'[p] = fails[p] /\ ~ownsProbe(g, p)
           /\ \A h \in Pickers, q \in Peers : advanced(h, q)' =>
                 /\ advanced(h, q) /\ probeChecked'[h][q] = probeChecked[h][q]
                 /\ probeChecked[h][q].seq <= checkedSeq[q]
           /\ \A h \in Pickers, q \in Peers :
                 ownsProbe(h, q)' => ownsProbe(h, q) /\ ~(rewritten(p) /\ q = p)
<1>0. /\ \A q \in Peers : /\ FailTimeout(q) \in Nat /\ MaxFails(q) \in Int
                           /\ checked[q] \in Nat /\ accessed[q] \in Nat
                           /\ checkedSeq[q] \in Nat /\ fails[q] \in Nat
      /\ \A h \in Pickers, q \in Peers : /\ probeChecked[h][q].prior \in Nat
                                          /\ probeChecked[h][q].seq \in Nat
      /\ \A h \in Pickers : pickedAt[h] \in Nat
      /\ now \in Nat
  BY HealthTypes
<1>1. /\ \A q \in Peers \ {p} : /\ checked'[q] = checked[q] /\ checkedSeq'[q] = checkedSeq[q]
                                /\ accessed'[q] = accessed[q] /\ fails'[q] = fails[q]
      /\ \A h \in Pickers, q \in Peers :
            h # g \/ q # p => probeChecked'[h][q] = probeChecked[h][q]
      /\ \/ probeChecked'[g][p] = probeChecked[g][p]
         \/ probeChecked'[g][p].seq = 0
      /\ \/ rewritten(p)
         \/ ~rewritten(p) /\ checked' = checked /\ checkedSeq' = checkedSeq /\ accessed' = accessed
      \* Where checked goes.
      /\ rewritten(p) => \/ checked'[p] = now /\ accessed'[p] = now
                         \/ /\ ownsProbe(g, p) /\ checked'[p] = probeChecked[g][p].prior
                            /\ accessed'[p] = accessed[p]
      /\ ~rewritten(p) => \/ fails'[p] = 0
                          \/ fails'[p] = fails[p] /\ accessed[p] >= checked[p]
                          \/ fails'[p] = fails[p] /\ ~ownsProbe(g, p)
  <2> USE DEF rewritten
  <2>1. CASE recordFailure(p)
    BY <1>0, <2>1, FailureEffect
  <2>2. CASE recordSuccess(p)
    BY <1>0, <2>2 DEF recordSuccess, TypeOK
  <2>3. CASE recordNothing(g, p)
    BY <1>0, <2>3, NothingEffect
  <2> QED BY <2>1, <2>2, <2>3
<1>2. ASSUME NEW h \in Pickers, NEW q \in Peers, advanced(h, q)'
      PROVE  /\ advanced(h, q) /\ probeChecked'[h][q] = probeChecked[h][q]
             /\ probeChecked[h][q].seq <= checkedSeq[q]
  BY <1>0, <1>1, <1>2 DEF advanced, RollbackInv
<1>3. ASSUME NEW h \in Pickers, NEW q \in Peers, ownsProbe(h, q)'
      PROVE  ownsProbe(h, q) /\ ~(rewritten(p) /\ q = p)
  BY <1>0, <1>1, <1>2, <1>3 DEF ownsProbe, rewritten
<1> QED
  BY <1>1, <1>2, <1>3

\* Request g releases p, in a pool that is not single.
LEMMA HealthDone ==
    ASSUME TypeOK, Health, NEW g \in Pickers, NEW p \in Peers, ~single,
           pc[g] = "busy", peerOf[g] = p, now' = now,
           \A h \in Pickers \ {g} : /\ pc'[h] = pc[h] /\ peerOf'[h] = peerOf[h]
                                   /\ pickedAt'[h] = pickedAt[h],
           recordFailure(p) \/ recordSuccess(p) \/ recordNothing(g, p)
    PROVE  Health'
<1> USE DEF Health
<1>0. /\ \A q \in Peers : /\ FailTimeout(q) \in Nat /\ MaxFails(q) \in Int
                           /\ checked[q] \in Nat /\ accessed[q] \in Nat
                           /\ checkedSeq[q] \in Nat /\ fails[q] \in Nat
      /\ \A h \in Pickers, q \in Peers : /\ probeChecked[h][q].prior \in Nat
                                          /\ probeChecked[h][q].seq \in Nat
      /\ \A h \in Pickers : pickedAt[h] \in Nat
      /\ now \in Nat
  BY HealthTypes
<1>1. /\ \A q \in Peers \ {p} : /\ checked'[q] = checked[q] /\ checkedSeq'[q] = checkedSeq[q]
                                /\ accessed'[q] = accessed[q] /\ fails'[q] = fails[q]
      /\ \A h \in Pickers, q \in Peers :
            h # g \/ q # p => probeChecked'[h][q] = probeChecked[h][q]
      /\ \/ probeChecked'[g][p] = probeChecked[g][p]
         \/ probeChecked'[g][p].seq = 0
      /\ \/ rewritten(p)
         \/ ~rewritten(p) /\ checked' = checked /\ checkedSeq' = checkedSeq /\ accessed' = accessed
      \* Where checked goes.
      /\ rewritten(p) => \/ checked'[p] = now /\ accessed'[p] = now
                         \/ /\ ownsProbe(g, p) /\ checked'[p] = probeChecked[g][p].prior
                            /\ accessed'[p] = accessed[p]
      /\ ~rewritten(p) => \/ fails'[p] = 0
                          \/ fails'[p] = fails[p] /\ accessed[p] >= checked[p]
                          \/ fails'[p] = fails[p] /\ ~ownsProbe(g, p)
  BY DoneFacts
<1>2. /\ \A h \in Pickers, q \in Peers : advanced(h, q)' =>
            /\ advanced(h, q) /\ probeChecked'[h][q] = probeChecked[h][q]
            /\ probeChecked[h][q].seq <= checkedSeq[q]
      /\ \A h \in Pickers, q \in Peers :
            ownsProbe(h, q)' => ownsProbe(h, q) /\ ~(rewritten(p) /\ q = p)
  BY DoneFacts
<1>3. \A q \in Peers : checkedSeq[q] <= checkedSeq'[q]
  BY <1>0, <1>1 DEF rewritten
<1>4. ownsProbe(g, p) => /\ accessed[p] <= probeChecked[g][p].prior
                         /\ now - probeChecked[g][p].prior > FailTimeout(p)
  BY DEF RollbackInv, ownsProbe
<1>5. HealthInv'
  BY <1>0, <1>1, <1>4 DEF HealthInv
<1>6. RollbackInv'
  <2> SUFFICES ASSUME NEW h \in Pickers, NEW q \in Peers, advanced(h, q)'
               PROVE  /\ probeChecked'[h][q].seq <= checkedSeq'[q]
                      /\ now' - probeChecked'[h][q].prior > FailTimeout(q)
                      /\ ownsProbe(h, q)' => accessed'[q] <= probeChecked'[h][q].prior
    BY DEF RollbackInv
  <2>1. advanced(h, q) /\ probeChecked'[h][q] = probeChecked[h][q]
    BY <1>2
  <2>2. /\ probeChecked[h][q].seq <= checkedSeq[q]
        /\ now - probeChecked[h][q].prior > FailTimeout(q)
        /\ ownsProbe(h, q) => accessed[q] <= probeChecked[h][q].prior
    BY <2>1 DEF RollbackInv
  <2>3. ownsProbe(h, q)' => ownsProbe(h, q) /\ accessed'[q] = accessed[q]
    BY <1>1, <1>2
  <2>4. checkedSeq[q] <= checkedSeq'[q] /\ checkedSeq'[q] \in Int
    BY <1>0, <1>1, <1>3 DEF rewritten
  <2> QED
    BY <1>0, <2>1, <2>2, <2>3, <2>4
<1>7. SuspensionInv'
  <2> SUFFICES ASSUME NEW q \in Peers, MaxFails(q) > 0, fails'[q] >= MaxFails(q)
               PROVE  \/ checked'[q] = accessed'[q]
                      \/ now' - checked'[q] > FailTimeout(q)
                      \/ \E h \in Pickers : /\ pc'[h] = "busy" /\ peerOf'[h] = q
                                            /\ ownsProbe(h, q)' /\ pickedAt'[h] = checked'[q]
    BY DEF SuspensionInv, Holders
  <2>1. CASE q = p /\ rewritten(p)
    BY <1>0, <1>1, <1>4, <2>1
  <2>2. CASE ~(q = p /\ rewritten(p))
    <3>1. /\ checked'[q] = checked[q] /\ checkedSeq'[q] = checkedSeq[q]
          /\ accessed'[q] = accessed[q] /\ fails'[q] = fails[q]
      BY <1>0, <1>1, <2>2
    <3>2. \/ checked[q] = accessed[q]
          \/ now - checked[q] > FailTimeout(q)
          \/ \E h \in Pickers : /\ pc[h] = "busy" /\ peerOf[h] = q
                                /\ ownsProbe(h, q) /\ pickedAt[h] = checked[q]
      BY <3>1 DEF SuspensionInv, Holders
    <3>3. CASE checked[q] = accessed[q] \/ now - checked[q] > FailTimeout(q)
      BY <3>1, <3>3
    <3>4. CASE /\ checked[q] # accessed[q]
               /\ \E h \in Pickers : /\ pc[h] = "busy" /\ peerOf[h] = q
                                     /\ ownsProbe(h, q) /\ pickedAt[h] = checked[q]
      <4>1. PICK h \in Pickers : /\ pc[h] = "busy" /\ peerOf[h] = q
                                 /\ ownsProbe(h, q) /\ pickedAt[h] = checked[q]
        BY <3>4
      <4>2. accessed[q] < checked[q]
        BY <1>0, <3>4 DEF HealthInv
      <4>3. h # g
        BY <1>0, <1>1, <2>2, <3>1, <4>1, <4>2
      <4>4. ownsProbe(h, q)'
        BY <1>1, <3>1, <4>1, <4>3 DEF ownsProbe, advanced
      <4> QED
        BY <3>1, <4>1, <4>3, <4>4
    <3> QED BY <3>2, <3>3, <3>4
  <2> QED BY <2>1, <2>2
<1> QED
  BY <1>5, <1>6, <1>7

\* The same for the probes.
LEMMA RecoveryDone ==
    ASSUME TypeOK, HoldInv, Recovery, NEW g \in Pickers, NEW p \in Peers, ~single,
           pc[g] = "busy", peerOf[g] = p, now' = now, ~probing'[g],
           \A h \in Pickers \ {g} : /\ pc'[h] = pc[h] /\ peerOf'[h] = peerOf[h]
                                   /\ pickedAt'[h] = pickedAt[h] /\ probing'[h] = probing[h],
           recordFailure(p) \/ recordSuccess(p) \/ recordNothing(g, p)
    PROVE  Recovery'
<1> USE DEF Recovery, Health
<1>0. /\ \A q \in Peers : /\ FailTimeout(q) \in Nat /\ MaxFails(q) \in Int
                           /\ checked[q] \in Nat /\ accessed[q] \in Nat
                           /\ checkedSeq[q] \in Nat /\ fails[q] \in Nat
      /\ \A h \in Pickers, q \in Peers : /\ probeChecked[h][q].prior \in Nat
                                          /\ probeChecked[h][q].seq \in Nat
      /\ \A h \in Pickers : pickedAt[h] \in Nat
      /\ now \in Nat
  BY HealthTypes
<1>1. /\ \A q \in Peers \ {p} : /\ checked'[q] = checked[q] /\ checkedSeq'[q] = checkedSeq[q]
                                /\ accessed'[q] = accessed[q] /\ fails'[q] = fails[q]
      /\ \A h \in Pickers, q \in Peers :
            h # g \/ q # p => probeChecked'[h][q] = probeChecked[h][q]
      /\ \/ probeChecked'[g][p] = probeChecked[g][p]
         \/ probeChecked'[g][p].seq = 0
      /\ \/ rewritten(p)
         \/ ~rewritten(p) /\ checked' = checked /\ checkedSeq' = checkedSeq /\ accessed' = accessed
      \* Where checked goes.
      /\ rewritten(p) => \/ checked'[p] = now /\ accessed'[p] = now
                         \/ /\ ownsProbe(g, p) /\ checked'[p] = probeChecked[g][p].prior
                            /\ accessed'[p] = accessed[p]
      /\ ~rewritten(p) => \/ fails'[p] = 0
                          \/ fails'[p] = fails[p] /\ accessed[p] >= checked[p]
                          \/ fails'[p] = fails[p] /\ ~ownsProbe(g, p)
  BY DoneFacts
<1>2. /\ \A h \in Pickers, q \in Peers : advanced(h, q)' =>
            /\ advanced(h, q) /\ probeChecked'[h][q] = probeChecked[h][q]
            /\ probeChecked[h][q].seq <= checkedSeq[q]
      /\ \A h \in Pickers, q \in Peers :
            ownsProbe(h, q)' => ownsProbe(h, q) /\ ~(rewritten(p) /\ q = p)
  BY DoneFacts
<1>3. Health'
  BY HealthDone
<1>4. ownsProbe(g, p) => accessed[p] <= probeChecked[g][p].prior
  BY DEF RollbackInv, ownsProbe
<1>5. WindowInv'
  <2> SUFFICES ASSUME NEW x \in Pickers, NEW q \in Peers, probing'[x], peerOf'[x] = q
               PROVE  /\ pickedAt'[x] <= checked'[q]
                      /\ \A h \in Pickers \ {x} :
                            ownsProbe(h, q)' => pickedAt'[x] <= probeChecked'[h][q].prior
    BY DEF WindowInv
  <2>1. x # g /\ probing[x] /\ peerOf[x] = q /\ pickedAt'[x] = pickedAt[x]
    OBVIOUS
  <2>2. /\ pickedAt[x] <= checked[q]
        /\ \A h \in Pickers \ {x} :
              ownsProbe(h, q) => pickedAt[x] <= probeChecked[h][q].prior
    BY <2>1 DEF WindowInv
  <2>3. checked[q] <= now
    BY DEF HealthInv
  <2>4. pickedAt[x] <= checked'[q]
    BY <1>0, <1>1, <2>1, <2>2, <2>3
  <2>5. ASSUME NEW h \in Pickers \ {x}, ownsProbe(h, q)'
        PROVE  pickedAt[x] <= probeChecked'[h][q].prior
    BY <1>2, <1>2, <2>2, <2>5 DEF ownsProbe
  <2> QED
    BY <2>1, <2>4, <2>5
<1>6. OneProbePerWindow'
  BY DEF OneProbePerWindow
<1> QED
  BY <1>3, <1>5, <1>6

-------------------------------------------------------------------------------
(* The inductive invariant. *)

Inv == TypeOK /\ HoldInv /\ Recovery

\* The initial states satisfy the inductive invariant.
LEMMA InitInv == Init => Inv
<1> SUFFICES ASSUME Init PROVE Inv
  OBVIOUS
<1>1. TypeOK
  BY ConfigTypes, TimeAssumption DEF Init, TypeOK, NoProbe
<1>2. HoldInv
  BY DEF Init, HoldInv
<1>3. HealthInv /\ RollbackInv /\ WindowInv /\ OneProbePerWindow
  BY TimeAssumption
  DEF Init, HealthInv, RollbackInv, WindowInv, OneProbePerWindow, advanced, NoProbe
<1>4. SuspensionInv
  BY DEF Init, SuspensionInv
<1> QED
  BY <1>1, <1>2, <1>3, <1>4 DEF Inv, Recovery, Health

\* Every step keeps the types.
LEMMA TypeStep ==
    ASSUME TypeOK, HoldInv, [Next]_vars
    PROVE  TypeOK'
<1>1. ASSUME NEW g \in Pickers, NewPicker(g)
      PROVE  TypeOK'
  BY <1>1 DEF TypeOK, NewPicker, weightVars, healthVars, auxVars
<1>2. ASSUME NEW g \in Pickers, PickPrimary(g) \/ PickBackup(g)
      PROVE  TypeOK'
  <2>1. Primary \in SUBSET Peers /\ Backup \in SUBSET Peers
    BY DEF Primary, Backup
  <2> QED
    BY <1>2, <2>1, PickType DEF PickPrimary, PickBackup
<1>3. ASSUME NEW g \in Pickers, Finish(g) \/ BackupExhausted(g) \/ PrimaryExhausted(g)
      PROVE  TypeOK'
  <2>1. CASE dismiss(g)
    BY <2>1, DismissType
  <2>2. CASE ~dismiss(g)
    <3>1. /\ pc' = [pc EXCEPT ![g] = "backup"]
          /\ backupPhase' = [backupPhase EXCEPT ![g] = TRUE]
          /\ tried' = [tried EXCEPT ![g] = @ \ Backup]
          /\ UNCHANGED <<currentWeight, effectiveWeight, fails, accessed, checked, checkedSeq,
                         conns, now, probeChecked, peerOf, started, picked, pickedAt, probing>>
      BY <1>3, <2>2, DismissCases DEF weightVars, healthVars, auxVars
    <3>2. /\ pc' \in [Pickers -> {"none", "ready", "backup", "busy"}]
          /\ backupPhase' \in [Pickers -> BOOLEAN]
          /\ tried' \in [Pickers -> SUBSET Peers]
      BY <3>1 DEF TypeOK
    <3> QED
      BY <3>1, <3>2 DEF TypeOK
  <2> QED BY <2>1, <2>2
<1>4. ASSUME NEW g \in Pickers, NEW outcome \in Outcomes, Done(g, outcome)
      PROVE  TypeOK'
  BY <1>4, DoneType
<1>5. CASE Tick
  BY <1>5 DEF TypeOK, Tick, weightVars, healthVars, auxVars
<1>6. CASE UNCHANGED vars
  BY <1>6 DEF TypeOK, vars, weightVars, healthVars, auxVars
<1> QED
  BY <1>1, <1>2, <1>3, <1>4, <1>5, <1>6 DEF Next, Step, Idle

\* The steps that neither give nor release a peer.
Passive ==
    \/ \E g \in Pickers : \/ NewPicker(g) \/ Finish(g)
                          \/ PrimaryExhausted(g) \/ BackupExhausted(g)
    \/ Tick
    \/ UNCHANGED vars

\* Every step is a Pick that returns a peer, a Done, or passive.
LEMMA StepKinds ==
    ASSUME [Next]_vars
    PROVE  \/ \E g \in Pickers : PickPrimary(g) \/ PickBackup(g)
           \/ \E g \in Pickers, outcome \in Outcomes : Done(g, outcome)
           \/ Passive
  BY DEF Next, Step, Idle, Passive

\* The health of the peers and what the requests hold stay; an entry of
\* probeChecked may be dropped.
Untouched ==
    /\ UNCHANGED <<fails, accessed, checked, checkedSeq, peerOf, pickedAt, probing>>
    /\ now' \in Nat /\ now <= now'
    /\ \A h \in Pickers : pc[h] = "busy" => pc'[h] = "busy" /\ probeChecked'[h] = probeChecked[h]
    /\ \A h \in Pickers, q \in Peers : \/ probeChecked'[h][q] = probeChecked[h][q]
                                        \/ probeChecked'[h][q].seq = 0

\* A passive step is quiet.
LEMMA PassiveQuiet ==
    ASSUME TypeOK, Passive
    PROVE  Untouched
<1>0. now \in Nat
  BY DEF TypeOK
<1>1. ASSUME NEW g \in Pickers, NewPicker(g)
      PROVE  Untouched
  BY <1>0, <1>1 DEF NewPicker, TypeOK, Untouched, healthVars, auxVars
<1>2. ASSUME NEW g \in Pickers, Finish(g) \/ BackupExhausted(g) \/ PrimaryExhausted(g)
      PROVE  Untouched
  <2>1. CASE dismiss(g)
    <3>1. pc[g] # "busy"
      BY <1>2, DismissCases
    <3>2. UNCHANGED <<fails, accessed, checked, checkedSeq, peerOf, pickedAt, probing, now>>
      BY <2>1 DEF dismiss, healthVars
    <3>3. /\ \A h \in Pickers : pc[h] = "busy" => pc'[h] = "busy" /\ probeChecked'[h] = probeChecked[h]
          /\ \A h \in Pickers, q \in Peers : \/ probeChecked'[h][q] = probeChecked[h][q]
                                              \/ probeChecked'[h][q].seq = 0
      BY <2>1, <3>1 DEF dismiss, TypeOK, NoProbe
    <3> QED
      BY <1>0, <3>2, <3>3 DEF Untouched
  <2>2. CASE ~dismiss(g)
    BY <1>0, <1>2, <2>2, DismissCases DEF TypeOK, healthVars, auxVars, Untouched
  <2> QED BY <2>1, <2>2
<1>3. CASE Tick \/ UNCHANGED vars
  BY <1>0, <1>3 DEF Tick, vars, healthVars, auxVars, Untouched
<1> QED
  BY <1>1, <1>2, <1>3 DEF Passive

\* Every step keeps what is known of the suspension of the peers.
LEMMA HealthStep ==
    ASSUME TypeOK, HoldInv, Health, [Next]_vars
    PROVE  Health'
<1>0. now \in Nat
  BY DEF TypeOK
<1>1. ASSUME NEW g \in Pickers, PickPrimary(g) \/ PickBackup(g)
      PROVE  Health'
  <2>1. PICK p \in Peers :
           /\ pc[g] # "busy" /\ take(g, p) /\ now' = now
           /\ \/ single /\ UNCHANGED <<healthVars, probeChecked>>
              \/ ~single /\ ~Quarantined(p, now) /\ commitPeer(g, p, now)
    BY <1>1, PickCases
  <2>2. CASE single
    <3>1. UNCHANGED <<fails, accessed, checked, checkedSeq, probeChecked>>
      BY <2>1, <2>2 DEF healthVars
    <3> QED
      BY <1>0, <2>1, <2>2, <3>1, HealthQuiet
  <2>3. CASE ~single
    BY <1>0, <2>1, <2>3, HealthCommit
  <2> QED BY <2>2, <2>3
<1>2. ASSUME NEW g \in Pickers, NEW outcome \in Outcomes, Done(g, outcome)
      PROVE  Health'
  <2> DEFINE p == peerOf[g]
  <2>1. /\ p \in Peers /\ pc[g] = "busy" /\ now' = now
        /\ \A h \in Pickers \ {g} : /\ pc'[h] = pc[h] /\ peerOf'[h] = peerOf[h]
                                     /\ pickedAt'[h] = pickedAt[h]
    BY <1>2 DEF Done, TypeOK, HoldInv
  <2>2. CASE single
    <3>1. UNCHANGED <<accessed, checked, checkedSeq, probeChecked>>
      BY <1>2, <2>2 DEF Done
    <3> QED
      BY <1>0, <2>1, <2>2, <3>1, HealthQuiet
  <2>3. CASE ~single
    <3>1. recordFailure(p) \/ recordSuccess(p) \/ recordNothing(g, p)
      BY <1>2, <2>3 DEF Done
    <3> QED
      BY <2>1, <2>3, <3>1, HealthDone
  <2> QED BY <2>2, <2>3
<1>3. CASE Passive
  <2>1. Untouched
    BY <1>3, PassiveQuiet
  <2> QED
    BY <2>1, HealthQuiet DEF Untouched
<1> QED
  BY <1>1, <1>2, <1>3, StepKinds

\* Every step keeps the invariant of suspension and recovery.
LEMMA RecoveryStep ==
    ASSUME Inv, [Next]_vars
    PROVE  Recovery'
<1> USE DEF Inv
<1>0. now \in Nat
  BY DEF TypeOK
<1>1. ASSUME NEW g \in Pickers, PickPrimary(g) \/ PickBackup(g)
      PROVE  Recovery'
  <2>1. PICK p \in Peers :
           /\ pc[g] # "busy" /\ take(g, p) /\ now' = now
           /\ \/ single /\ UNCHANGED <<healthVars, probeChecked>>
              \/ ~single /\ ~Quarantined(p, now) /\ commitPeer(g, p, now)
    BY <1>1, PickCases
  <2>2. CASE single
    <3>1. UNCHANGED <<fails, accessed, checked, checkedSeq, probeChecked>>
      BY <2>1, <2>2 DEF healthVars
    <3>2. \A h \in Pickers : probing'[h] => /\ probing[h] /\ peerOf'[h] = peerOf[h]
                                           /\ pickedAt'[h] = pickedAt[h]
      BY <2>1, <2>2 DEF take, TypeOK
    <3> QED
      BY <1>0, <2>1, <2>2, <3>1, <3>2, RecoveryQuiet
  <2>3. CASE ~single
    BY <2>1, <2>3, RecoveryCommit
  <2> QED BY <2>2, <2>3
<1>2. ASSUME NEW g \in Pickers, NEW outcome \in Outcomes, Done(g, outcome)
      PROVE  Recovery'
  <2> DEFINE p == peerOf[g]
  <2>1. /\ p \in Peers /\ pc[g] = "busy" /\ now' = now /\ ~probing'[g]
        /\ \A h \in Pickers \ {g} : /\ pc'[h] = pc[h] /\ peerOf'[h] = peerOf[h]
                                     /\ pickedAt'[h] = pickedAt[h] /\ probing'[h] = probing[h]
    BY <1>2 DEF Done, TypeOK, HoldInv
  <2>2. CASE single
    <3>1. UNCHANGED <<accessed, checked, checkedSeq, probeChecked>>
      BY <1>2, <2>2 DEF Done
    <3> QED
      BY <1>0, <2>1, <2>2, <3>1, RecoveryQuiet
  <2>3. CASE ~single
    <3>1. recordFailure(p) \/ recordSuccess(p) \/ recordNothing(g, p)
      BY <1>2, <2>3 DEF Done
    <3> QED
      BY <2>1, <2>3, <3>1, RecoveryDone
  <2> QED BY <2>2, <2>3
<1>3. CASE Passive
  <2>1. Untouched
    BY <1>3, PassiveQuiet
  <2> QED
    BY <2>1, RecoveryQuiet DEF Untouched
<1> QED
  BY <1>1, <1>2, <1>3, StepKinds

\* Every reachable state satisfies the inductive invariant.
THEOREM Invariance == Spec => []Inv
<1>1. Inv /\ [Next]_vars => Inv'
  BY TypeStep, HoldStep, RecoveryStep DEF Inv
<1> QED
  BY InitInv, <1>1, PTL DEF Spec

\* The fields of the peers and of the pickers keep their types; in particular an
\* effective weight stays between 0 and the configured weight, however many
\* failures are recorded (done, smoothWeightedPeer).
THEOREM TypeCorrect == Spec => []TypeOK
<1>1. Inv => TypeOK
  BY DEF Inv
<1> QED
  BY Invariance, <1>1, PTL

\* Recovery probes of one peer are more than fail_timeout apart (commitPeer).
THEOREM ProbesApart == Spec => []OneProbePerWindow
<1>1. Inv => OneProbePerWindow
  BY DEF Inv, Recovery, Health
<1> QED
  BY Invariance, <1>1, PTL

\* A suspension without a recent failure is held by a request in flight.
LEMMA Explained ==
    ASSUME TypeOK, Health
    PROVE  NoOrphanQuarantine
<1> SUFFICES ASSUME NEW p \in Peers, ~single, Quarantined(p, now)
             PROVE  \/ now - accessed[p] <= FailTimeout(p)
                    \/ \E g \in Holders(p) : now - pickedAt[g] <= FailTimeout(p)
  BY DEF NoOrphanQuarantine
<1>1. \/ checked[p] = accessed[p]
      \/ now - checked[p] > FailTimeout(p)
      \/ \E g \in Holders(p) : ownsProbe(g, p) /\ pickedAt[g] = checked[p]
  BY DEF Health, SuspensionInv, Quarantined
<1>2. /\ now \in Nat /\ checked[p] \in Nat /\ FailTimeout(p) \in Nat
  BY ConfigTypes DEF TypeOK
<1> QED
  BY <1>1, <1>2 DEF Quarantined

\* A peer that is kept out of selection failed, or was given to a request that
\* still holds it, at most fail_timeout ago (done, neutral branch).
THEOREM QuarantineExplained == Spec => []NoOrphanQuarantine
<1>1. Inv => NoOrphanQuarantine
  BY Explained DEF Inv, Recovery
<1> QED
  BY Invariance, <1>1, PTL

\* A request is given a peer by a Pick of its own.
LEMMA PicksOnly ==
    ASSUME TypeOK, HoldInv, [Next]_vars, NEW g \in Pickers, NEW p \in Peers, Picks(g, p)
    PROVE  PickPrimary(g) \/ PickBackup(g)
<1>1. ASSUME NEW h \in Pickers, NewPicker(h) PROVE FALSE
  BY <1>1 DEF NewPicker, Picks, TypeOK
<1>2. ASSUME NEW h \in Pickers, Finish(h) \/ BackupExhausted(h) \/ PrimaryExhausted(h)
      PROVE  FALSE
  <2>1. CASE dismiss(h)
    BY <2>1 DEF dismiss, Picks, TypeOK
  <2>2. CASE ~dismiss(h)
    BY <1>2, <2>2, DismissCases DEF Picks, TypeOK
  <2> QED BY <2>1, <2>2
<1>3. ASSUME NEW h \in Pickers, NEW outcome \in Outcomes, Done(h, outcome) PROVE FALSE
  BY <1>3 DEF Done, Picks, TypeOK
<1>4. ASSUME NEW h \in Pickers, PickPrimary(h) \/ PickBackup(h) PROVE h = g
  <2>1. PICK q \in Peers : take(h, q)
    BY <1>4, PickCases
  <2> QED
    BY <2>1 DEF take, Picks, TypeOK
<1>5. ~Tick /\ ~UNCHANGED vars
  BY DEF Tick, Picks, vars
<1> QED
  BY <1>1, <1>2, <1>3, <1>4, <1>5 DEF Next, Step, Idle

\* No step gives a request a peer that reached max_fails with a failure at most
\* fail_timeout ago (pickFromGroup, done).
THEOREM NoEarlyProbe == Spec => QuarantineHonoured
<1>1. ASSUME Inv, [Next]_vars, NEW g \in Pickers, NEW p \in Peers,
             Picks(g, p), ~single, MaxFails(p) > 0, fails[p] >= MaxFails(p)
      PROVE  now - accessed[p] > FailTimeout(p)
  <2>1. PickPrimary(g) \/ PickBackup(g)
    BY <1>1, PicksOnly DEF Inv
  <2>2. PICK q \in Peers : take(g, q) /\ ~Quarantined(q, now)
    BY <1>1, <2>1, PickCases DEF Inv
  <2>3. q = p
    BY <1>1, <2>2 DEF take, Picks, Inv, TypeOK
  <2>4. /\ now \in Nat /\ checked[p] \in Nat /\ accessed[p] \in Nat
        /\ FailTimeout(p) \in Nat /\ accessed[p] <= checked[p]
    BY <1>1, ConfigTypes DEF Inv, TypeOK, Recovery, Health, HealthInv
  <2> QED
    BY <1>1, <2>2, <2>3, <2>4 DEF Quarantined
<1>2. Inv /\ [Next]_vars =>
        [\A g \in Pickers, p \in Peers :
            Picks(g, p) /\ ~single /\ MaxFails(p) > 0 /\ fails[p] >= MaxFails(p)
            => now - accessed[p] > FailTimeout(p)]_vars
  BY <1>1
<1> QED
  BY Invariance, <1>2, PTL DEF Spec, QuarantineHonoured

\* A successful recovery probe resets fails, unless the peer failed since the
\* probe was sent (done, success branch).
THEOREM ProbeHeals == Spec => ProbeSuccessHeals
<1>1. ASSUME Inv, NEW g \in Pickers, probing[g], Done(g, "ok"),
             accessed[peerOf[g]] < pickedAt[g]
      PROVE  fails'[peerOf[g]] = 0
  <2> DEFINE p == peerOf[g]
  <2>1. p \in Peers /\ fails \in [Peers -> Nat]
    BY <1>1 DEF Inv, TypeOK, HoldInv
  <2>2. CASE single
    BY <1>1, <2>1, <2>2 DEF Done
  <2>3. CASE ~single
    <3>1. recordSuccess(p)
      BY <1>1, <2>3 DEF Done
    <3>2. pickedAt[g] <= checked[p]
      BY <1>1, <2>1 DEF Inv, Recovery, Health, WindowInv
    <3>3. accessed[p] \in Nat /\ checked[p] \in Nat /\ pickedAt[g] \in Nat
      BY <1>1, <2>1 DEF Inv, TypeOK
    <3>4. accessed[p] < checked[p]
      BY <1>1, <3>2, <3>3
    <3> QED
      BY <2>1, <3>1, <3>4 DEF recordSuccess
  <2> QED BY <2>2, <2>3
<1>2. Inv /\ [Next]_vars =>
        [\A g \in Pickers :
            probing[g] /\ Done(g, "ok") /\ accessed[peerOf[g]] < pickedAt[g]
            => fails'[peerOf[g]] = 0]_vars
  BY <1>1
<1> QED
  BY Invariance, <1>2, PTL DEF Spec, ProbeSuccessHeals

-------------------------------------------------------------------------------
(* Credit. *)

\* A round among peers of one group keeps the credit of both groups balanced.
LEMMA RoundBalanced ==
    ASSUME TypeOK, WeightsBalanced, NEW G \in {Primary, Backup}, NEW E \in SUBSET G,
           NEW best \in E, smoothWeightedPeer(E, best)
    PROVE  WeightsBalanced'
<1>1. currentWeight \in [Peers -> Int] /\ effectiveWeight \in [Peers -> Nat]
  BY DEF TypeOK
<1>2. /\ Primary \in SUBSET Peers /\ Backup \in SUBSET Peers /\ E \in SUBSET Peers
      /\ E \subseteq Primary \/ E \cap Primary = {}
      /\ E \subseteq Backup \/ E \cap Backup = {}
  BY DEF Primary, Backup
<1>3. total(currentWeight', Primary) = total(currentWeight, Primary)
  BY <1>1, <1>2, SmoothBalanced
<1>4. total(currentWeight', Backup) = total(currentWeight, Backup)
  BY <1>1, <1>2, SmoothBalanced
<1> QED
  BY <1>3, <1>4 DEF WeightsBalanced

\* Every step keeps the credit of both groups balanced.
LEMMA CreditStep ==
    ASSUME TypeOK, WeightsBalanced, [Next]_vars
    PROVE  WeightsBalanced'
<1>1. ASSUME UNCHANGED currentWeight PROVE WeightsBalanced'
  BY <1>1 DEF WeightsBalanced
<1>2. ASSUME NEW g \in Pickers, NEW G \in {Primary, Backup}, pickFromGroup(g, G)
      PROVE  WeightsBalanced'
  <2> DEFINE E == Selectable(g, G, now)
  <2>1. E \in SUBSET G
    BY DEF Selectable
  <2>2. CASE single
    BY <1>1, <1>2, <2>2 DEF pickFromGroup, weightVars
  <2>3. CASE ~single
    <3>1. PICK best \in E : smoothWeightedPeer(E, best)
      BY <1>2, <2>3 DEF pickFromGroup
    <3> HIDE DEF E
    <3> QED BY <2>1, <3>1, RoundBalanced
  <2> QED BY <2>2, <2>3
<1>3. ASSUME NEW g \in Pickers, PickPrimary(g) \/ PickBackup(g)
      PROVE  WeightsBalanced'
  BY <1>2, <1>3 DEF PickPrimary, PickBackup
<1>4. ASSUME NEW g \in Pickers, NEW outcome \in Outcomes, Done(g, outcome)
      PROVE  UNCHANGED currentWeight
  BY <1>4 DEF Done, recordFailure, recordSuccess, recordNothing, weightVars
<1>5. ASSUME Passive PROVE UNCHANGED currentWeight
  <2>1. ASSUME NEW g \in Pickers, Finish(g) \/ BackupExhausted(g) \/ PrimaryExhausted(g)
        PROVE  UNCHANGED currentWeight
    BY <2>1, DismissCases DEF dismiss, weightVars
  <2>2. ASSUME NEW g \in Pickers, NewPicker(g) PROVE UNCHANGED currentWeight
    BY <2>2 DEF NewPicker, weightVars
  <2>3. Tick \/ UNCHANGED vars => UNCHANGED currentWeight
    BY DEF Tick, vars, weightVars
  <2> QED
    BY <1>5, <2>1, <2>2, <2>3 DEF Passive
<1> QED
  BY <1>1, <1>3, <1>4, <1>5, StepKinds

\* No peer has credit to begin with.
LEMMA CreditInit == Init => WeightsBalanced
<1> SUFFICES ASSUME Init PROVE WeightsBalanced
  OBVIOUS
<1>1. currentWeight \in [Peers -> Int] /\ \A p \in Peers : currentWeight[p] = 0
  BY DEF Init
<1> QED
  BY <1>1, TotalZero DEF WeightsBalanced

\* The current weights of a group add up to zero after any number of rounds among any
\* of its peers, with any degraded weights (smoothWeightedPeer).
THEOREM CreditConserved == Spec => []WeightsBalanced
<1>1. Inv /\ WeightsBalanced /\ [Next]_vars => WeightsBalanced'
  BY CreditStep DEF Inv
<1> QED
  BY Invariance, CreditInit, <1>1, PTL DEF Spec


-------------------------------------------------------------------------------
(* The loop of smoothWeightedPeer, which RoundRobin states by its result. *)

\* The loop comes to peer p of the slice; s has the weights, the sum and the best peer
\* so far.
scanPeer(E, s, p) ==
    IF p \notin E THEN s
    ELSE LET cw == [s.cw EXCEPT ![p] = @ + s.ew[p]]
         IN  [cw    |-> cw,
              ew    |-> [s.ew EXCEPT ![p] = IF @ < Weight(p) THEN @ + 1 ELSE @],
              total |-> s.total + s.ew[p],
              best  |-> IF s.best = NoPeer THEN p ELSE IF cw[p] > cw[s.best] THEN p ELSE s.best]

scanStart == [cw |-> currentWeight, ew |-> effectiveWeight, total |-> 0, best |-> NoPeer]

smoothScan(E) ==
    LET scan[i \in 0 .. NPeers] == IF i = 0 THEN scanStart ELSE scanPeer(E, scan[i - 1], i)
    IN  scan[NPeers]

\* What the loop may have computed, and the states it goes through.
Scanned == [cw : [Peers -> Int], ew : [Peers -> Int], total : Int, best : Peers \cup {NoPeer}]
rounds(E) == CHOOSE scan : scan = [i \in 0 .. NPeers |->
                 IF i = 0 THEN scanStart ELSE scanPeer(E, scan[i - 1], i)]

\* The peers of the slice are numbers, in its order.
LEMMA Slice ==
    /\ NPeers \in Nat /\ Peers = 1 .. NPeers /\ NoPeer \notin Peers
    /\ \A p \in Peers : p \in Int /\ 1 <= p /\ p <= NPeers
<1>1. NPeers \in Nat /\ Peers = 1 .. NPeers
  BY ServersAssumption DEF Peers
<1>2. \A p \in Peers : p \in Int /\ 1 <= p /\ p <= NPeers
  BY <1>1
<1> QED BY <1>1, <1>2, PeersNat

\* The weights are numbers.
LEMMA WeightTypes ==
    ASSUME TypeOK
    PROVE  /\ currentWeight \in [Peers -> Int] /\ effectiveWeight \in [Peers -> Int]
           /\ \A p \in Peers : Weight(p) \in Nat
  BY ConfigTypes DEF TypeOK

\* One iteration.
LEMMA ScanType ==
    ASSUME NEW E, NEW s \in Scanned, NEW p \in Peers
    PROVE  scanPeer(E, s, p) \in Scanned
<1>1. CASE p \notin E
  BY <1>1 DEF scanPeer
<1>2. CASE p \in E
  <2> DEFINE cw == [s.cw EXCEPT ![p] = @ + s.ew[p]]
             ew == [s.ew EXCEPT ![p] = IF @ < Weight(p) THEN @ + 1 ELSE @]
             best == IF s.best = NoPeer THEN p ELSE IF cw[p] > cw[s.best] THEN p ELSE s.best
  <2>1. /\ cw \in [Peers -> Int] /\ ew \in [Peers -> Int] /\ s.total + s.ew[p] \in Int
        /\ best \in Peers \cup {NoPeer}
    BY DEF Scanned
  <2>2. scanPeer(E, s, p) = [cw |-> cw, ew |-> ew, total |-> s.total + s.ew[p], best |-> best]
    BY <1>2 DEF scanPeer
  <2> HIDE DEF cw, ew, best
  <2> QED
    BY <2>1, <2>2 DEF Scanned
<1> QED BY <1>1, <1>2

\* The loop goes from peer to peer.
LEMMA Rounds ==
    ASSUME TypeOK, NEW E
    PROVE  /\ \A i \in 0 .. NPeers : rounds(E)[i] \in Scanned
           /\ rounds(E)[0] = scanStart
           /\ \A i \in Peers : rounds(E)[i] = scanPeer(E, rounds(E)[i - 1], i)
           /\ smoothScan(E) = rounds(E)[NPeers]
<1> DEFINE V == [i \in Nat |-> [s \in Scanned |-> IF i \in Peers THEN scanPeer(E, s, i) ELSE s]]
           Def(scan) == [i \in 0 .. NPeers |->
                            IF i = 0 THEN scanStart ELSE scanPeer(E, scan[i - 1], i)]
<1>0. NPeers \in Nat /\ Peers = 1 .. NPeers
  BY ServersAssumption DEF Peers
<1>1. scanStart \in Scanned
  BY DEF scanStart, Scanned, TypeOK
<1>2. V \in [Nat -> [Scanned -> Scanned]]
  BY ScanType
<1>3. PICK h \in [Nat -> Scanned] : course(h, NPeers, scanStart, V)
  <2> HIDE DEF V
  <2> QED BY <1>0, <1>1, <1>2, Loop
<1>4. ASSUME NEW i \in 1 .. NPeers PROVE h[i] = scanPeer(E, h[i - 1], i)
  <2>1. i \in Peers /\ i \in Nat /\ h[i - 1] \in Scanned
    BY <1>0
  <2>2. h[i] = V[i][h[i - 1]]
    <3> HIDE DEF V
    <3> QED BY <1>3 DEF course
  <2> QED BY <2>1, <2>2
<1> DEFINE r == [i \in 0 .. NPeers |-> h[i]]
<1>5. r = Def(r)
  BY <1>0, <1>3, <1>4 DEF course
<1>6. rounds(E) = Def(rounds(E))
  BY <1>5, Zenon DEF rounds
<1>7. smoothScan(E) = rounds(E)[NPeers]
  BY Zenon DEF smoothScan, rounds
<1>8. ASSUME NEW s, s = Def(s)
      PROVE  /\ \A i \in 0 .. NPeers : s[i] \in Scanned
             /\ s[0] = scanStart
             /\ \A i \in Peers : s[i] = scanPeer(E, s[i - 1], i)
  <2>1. s[0] = scanStart
    BY <1>0, <1>8
  <2>2. \A i \in Peers : s[i] = scanPeer(E, s[i - 1], i)
    BY <1>0, <1>8
  <2> DEFINE T == {i \in 0 .. NPeers : s[i] \in Scanned}
  <2>3. 0 \in T
    BY <1>0, <1>1, <2>1
  <2>4. ASSUME NEW i \in 1 .. NPeers, i - 1 \in T PROVE i \in T
    BY <1>0, <2>2, <2>4, ScanType
  <2>5. 0 .. NPeers \subseteq T
    <3> HIDE DEF T
    <3> QED BY <1>0, <2>3, <2>4, UpTo
  <2> QED BY <2>1, <2>2, <2>5
<1> HIDE DEF Def
<1> QED
  BY <1>6, <1>7, <1>8

\* The weights after the round, before the winner pays.
credited(E) == [p \in Peers |-> IF p \in E THEN currentWeight[p] + effectiveWeight[p]
                                           ELSE currentWeight[p]]
recovered(E) == [p \in Peers |-> IF p \in E /\ effectiveWeight[p] < Weight(p)
                                 THEN effectiveWeight[p] + 1 ELSE effectiveWeight[p]]

\* Peer b is ahead of peer q in the round.
leads(E, b, q) == \/ credited(E)[q] < credited(E)[b]
                  \/ credited(E)[q] = credited(E)[b] /\ b <= q

\* The loop invariant: the peers up to the i-th have their credit and the others not,
\* the sum is that of the credit given, and best is the first of those with the most.
scannedTo(E, s, i) ==
    /\ \A p \in Peers :
          /\ s.cw[p] = IF p <= i THEN credited(E)[p] ELSE currentWeight[p]
          /\ s.ew[p] = IF p <= i THEN recovered(E)[p] ELSE effectiveWeight[p]
    /\ s.total = sums(effectiveWeight, E)[i]
    /\ \/ s.best = NoPeer /\ \A q \in E : q > i
       \/ s.best \in E /\ s.best <= i /\ \A q \in E : q <= i => leads(E, s.best, q)

\* The i-th peer adds its part to the sum.
LEMMA SumAt ==
    ASSUME NEW f \in [Peers -> Int], NEW S, NEW i \in Peers
    PROVE  sums(f, S)[i] = sums(f, S)[i - 1] + (IF i \in S THEN f[i] ELSE 0)
  BY Sums

\* An iteration keeps the loop invariant.
LEMMA ScanStep ==
    ASSUME TypeOK, NEW E \in SUBSET Peers, NEW i \in Peers, NEW s \in Scanned,
           scannedTo(E, s, i - 1)
    PROVE  scannedTo(E, scanPeer(E, s, i), i)
<1> DEFINE t == scanPeer(E, s, i)
<1>a. /\ currentWeight \in [Peers -> Int] /\ effectiveWeight \in [Peers -> Int]
      /\ s.cw \in [Peers -> Int] /\ s.ew \in [Peers -> Int] /\ s.total \in Int
  BY WeightTypes DEF Scanned
<1>0. /\ \A p \in Peers : p \in Int
      /\ \A p \in E : p \in Int /\ p \in Peers
      /\ i \in Int /\ i - 1 \in 0 .. NPeers
  BY Slice
<1>1. \A p \in Peers : /\ p <= i <=> p <= i - 1 \/ p = i
                       /\ ~(i <= i - 1)
  BY <1>0
<1>2. sums(effectiveWeight, E)[i]
        = sums(effectiveWeight, E)[i - 1] + (IF i \in E THEN effectiveWeight[i] ELSE 0)
  BY <1>a, SumAt
<1>3. s.cw[i] = currentWeight[i] /\ s.ew[i] = effectiveWeight[i]
  BY <1>1 DEF scannedTo
<1>4. sums(effectiveWeight, E)[i - 1] \in Int
  <2>1. sums(effectiveWeight, E) \in [0 .. NPeers -> Int]
    BY <1>a, Sums, Zenon
  <2> QED BY <1>0, <2>1
<1>5. CASE i \notin E
  <2>1. t = s
    BY <1>5 DEF scanPeer
  <2>2. credited(E)[i] = currentWeight[i] /\ recovered(E)[i] = effectiveWeight[i]
    BY <1>5 DEF credited, recovered
  <2>3. \A p \in Peers :
          /\ s.cw[p] = IF p <= i THEN credited(E)[p] ELSE currentWeight[p]
          /\ s.ew[p] = IF p <= i THEN recovered(E)[p] ELSE effectiveWeight[p]
    BY <1>1, <1>3, <2>2 DEF scannedTo
  <2>4. s.total = sums(effectiveWeight, E)[i]
    BY <1>2, <1>4, <1>5 DEF scannedTo
  <2>5. \/ s.best = NoPeer /\ \A q \in E : q > i
        \/ s.best \in E /\ s.best <= i /\ \A q \in E : q <= i => leads(E, s.best, q)
    <3>1. \A q \in E : (q > i - 1 => q > i) /\ (q <= i => q <= i - 1) /\ (q <= i - 1 => q <= i)
      <4>1. \A q \in E : q \in Int /\ q # i
        BY <1>0, <1>5
      <4> QED BY <1>0, <4>1
    <3> QED
      BY <3>1 DEF scannedTo
  <2> QED
    BY <2>1, <2>3, <2>4, <2>5 DEF scannedTo
<1>6. CASE i \in E
  <2> DEFINE cw == [s.cw EXCEPT ![i] = @ + s.ew[i]]
             ew == [s.ew EXCEPT ![i] = IF @ < Weight(i) THEN @ + 1 ELSE @]
             best == IF s.best = NoPeer THEN i ELSE IF cw[i] > cw[s.best] THEN i ELSE s.best
  <2>1. t = [cw |-> cw, ew |-> ew, total |-> s.total + s.ew[i], best |-> best]
    BY <1>6 DEF scanPeer
  <2>2. t.cw = cw /\ t.ew = ew /\ t.total = s.total + s.ew[i] /\ t.best = best
    <3> HIDE DEF cw, ew, best, t
    <3> QED BY <2>1
  <2>3. /\ credited(E)[i] = currentWeight[i] + effectiveWeight[i]
        /\ recovered(E)[i] = IF effectiveWeight[i] < Weight(i) THEN effectiveWeight[i] + 1
                                                               ELSE effectiveWeight[i]
    BY <1>6 DEF credited, recovered
  <2>4. /\ cw[i] = credited(E)[i] /\ ew[i] = recovered(E)[i]
        /\ \A p \in Peers \ {i} : cw[p] = s.cw[p] /\ ew[p] = s.ew[p]
    BY <1>a, <1>3, <2>3
  <2>5. \A p \in Peers :
          /\ cw[p] = IF p <= i THEN credited(E)[p] ELSE currentWeight[p]
          /\ ew[p] = IF p <= i THEN recovered(E)[p] ELSE effectiveWeight[p]
    <3> HIDE DEF cw, ew
    <3> QED BY <1>1, <2>4 DEF scannedTo
  <2>6. s.total + s.ew[i] = sums(effectiveWeight, E)[i]
    BY <1>2, <1>3, <1>6 DEF scannedTo
  <2>7. best \in E /\ best <= i /\ \A q \in E : q <= i => leads(E, best, q)
    <3>0. \A p \in Peers : credited(E)[p] \in Int
      BY <1>a DEF credited
    <3>1. CASE s.best = NoPeer
      <4>1. best = i
        BY <3>1
      <4>2. \A q \in E : q > i - 1
        BY <3>1, Slice DEF scannedTo
      <4>3. \A q \in E : q <= i => q = i
        BY <1>0, <4>2
      <4> QED
        <5>1. leads(E, i, i)
          BY <1>0 DEF leads
        <5> QED BY <1>0, <1>6, <4>1, <4>3, <5>1
    <3>2. CASE s.best # NoPeer
      <4>1. /\ s.best \in E /\ s.best <= i - 1
            /\ \A q \in E : q <= i - 1 => leads(E, s.best, q)
        BY <3>2 DEF scannedTo
      <4>2. s.best \in Peers /\ s.best \in Int /\ s.best # i /\ s.best <= i /\ ~(i <= s.best)
        <5>1. s.best \in Peers /\ s.best \in Int
          BY <1>0, <4>1
        <5> QED BY <1>0, <4>1, <5>1
      <4>3. cw[s.best] = credited(E)[s.best]
        <5> HIDE DEF cw
        <5> QED BY <2>5, <4>2
      <4> HIDE DEF cw
      <4>4. CASE cw[i] > cw[s.best]
        <5>1. best = i /\ credited(E)[i] > credited(E)[s.best]
          BY <2>4, <3>2, <4>3, <4>4
        <5>2. ASSUME NEW q \in E, q <= i PROVE leads(E, i, q)
          <6>1. CASE q = i
            BY <1>0, <6>1 DEF leads
          <6>2. CASE q # i
            <7>1. leads(E, s.best, q)
              BY <1>1, <4>1, <5>2, <6>2
            <7> QED BY <3>0, <4>2, <5>1, <7>1 DEF leads
          <6> QED BY <6>1, <6>2
        <5> HIDE DEF best
        <5> QED BY <1>0, <1>6, <5>1, <5>2
      <4>5. CASE ~(cw[i] > cw[s.best])
        <5>1. best = s.best /\ ~(credited(E)[i] > credited(E)[s.best])
          BY <2>4, <3>2, <4>3, <4>5
        <5>2. leads(E, s.best, i)
          BY <3>0, <4>2, <5>1 DEF leads
        <5>3. \A q \in E : q <= i => leads(E, s.best, q)
          BY <1>1, <4>1, <5>2
        <5> HIDE DEF best
        <5> QED BY <4>1, <4>2, <5>1, <5>3
      <4> QED BY <4>4, <4>5
    <3> QED BY <3>1, <3>2
  <2> HIDE DEF cw, ew, best, t
  <2> QED
    BY <2>2, <2>5, <2>6, <2>7 DEF scannedTo, t
<1> QED BY <1>5, <1>6

\* The loop of smoothWeightedPeer, which updates the weights of each eligible peer as
\* it comes to it and compares it only with the best one so far, has exactly one
\* result, and that is the step smoothWeightedPeer of the model: whatever the weights
\* and however degraded, the first peer of the most credit wins and pays what all of
\* them were given.
THEOREM ScanIsTheRound ==
    ASSUME TypeOK, NEW E \in SUBSET Peers, NEW p \in E
    PROVE  smoothWeightedPeer(E, p) <=>
              LET s == smoothScan(E) IN
              /\ p = s.best
              /\ currentWeight' = [s.cw EXCEPT ![s.best] = @ - s.total]
              /\ effectiveWeight' = s.ew
<1>0. /\ NPeers \in Nat /\ Peers = 1 .. NPeers /\ NoPeer \notin Peers
      /\ effectiveWeight \in [Peers -> Int] /\ currentWeight \in [Peers -> Int]
      /\ \A q \in Peers : q \in Int /\ 1 <= q /\ q <= NPeers
  BY Slice, WeightTypes
<1> DEFINE T == {i \in 0 .. NPeers : scannedTo(E, rounds(E)[i], i)}
<1>1. 0 \in T
  <2>1. \A q \in Peers : ~(q <= 0) /\ q > 0
    BY <1>0
  <2>2. rounds(E)[0] = scanStart /\ sums(effectiveWeight, E)[0] = 0
    BY <1>0, Rounds, Sums
  <2>3. scannedTo(E, scanStart, 0)
    BY <2>1, <2>2 DEF scannedTo, scanStart
  <2> QED BY <1>0, <2>2, <2>3
<1>2. ASSUME NEW i \in 1 .. NPeers, i - 1 \in T PROVE i \in T
  <2>1. i \in Peers /\ rounds(E)[i - 1] \in Scanned /\ scannedTo(E, rounds(E)[i - 1], i - 1)
    BY <1>0, <1>2, Rounds
  <2>2. rounds(E)[i] = scanPeer(E, rounds(E)[i - 1], i)
    BY <2>1, Rounds
  <2> QED BY <2>1, <2>2, ScanStep
<1>3. 0 .. NPeers \subseteq T
  <2> HIDE DEF T
  <2> QED BY <1>0, <1>1, <1>2, UpTo
<1> DEFINE s == smoothScan(E)
<1>4. scannedTo(E, s, NPeers) /\ s \in Scanned
  <2>1. NPeers \in 0 .. NPeers
    BY <1>0
  <2> QED BY <1>3, <2>1, Rounds
<1> HIDE DEF s, T
<1>5. s.cw = credited(E)
  <2>1. \A q \in Peers : s.cw[q] = credited(E)[q]
    BY <1>0, <1>4 DEF scannedTo
  <2>2. s.cw \in [Peers -> Int] /\ credited(E) \in [Peers -> Int]
    <3>1. credited(E) \in [Peers -> Int]
      BY <1>0 DEF credited
    <3> QED BY <1>4, <3>1 DEF Scanned
  <2> QED BY <2>1, <2>2
<1>6. s.ew = recovered(E)
  <2>1. \A q \in Peers : s.ew[q] = recovered(E)[q]
    BY <1>0, <1>4 DEF scannedTo
  <2>2. s.ew \in [Peers -> Int] /\ recovered(E) \in [Peers -> Int]
    <3>1. recovered(E) \in [Peers -> Int]
      BY <1>0, WeightTypes DEF recovered
    <3> QED BY <1>4, <3>1 DEF Scanned
  <2> QED BY <2>1, <2>2
<1>7. s.total = TotalEffectiveWeight(E)
  BY <1>0, <1>4, Sums DEF scannedTo, TotalEffectiveWeight
<1>8. s.best \in E /\ \A q \in E : leads(E, s.best, q)
  <2>1. ~\A q \in E : q > NPeers
    BY <1>0
  <2> QED BY <1>0, <1>4, <2>1 DEF scannedTo
<1>9. (\A q \in E : leads(E, p, q)) <=> p = s.best
  <2>1. \A q \in E : credited(E)[q] \in Int /\ q \in Int
    BY <1>0 DEF credited
  <2>2. leads(E, p, s.best) /\ leads(E, s.best, p) => p = s.best
    BY <1>8, <2>1 DEF leads
  <2> QED BY <1>8, <2>2
<1>10. smoothWeightedPeer(E, p) <=>
          /\ \A q \in E : leads(E, p, q)
          /\ currentWeight' = [credited(E) EXCEPT ![p] = @ - TotalEffectiveWeight(E)]
          /\ effectiveWeight' = recovered(E)
  BY DEF smoothWeightedPeer, leads, credited, recovered
<1>11. smoothWeightedPeer(E, p) <=>
          /\ p = s.best
          /\ currentWeight' = [s.cw EXCEPT ![s.best] = @ - s.total]
          /\ effectiveWeight' = s.ew
  BY <1>5, <1>6, <1>7, <1>9, <1>10
<1> QED
  BY <1>11 DEF s

-------------------------------------------------------------------------------
(* Connections. *)

\* Only finitely many requests hold a peer.
LEMMA HoldersFinite ==
    \A p \in Peers : IsFiniteSet(Holders(p)) /\ Cardinality(Holders(p)) \in Nat
<1> TAKE p \in Peers
<1>1. Holders(p) \in SUBSET Pickers
  BY DEF Holders
<1>2. IsFiniteSet(Holders(p))
  BY <1>1, BoundsAssumption, FS_Subset
<1> QED
  BY <1>2, FS_CardinalityType

\* The requests that hold a peer after g was given p.
LEMMA TakeHolders ==
    ASSUME TypeOK, NEW g \in Pickers, NEW p \in Peers, pc[g] # "busy", take(g, p)
    PROVE  /\ Cardinality(Holders(p)') = Cardinality(Holders(p)) + 1
           /\ conns'[p] = conns[p] + 1
           /\ \A q \in Peers \ {p} : Holders(q)' = Holders(q) /\ conns'[q] = conns[q]
<1>1. Holders(p)' = Holders(p) \cup {g} /\ g \notin Holders(p)
  BY DEF Holders, take, TypeOK
<1>2. \A q \in Peers \ {p} : Holders(q)' = Holders(q)
  BY DEF Holders, take, TypeOK
<1>3. conns'[p] = conns[p] + 1 /\ \A q \in Peers \ {p} : conns'[q] = conns[q]
  BY DEF take, TypeOK
<1>4. Cardinality(Holders(p) \cup {g}) = Cardinality(Holders(p)) + 1
  BY <1>1, HoldersFinite, FS_AddElement
<1> QED
  BY <1>1, <1>2, <1>3, <1>4

\* The requests that hold a peer after g released p.
LEMMA DoneHolders ==
    ASSUME TypeOK, NEW g \in Pickers, NEW p \in Peers, pc[g] = "busy", peerOf[g] = p,
           pc' = [pc EXCEPT ![g] = "ready"], peerOf' = [peerOf EXCEPT ![g] = NoPeer],
           release(p)
    PROVE  /\ Cardinality(Holders(p)') = Cardinality(Holders(p)) - 1
           /\ conns'[p] = conns[p] - 1
           /\ \A q \in Peers \ {p} : Holders(q)' = Holders(q) /\ conns'[q] = conns[q]
<1>1. Holders(p)' = Holders(p) \ {g} /\ g \in Holders(p)
  BY PeersNat DEF Holders, TypeOK
<1>2. \A q \in Peers \ {p} : Holders(q)' = Holders(q)
  BY PeersNat DEF Holders, TypeOK
<1>3. conns'[p] = conns[p] - 1 /\ \A q \in Peers \ {p} : conns'[q] = conns[q]
  BY DEF release, TypeOK
<1>4. Cardinality(Holders(p) \ {g}) = Cardinality(Holders(p)) - 1
  BY <1>1, HoldersFinite, FS_RemoveElement
<1> QED
  BY <1>1, <1>2, <1>3, <1>4

\* A passive step leaves the holders of every peer and its count alone.
LEMMA PassiveHolders ==
    ASSUME TypeOK, Passive
    PROVE  peerOf' = peerOf /\ conns' = conns /\ \A q \in Peers : Holders(q)' = Holders(q)
<1>1. ASSUME NEW g \in Pickers, NewPicker(g)
      PROVE  peerOf' = peerOf /\ conns' = conns /\ \A q \in Peers : Holders(q)' = Holders(q)
  BY <1>1 DEF NewPicker, Holders, TypeOK
<1>2. ASSUME NEW g \in Pickers, Finish(g) \/ BackupExhausted(g) \/ PrimaryExhausted(g)
      PROVE  peerOf' = peerOf /\ conns' = conns /\ \A q \in Peers : Holders(q)' = Holders(q)
  <2>1. CASE dismiss(g)
    BY <1>2, <2>1, DismissCases DEF dismiss, Holders, TypeOK
  <2>2. CASE ~dismiss(g)
    BY <1>2, <2>2, DismissCases DEF Holders, TypeOK
  <2> QED BY <2>1, <2>2
<1>3. CASE Tick \/ UNCHANGED vars
  BY <1>3 DEF Tick, vars, Holders
<1> QED
  BY <1>1, <1>2, <1>3 DEF Passive

\* The count of connections is exact and within max_conns.
ConnInv == ConnsMatchHolders /\ \A p \in Peers : MaxConns(p) > 0 => conns[p] <= MaxConns(p)

\* A request is given a peer that has room.
LEMMA TakeConn ==
    ASSUME TypeOK, ConnInv, NEW g \in Pickers, NEW p \in Peers,
           pc[g] # "busy", HasRoom(p), take(g, p)
    PROVE  ConnInv'
<1>0. \A q \in Peers : /\ MaxConns(q) \in Int /\ conns[q] \in Int
                       /\ Cardinality(Holders(q)) \in Nat
  BY ConfigTypes, HoldersFinite DEF TypeOK
<1>1. /\ Cardinality(Holders(p)') = Cardinality(Holders(p)) + 1
      /\ conns'[p] = conns[p] + 1
      /\ \A q \in Peers \ {p} : Holders(q)' = Holders(q) /\ conns'[q] = conns[q]
  BY TakeHolders
<1>2. ConnsMatchHolders'
  BY <1>0, <1>1 DEF ConnInv, ConnsMatchHolders
<1>3. \A q \in Peers : MaxConns(q) > 0 => conns'[q] <= MaxConns(q)
  BY <1>0, <1>1 DEF ConnInv, HasRoom
<1> QED
  BY <1>2, <1>3 DEF ConnInv

\* Every step keeps the count of connections exact.
LEMMA ConnStep ==
    ASSUME TypeOK, HoldInv, ConnInv, [Next]_vars
    PROVE  ConnInv'
<1>0. \A p \in Peers : /\ MaxConns(p) \in Int /\ conns[p] \in Int
                       /\ Cardinality(Holders(p)) \in Nat
  BY ConfigTypes, HoldersFinite DEF TypeOK
<1>1. ASSUME NEW g \in Pickers, PickPrimary(g) \/ PickBackup(g)
      PROVE  ConnInv'
  <2>1. PICK p \in Peers : pc[g] # "busy" /\ HasRoom(p) /\ take(g, p)
    BY <1>1, PickCases
  <2> QED
    BY <2>1, TakeConn
<1>2. ASSUME NEW g \in Pickers, NEW outcome \in Outcomes, Done(g, outcome)
      PROVE  ConnInv'
  <2>0. PICK p \in Peers : /\ peerOf[g] = p /\ pc[g] = "busy" /\ release(p)
                           /\ pc' = [pc EXCEPT ![g] = "ready"]
                           /\ peerOf' = [peerOf EXCEPT ![g] = NoPeer]
    BY <1>2 DEF Done, TypeOK, HoldInv
  <2>1. /\ Cardinality(Holders(p)') = Cardinality(Holders(p)) - 1
        /\ conns'[p] = conns[p] - 1
        /\ \A q \in Peers \ {p} : Holders(q)' = Holders(q) /\ conns'[q] = conns[q]
    BY <2>0, DoneHolders
  <2>2. ConnsMatchHolders'
    BY <1>0, <2>1 DEF ConnInv, ConnsMatchHolders
  <2>3. \A q \in Peers : MaxConns(q) > 0 => conns'[q] <= MaxConns(q)
    BY <1>0, <2>1 DEF ConnInv
  <2> QED
    BY <2>2, <2>3 DEF ConnInv
<1>3. CASE Passive
  BY <1>3, PassiveHolders DEF ConnInv, ConnsMatchHolders
<1> QED
  BY <1>1, <1>2, <1>3, StepKinds

\* No connections to begin with.
LEMMA ConnInit == Init => ConnInv
<1> SUFFICES ASSUME Init PROVE ConnInv
  OBVIOUS
<1>1. \A p \in Peers : Holders(p) = {} /\ conns[p] = 0
  BY DEF Init, Holders
<1>2. \A p \in Peers : Cardinality(Holders(p)) = 0
  BY <1>1, FS_EmptySet
<1>3. \A p \in Peers : MaxConns(p) \in Int
  BY ConfigTypes
<1> QED
  BY <1>1, <1>2, <1>3 DEF ConnInv, ConnsMatchHolders

\* The connection counts are exact and within max_conns in every reachable state.
THEOREM Connections == Spec => []ConnInv
<1>1. Inv /\ ConnInv /\ [Next]_vars => ConnInv'
  BY ConnStep DEF Inv
<1> QED
  BY Invariance, ConnInit, <1>1, PTL DEF Spec

\* Every Pick is paid back by exactly one decrement of the right peer's count
\* (commitPeer, done).
THEOREM ConnsExact == Spec => []ConnsMatchHolders
<1>1. ConnInv => ConnsMatchHolders
  BY DEF ConnInv
<1> QED
  BY Connections, <1>1, PTL

\* No interleaving of picks takes a peer beyond max_conns (pickFromGroup).
THEOREM MaxConnsSafe == Spec => []MaxConnsRespected
<1>1. ConnInv => MaxConnsRespected
  BY DEF ConnInv, ConnsMatchHolders, MaxConnsRespected
<1> QED
  BY Connections, <1>1, PTL

-------------------------------------------------------------------------------
(* The contract. *)

\* The step in which a request is given a peer of the group it is at, one that it
\* was not given before, that is not down and has room, is a Pick of the contract.
LEMMA TakeContract ==
    ASSUME HoldInv, ConnInv, NEW g \in Pickers, NEW p \in Peers,
           pc[g] # "busy", p \notin tried[g], ~Down(p), HasRoom(p),
           p \in Backup <=> backupPhase[g], take(g, p)
    PROVE  Contract!PickerNext
<1>1. peerOf[g] = NoPeer /\ p \notin picked[g]
  BY DEF HoldInv
<1>2. picked[g] \cap Backup # {} => p \in Backup
  BY DEF HoldInv
<1>3. Contract!HoldersOf(p) = Holders(p)
  BY PeersNat DEF Contract!HoldersOf, Holders, HoldInv
<1>4. Contract!Cardinality(Holders(p)) = Cardinality(Holders(p))
  BY Zenon DEF Contract!Cardinality, Cardinality
<1>5. MaxConns(p) > 0 => Contract!Cardinality(Contract!HoldersOf(p)) < MaxConns(p)
  BY <1>3, <1>4 DEF HasRoom, ConnInv, ConnsMatchHolders
<1>6. /\ peerOf' = [peerOf EXCEPT ![g] = p]
      /\ picked' = [picked EXCEPT ![g] = @ \cup {p}]
  BY DEF take
<1>7. Contract!Pick(g, p)
  BY <1>1, <1>2, <1>5, <1>6 DEF Contract!Pick
<1> QED
  BY <1>7 DEF Contract!PickerNext

\* Every step is one of the contract, or does not concern it.
LEMMA ContractStep ==
    ASSUME HoldInv, ConnInv, [Next]_vars
    PROVE  [Contract!PickerNext]_Contract!pickerVars
<1> USE DEF Contract!pickerVars
<1>1. ASSUME NEW g \in Pickers, PickPrimary(g) \/ PickBackup(g)
      PROVE  Contract!PickerNext
  BY <1>1, PickCases, TakeContract
<1>2. ASSUME NEW g \in Pickers, NEW outcome \in Outcomes, Done(g, outcome)
      PROVE  Contract!PickerNext
  <2>1. Contract!Release(g)
    BY <1>2 DEF Done, HoldInv, Contract!Release
  <2> QED
    BY <2>1 DEF Contract!PickerNext
<1>3. ASSUME NEW g \in Pickers, Finish(g) \/ BackupExhausted(g) \/ PrimaryExhausted(g)
      PROVE  [Contract!PickerNext]_Contract!pickerVars
  <2>1. pc[g] # "busy" /\ peerOf[g] = NoPeer
    BY <1>3, DismissCases DEF HoldInv
  <2>2. CASE dismiss(g)
    <3>1. Contract!Discard(g)
      BY <2>1, <2>2 DEF dismiss, Contract!Discard
    <3> QED
      BY <3>1 DEF Contract!PickerNext
  <2>3. CASE ~dismiss(g)
    BY <1>3, <2>3, DismissCases DEF auxVars
  <2> QED BY <2>2, <2>3
<1>4. CASE Passive
  <2>1. ASSUME NEW g \in Pickers, NewPicker(g)
        PROVE  UNCHANGED <<peerOf, picked>>
    BY <2>1 DEF NewPicker, auxVars
  <2>2. CASE Tick \/ UNCHANGED vars
    BY <2>2 DEF Tick, vars, auxVars
  <2> QED
    BY <1>3, <1>4, <2>1, <2>2 DEF Passive
<1> QED
  BY <1>1, <1>2, <1>4, StepKinds

\* Every behaviour of the round-robin picker is one that Picker allows: no peer
\* twice for a request, none that is down or full, no way back from the backups.
THEOREM RefinesPicker == Spec => ImplementsPicker
<1>1. Init => Contract!PickerInit
  BY DEF Init, Contract!PickerInit
<1>2. Inv /\ ConnInv /\ [Next]_vars => [Contract!PickerNext]_Contract!pickerVars
  BY ContractStep DEF Inv
<1> QED
  BY Invariance, Connections, <1>1, <1>2, PTL
  DEF Spec, ImplementsPicker, Contract!PickerSpec

===============================================================================
