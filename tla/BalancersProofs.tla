--------------------------- MODULE BalancersProofs ---------------------------
(***************************************************************************)
(* Proofs about the upstreams of every algorithm, for every pool, every    *)
(* number of concurrent requests, every budget of tries, every hash and    *)
(* every ring.  What the algorithms add to RRPicker is the step in which a *)
(* request is given a peer by another rule; all their other steps are      *)
(* those of RoundRobin, and so are most of the proofs.                     *)
(***************************************************************************)
EXTENDS Balancers, RoundRobinProofs

-------------------------------------------------------------------------------
(* The steps of the algorithms. *)

\* Request g is given peer p, by whichever rule, with what all rules look at: p is
\* of the group the request is at, was not tried, is not down, has room, and was
\* not suspended at the last reading of the clock.
Gives(g, p) ==
    /\ pc[g] \in {"ready", "backup"}
    /\ p \notin tried[g] /\ ~Down(p) /\ HasRoom(p)
    /\ p \in Backup <=> backupPhase[g]
    /\ take(g, p)
    /\ now' \in Nat /\ now <= now'
    /\ UNCHANGED <<backupPhase, started>>
    /\ \/ single /\ UNCHANGED <<healthVars, probeChecked>>
       \/ ~single /\ ~Quarantined(p, now') /\ commitPeer(g, p, now)
    /\ \/ UNCHANGED weightVars
       \/ \E E \in (SUBSET Primary) \cup (SUBSET Backup) : p \in E /\ smoothWeightedPeer(E, p)

\* The request keeps its key and uses up some of its tries; if it hashes, it computes
\* a value for each of them and one for the peer it gets.
spends(g) ==
    /\ key' = key
    /\ \E n \in Nat : /\ tries' = [tries EXCEPT ![g] = @ + n]
                      /\ n > 0 => tries[g] + n <= MaxTries
                      /\ \/ hashed' = hashed
                         \/ tries[g] <= MaxTries /\ hashed' = [hashed EXCEPT ![g] = @ + n + 1]

\* The algorithm would choose among the primaries, were there tries left.
drawsPrimary(g) ==
    \/ algo \in {"Random", "RandomTwo"} /\ Cardinality(Primary) >= 2
    \/ algo = "Hash" /\ hashUsesKey(g)
    \/ algo = "HashConsistent" /\ usesRing(g)

\* A request is at the backups only after its tries among the primaries are used
\* up, so no candidate loop takes it back to the primaries.
PhaseInv ==
    /\ key \in [Pickers -> Keys \cup {NoKey}]
    /\ tries \in [Pickers -> Nat]
    /\ \A g \in Pickers :
          /\ pc[g] = "none" => ~backupPhase[g]
          /\ tried[g] \subseteq picked[g]
          /\ backupPhase[g] => Backup # {}
          /\ backupPhase[g] /\ drawsPrimary(g) => tries[g] > MaxTries

\* A request that is served without the candidate loop spends nothing.
LEMMA SpendsNothing ==
    ASSUME PhaseInv, NEW g \in Pickers, UNCHANGED <<key, tries, hashed>>
    PROVE  spends(g)
<1>1. tries' = [tries EXCEPT ![g] = @ + 0] /\ hashed' = hashed /\ key' = key
  BY DEF PhaseInv
<1>2. 0 \in Nat /\ (0 > 0 => tries[g] + 0 <= MaxTries)
  OBVIOUS
<1> DEFINE spent(n) == /\ tries' = [tries EXCEPT ![g] = @ + n]
                       /\ n > 0 => tries[g] + n <= MaxTries
                       /\ \/ hashed' = hashed
                          \/ tries[g] <= MaxTries /\ hashed' = [hashed EXCEPT ![g] = @ + n + 1]
<1>3. spent(0)
  BY <1>1, <1>2
<1>4. spends(g) <=> key' = key /\ \E n \in Nat : spent(n)
  BY DEF spends
<1> HIDE DEF spent
<1> QED
  BY <1>1, <1>2, <1>3, <1>4

\* A clock reading within a critical section is not before its beginning.
LEMMA ReadingsType ==
    ASSUME TypeOK, NEW t \in Readings
    PROVE  t \in Nat /\ now <= t
  BY DEF TypeOK, Readings

\* A suspension that is over stays over while the clock runs.
LEMMA SelectableLater ==
    ASSUME TypeOK, NEW g \in Pickers, NEW G \in SUBSET Peers,
           NEW s \in Nat, NEW t \in Nat, s <= t
    PROVE  Selectable(g, G, s) \subseteq Selectable(g, G, t)
<1> SUFFICES ASSUME NEW p \in G, p \in Selectable(g, G, s) PROVE p \in Selectable(g, G, t)
  BY DEF Selectable
<1>1. checked[p] \in Nat /\ FailTimeout(p) \in Nat
  BY ConfigTypes DEF TypeOK
<1>2. ~Quarantined(p, s) => ~Quarantined(p, t)
  BY <1>1 DEF Quarantined
<1> QED
  BY <1>2 DEF Selectable, peerAvailable

\* What the rule of an algorithm has to establish for its choice to be a Gives.
LEMMA GivesByCommit ==
    ASSUME TypeOK, ~single, NEW g \in Pickers, NEW G \in {Primary, Backup}, NEW p,
           p \in Selectable(g, G, now'),
           pc[g] \in {"ready", "backup"}, backupPhase[g] <=> G = Backup /\ Backup # {},
           now' \in Nat, now <= now', commitPeer(g, p, now),
           UNCHANGED <<backupPhase, started>>,
           \/ UNCHANGED weightVars
           \/ \E E \in (SUBSET Primary) \cup (SUBSET Backup) : p \in E /\ smoothWeightedPeer(E, p)
    PROVE  p \in Peers /\ Gives(g, p)
<1>1. /\ p \in G /\ p \in Peers /\ p \notin tried[g] /\ ~Down(p)
      /\ HasRoom(p) /\ ~Quarantined(p, now')
  BY DEF Selectable, peerAvailable, Primary, Backup
<1>2. p \in Backup <=> backupPhase[g]
  BY <1>1 DEF Primary
<1>3. take(g, p)
  BY DEF commitPeer
<1> QED
  BY <1>1, <1>2, <1>3 DEF Gives

\* The same for a candidate that was let in by the reading t.
LEMMA GivesCandidate ==
    ASSUME TypeOK, PhaseInv, ~single, NEW g \in Pickers, NEW G \in {Primary, Backup},
           NEW t \in Readings, NEW n \in 0 .. MaxTries - tries[g], NEW p, p \in Selectable(g, G, t),
           mayTry(g), backupPhase[g] <=> G = Backup /\ Backup # {},
           commitCandidate(g, p, t, n),
           hashed' = hashed \/ hashed' = [hashed EXCEPT ![g] = @ + n + 1],
           \/ UNCHANGED weightVars
           \/ \E E \in (SUBSET Primary) \cup (SUBSET Backup) : p \in E /\ smoothWeightedPeer(E, p)
    PROVE  p \in Peers /\ Gives(g, p) /\ spends(g)
<1>1. t \in Nat /\ now <= t /\ now' = t
  BY ReadingsType DEF commitCandidate
<1>2. commitPeer(g, p, now) /\ UNCHANGED <<backupPhase, started>> /\ spends(g) /\ pc[g] = "ready"
  <2>1. tries[g] \in Nat /\ tries[g] <= MaxTries /\ MaxTries \in Nat
    BY CandidatesAssumption DEF PhaseInv, mayTry
  <2>2. n \in Nat /\ tries[g] + n <= MaxTries
    BY <2>1
  <2> QED
    BY <2>1, <2>2 DEF commitCandidate, spends, mayTry
<1>3. p \in Selectable(g, G, now')
  BY <1>1
<1> QED
  BY <1>1, <1>2, <1>3, GivesByCommit

\* A request that is drawn for is at the primaries of a pool with several peers.
LEMMA DrawsAtPrimaries ==
    ASSUME PhaseInv, NEW g \in Pickers, drawsPrimary(g), mayTry(g)
    PROVE  ~single /\ ~backupPhase[g]
<1>1. tries[g] \in Nat /\ tries[g] <= MaxTries /\ MaxTries \in Nat
  BY CandidatesAssumption DEF PhaseInv, mayTry
<1>2. ~backupPhase[g]
  BY <1>1 DEF PhaseInv
<1>3. Cardinality(Primary) >= 2 => ~single
  BY DEF single
<1> QED
  BY <1>2, <1>3 DEF drawsPrimary, hashUsesKey, usesRing

\* pickOne.
LEMMA RandomGives ==
    ASSUME TypeOK, PhaseInv, NEW g \in Pickers, algo = "Random", pickOne(g)
    PROVE  \E p \in Peers : Gives(g, p) /\ spends(g)
<1>1. mayTry(g) /\ drawsPrimary(g) /\ pc[g] = "ready" /\ tries[g] \in Nat
  BY DEF pickOne, mayDraw, drawsPrimary, mayTry, PhaseInv
<1>2. PICK t \in Readings, n \in 0 .. MaxTries - tries[g], peer \in drawn :
          peer \in Selectable(g, Primary, t) /\ commitCandidate(g, peer, t, n)
  BY DEF pickOne
<1>3. UNCHANGED weightVars /\ hashed' = hashed
  BY DEF pickOne
<1>4. ~single /\ (backupPhase[g] <=> Primary = Backup /\ Backup # {})
  BY <1>1, DrawsAtPrimaries DEF Primary
<1> QED
  BY <1>1, <1>2, <1>3, <1>4, GivesCandidate

\* pickTwo, whichever of the two peers is selected.
LEMMA RandomTwoGives ==
    ASSUME TypeOK, PhaseInv, NEW g \in Pickers, algo = "RandomTwo", pickTwo(g)
    PROVE  \E p \in Peers : Gives(g, p) /\ spends(g)
<1>1. mayTry(g) /\ drawsPrimary(g) /\ pc[g] = "ready" /\ tries[g] \in Nat
  BY DEF pickTwo, mayDraw, drawsPrimary, mayTry, PhaseInv
<1>2. PICK s \in Readings, t \in Readings, n \in 1 .. MaxTries - tries[g],
           previous \in drawn, peer \in drawn :
          /\ s <= t /\ previous \in Selectable(g, Primary, s)
          /\ peer \in Selectable(g, Primary, t)
          /\ commitCandidate(g, selected(peer, previous), t, n)
  BY DEF pickTwo
<1>3. UNCHANGED weightVars /\ hashed' = hashed /\ n \in 0 .. MaxTries - tries[g]
  BY <1>1, CandidatesAssumption DEF pickTwo
<1>4. ~single /\ (backupPhase[g] <=> Primary = Backup /\ Backup # {})
  BY <1>1, DrawsAtPrimaries DEF Primary
<1>5. s \in Nat /\ t \in Nat /\ Primary \in SUBSET Peers
  BY ReadingsType DEF Primary
<1>6. previous \in Selectable(g, Primary, t)
  BY <1>2, <1>5, SelectableLater
<1>7. selected(peer, previous) \in Selectable(g, Primary, t)
  BY <1>2, <1>6 DEF selected
<1> QED
  BY <1>1, <1>2, <1>3, <1>4, <1>7, GivesCandidate

\* The loop over computed candidates, whatever they are.
LEMMA CandidatesGive ==
    ASSUME TypeOK, PhaseInv, NEW g \in Pickers, NEW G \in {Primary, Backup}, NEW C,
           ~single, backupPhase[g] <=> G = Backup /\ Backup # {}, tryCandidates(g, G, C)
    PROVE  \E p \in Peers : Gives(g, p) /\ spends(g)
<1>1. mayTry(g) /\ UNCHANGED weightVars
  BY DEF tryCandidates
<1>2. PICK t \in Readings, n \in 0 .. MaxTries - tries[g] :
          /\ C[hashed[g] + n + 1] \in Selectable(g, G, t)
          /\ commitCandidate(g, C[hashed[g] + n + 1], t, n)
          /\ hashed' = [hashed EXCEPT ![g] = @ + n + 1]
  BY DEF tryCandidates
<1> QED
  BY <1>1, <1>2, GivesCandidate

\* The hash pickers.
LEMMA HashesGive ==
    ASSUME TypeOK, PhaseInv, NEW g \in Pickers,
           \/ algo = "Hash" /\ HashPick(g)
           \/ algo = "IPHash" /\ IPHashPick(g)
    PROVE  \E p \in Peers : Gives(g, p) /\ spends(g)
<1>1. CASE algo = "Hash" /\ HashPick(g)
  <2>1. mayTry(g) /\ drawsPrimary(g)
    BY <1>1 DEF HashPick, tryCandidates, drawsPrimary
  <2>2. ~single /\ (backupPhase[g] <=> Primary = Backup /\ Backup # {})
    BY <2>1, DrawsAtPrimaries DEF Primary
  <2>3. tryCandidates(g, Primary, hashCandidates[key[g]])
    BY <1>1 DEF HashPick
  <2> QED
    BY <2>2, <2>3, CandidatesGive
<1>2. CASE algo = "IPHash" /\ IPHashPick(g)
  <2>1. ~single
    BY <1>2 DEF IPHashPick, ipUsesKey, group, single
  <2>2. group(g) \in {Primary, Backup} /\ (backupPhase[g] <=> group(g) = Backup /\ Backup # {})
    BY DEF group, PhaseInv, Primary
  <2>3. tryCandidates(g, group(g), ipCandidates[key[g]][group(g)])
    BY <1>2 DEF IPHashPick
  <2> QED
    BY <2>1, <2>2, <2>3, CandidatesGive
<1> QED
  BY <1>1, <1>2

\* The consistent-hash picker: all the peers of an eligible set may be used at the
\* last reading of the clock.
LEMMA ChashGives ==
    ASSUME TypeOK, PhaseInv, NEW g \in Pickers, algo = "HashConsistent", ChashPick(g)
    PROVE  \E p \in Peers : Gives(g, p) /\ spends(g)
<1>1. mayTry(g) /\ drawsPrimary(g) /\ pc[g] = "ready" /\ tries[g] \in Nat
  BY DEF ChashPick, drawsPrimary, mayTry, PhaseInv
<1>2. PICK t \in Readings, n \in 0 .. MaxTries - tries[g] :
          \E E \in eligible(g, serverAt(g, tries[g] + n), t) : \E best \in E :
             smoothWeightedPeer(E, best) /\ commitCandidate(g, best, t, n)
  BY DEF ChashPick
<1>3. PICK E \in eligible(g, serverAt(g, tries[g] + n), t) : \E best \in E :
          smoothWeightedPeer(E, best) /\ commitCandidate(g, best, t, n)
  BY <1>2
<1>4. PICK best \in E : smoothWeightedPeer(E, best) /\ commitCandidate(g, best, t, n)
  BY <1>3
<1>5. t \in Nat /\ now \in Nat /\ now <= t /\ Primary \in SUBSET Peers /\ hashed' = hashed
  BY ReadingsType DEF Primary, TypeOK, ChashPick
<1>6. Selectable(g, Primary, now) \subseteq Selectable(g, Primary, t)
  BY <1>5, SelectableLater
<1>7. E \subseteq Selectable(g, Primary, t)
  BY <1>3, <1>6 DEF eligible, ofServer
<1>8. best \in Selectable(g, Primary, t) /\ E \in SUBSET Primary
  BY <1>4, <1>5, <1>7 DEF Selectable
<1>9. ~single /\ (backupPhase[g] <=> Primary = Backup /\ Backup # {})
  BY <1>1, DrawsAtPrimaries DEF Primary
<1> QED
  BY <1>1, <1>4, <1>5, <1>8, <1>9, GivesCandidate

\* The least-connections picker on a pool with several peers.
LEMMA LeastGives ==
    ASSUME TypeOK, HoldInv, PhaseInv, ~single, NEW g \in Pickers,
           LeastPickPrimary(g) \/ LeastPickBackup(g), UNCHANGED <<key, tries, hashed>>
    PROVE  \E p \in Peers : Gives(g, p) /\ spends(g)
<1>1. PICK G \in {Primary, Backup} :
          /\ pickLeastFromGroup(g, G) /\ UNCHANGED <<now, backupPhase, started>>
          /\ pc[g] \in {"ready", "backup"}
          /\ backupPhase[g] <=> G = Backup /\ Backup # {}
  BY DEF LeastPickPrimary, LeastPickBackup, pickFromCurrentGroup, inBackupPhase, HoldInv,
         PhaseInv, Primary
<1> DEFINE tied == {p \in Selectable(g, G, now) :
                       equallyLoaded(p, leastScan(Selectable(g, G, now)).best)}
<1>2. PICK best \in Selectable(g, G, now) :
          /\ \/ best \in tied /\ smoothWeightedPeer(tied, best)
             \/ UNCHANGED weightVars
          /\ commitPeer(g, best, now)
  BY <1>1 DEF pickLeastFromGroup
<1>3. tied \in (SUBSET Primary) \cup (SUBSET Backup)
  BY DEF Selectable
<1>4. spends(g)
  BY SpendsNothing
<1>5. now' \in Nat /\ now <= now' /\ now' = now
  BY <1>1 DEF TypeOK
<1> HIDE DEF tied
<1>6. \/ UNCHANGED weightVars
      \/ \E E \in (SUBSET Primary) \cup (SUBSET Backup) : best \in E /\ smoothWeightedPeer(E, best)
  BY <1>2, <1>3
<1>7. best \in Selectable(g, G, now')
  BY <1>5
<1> QED
  BY <1>1, <1>2, <1>4, <1>5, <1>6, <1>7, GivesByCommit

\* The other steps of an upstream: those of RoundRobin, with what becomes of the key
\* and of the tries.  Only a request whose tries are used up leaves the primaries.
Settles(g) ==
    /\ PickPrimary(g) \/ PickBackup(g) \/ (\E outcome \in Outcomes : Done(g, outcome))
    /\ UNCHANGED <<key, tries, hashed>>
GivesUp(g) == giveUp(g) /\ mayTry(g) /\ UNCHANGED hashed
Leaves(g) ==
    /\ Finish(g) \/ BackupExhausted(g) \/ PrimaryExhausted(g)
    /\ pc'[g] = "backup" /\ drawsPrimary(g) => tries[g] > MaxTries
    /\ fieldsAfter(g)
Enters(g) == \E k \in Keys \cup {NoKey} : NewPickerForKey(g, k)
Passes == (Tick \/ UNCHANGED vars) /\ UNCHANGED <<key, tries, hashed>>

\* RRPicker.Pick, when the candidate loop leaves it to it.
LEMMA RRPickKinds ==
    ASSUME TypeOK, PhaseInv, NEW g \in Pickers, RRPick(g),
           drawsPrimary(g) => ~mayTry(g)
    PROVE  Settles(g) \/ Leaves(g)
<1>1. CASE PickPrimary(g) \/ PickBackup(g)
  <2>1. pc' = [pc EXCEPT ![g] = "busy"]
    BY <1>1 DEF PickPrimary, PickBackup, pickFromGroup, commitPeer, take
  <2>2. pc'[g] = "busy"
    BY <2>1 DEF TypeOK
  <2> QED
    BY <1>1, <2>2 DEF RRPick, fieldsAfter, Settles
<1>2. CASE PrimaryExhausted(g)
  <2>1. drawsPrimary(g) => tries[g] > MaxTries
    BY <1>2, CandidatesAssumption DEF PrimaryExhausted, mayTry, PhaseInv
  <2> QED
    BY <1>2, <2>1 DEF RRPick, Leaves
<1>3. CASE BackupExhausted(g)
  BY <1>3 DEF RRPick, Leaves, BackupExhausted, dismiss, TypeOK
<1> QED
  BY <1>1, <1>2, <1>3 DEF RRPick

\* Every step of one request, whatever the algorithm.
LEMMA BalancerKinds ==
    ASSUME TypeOK, HoldInv, PhaseInv, NEW g \in Pickers, BalancerStep(g)
    PROVE  \/ \E p \in Peers : Gives(g, p) /\ spends(g)
           \/ Settles(g) \/ GivesUp(g) \/ Leaves(g)
<1> DEFINE Kinds == \/ \E p \in Peers : Gives(g, p) /\ spends(g)
                    \/ Settles(g) \/ GivesUp(g) \/ Leaves(g)
<1>1. ASSUME CandidatesDone(g) PROVE Settles(g)
  BY <1>1 DEF CandidatesDone, pickerFields, Settles
<1>2. ASSUME NEW outcome \in Outcomes, Done(g, outcome), fieldsAfter(g) PROVE Settles(g)
  <2>1. pc'[g] = "ready"
    BY <1>2 DEF Done, TypeOK
  <2> QED
    BY <1>2, <2>1 DEF fieldsAfter, Settles
<1>3. CASE algo = "RoundRobin" /\ Step(g) /\ fieldsAfter(g)
  <2>1. ~drawsPrimary(g)
    BY <1>3 DEF drawsPrimary
  <2>2. RRPick(g) \/ \E outcome \in Outcomes : Done(g, outcome)
    BY <1>3 DEF Step, RRPick
  <2> QED
    BY <1>2, <1>3, <2>1, <2>2, RRPickKinds
<1>4. CASE algo = "LeastConn" /\ LeastStep(g) /\ fieldsAfter(g)
  <2>1. ~drawsPrimary(g)
    BY <1>4 DEF drawsPrimary
  <2>2. CASE RRPick(g)
    BY <2>1, <2>2, RRPickKinds
  <2>3. CASE \E outcome \in Outcomes : Done(g, outcome)
    BY <1>2, <1>4, <2>3
  <2>4. CASE LeastPickPrimary(g) \/ LeastPickBackup(g)
    <3>1. CASE single
      BY <1>4, <2>2, <2>4, <3>1
      DEF LeastPickPrimary, LeastPickBackup, pickFromCurrentGroup, PickPrimary, PickBackup, RRPick
    <3>2. CASE ~single
      <4>1. pc' = [pc EXCEPT ![g] = "busy"]
        BY <2>4, <3>2 DEF LeastPickPrimary, LeastPickBackup, pickFromCurrentGroup,
           pickLeastFromGroup, commitPeer, take
      <4>2. pc'[g] = "busy"
        BY <4>1 DEF TypeOK
      <4>3. UNCHANGED <<key, tries, hashed>>
        BY <1>4, <4>2 DEF fieldsAfter
      <4> QED
        BY <2>4, <3>2, <4>3, LeastGives
    <3> QED BY <3>1, <3>2
  <2> QED
    BY <1>4, <2>2, <2>3, <2>4 DEF LeastStep, RRPick
<1>5. CASE algo = "Random" /\ RandomStep(g)
  <2>1. ASSUME RandomFallsBack(g) PROVE Kinds
    BY <1>5, <2>1, RRPickKinds DEF RandomFallsBack, mayDraw, drawsPrimary
  <2>2. pickOneGivesUp(g) => GivesUp(g)
    BY DEF pickOneGivesUp, GivesUp, mayDraw
  <2> QED
    BY <1>1, <1>5, <2>1, <2>2, RandomGives DEF RandomStep
<1>6. CASE algo = "RandomTwo" /\ RandomTwoStep(g)
  <2>1. ASSUME RandomFallsBack(g) PROVE Kinds
    BY <1>6, <2>1, RRPickKinds DEF RandomFallsBack, mayDraw, drawsPrimary
  <2>2. pickTwoGivesUp(g) => GivesUp(g)
    BY DEF pickTwoGivesUp, GivesUp, mayDraw
  <2> QED
    BY <1>1, <1>6, <2>1, <2>2, RandomTwoGives DEF RandomTwoStep
<1>7. CASE algo = "IPHash" /\ IPHashStep(g)
  <2>1. ASSUME IPHashFallsBack(g) PROVE Kinds
    BY <1>7, <2>1, RRPickKinds DEF IPHashFallsBack, drawsPrimary
  <2>2. IPHashGivesUp(g) => GivesUp(g)
    BY DEF IPHashGivesUp, candidatesExhausted, GivesUp
  <2> QED
    BY <1>1, <1>7, <2>1, <2>2, HashesGive DEF IPHashStep
<1>8. CASE algo = "Hash" /\ HashStep(g)
  <2>1. ASSUME HashFallsBack(g) PROVE Kinds
    BY <1>8, <2>1, RRPickKinds DEF HashFallsBack, drawsPrimary
  <2>2. HashGivesUp(g) => GivesUp(g)
    BY DEF HashGivesUp, candidatesExhausted, GivesUp
  <2> QED
    BY <1>1, <1>8, <2>1, <2>2, HashesGive DEF HashStep
<1>9. CASE algo = "HashConsistent" /\ ChashStep(g)
  <2>1. ASSUME ChashFallsBack(g) PROVE Kinds
    BY <1>9, <2>1, RRPickKinds DEF ChashFallsBack, drawsPrimary
  <2>2. ChashGivesUp(g) => GivesUp(g)
    BY DEF ChashGivesUp, GivesUp
  <2> QED
    BY <1>1, <1>9, <2>1, <2>2, ChashGives DEF ChashStep
<1> QED
  BY <1>3, <1>4, <1>5, <1>6, <1>7, <1>8, <1>9 DEF BalancerStep

\* Every step of an upstream, whatever the algorithm.
LEMMA UpstreamKinds ==
    ASSUME TypeOK, HoldInv, PhaseInv, [BalancersNext]_balancersVars
    PROVE  /\ algo' = algo
           /\ \/ \E g \in Pickers, p \in Peers : Gives(g, p) /\ spends(g)
              \/ \E g \in Pickers : Settles(g) \/ GivesUp(g) \/ Leaves(g) \/ Enters(g)
              \/ Passes
<1> DEFINE Kinds == \/ \E g \in Pickers, p \in Peers : Gives(g, p) /\ spends(g)
                    \/ \E g \in Pickers : Settles(g) \/ GivesUp(g) \/ Leaves(g) \/ Enters(g)
                    \/ Passes
<1>1. ASSUME NEW g \in Pickers, BalancerStep(g)
      PROVE  Kinds
  BY <1>1, BalancerKinds
<1>2. ASSUME NEW g \in Pickers, newPicker(g)
      PROVE  Enters(g)
  BY <1>2 DEF newPicker, Enters
<1>3. ASSUME NEW g \in Pickers, CandidatesFinish(g)
      PROVE  Leaves(g)
  <2>1. pc'[g] = "none"
    BY <1>3 DEF CandidatesFinish, Finish, dismiss, TypeOK
  <2> QED
    BY <1>3, <2>1 DEF CandidatesFinish, Leaves
<1>4. ASSUME Environment PROVE Passes
  BY <1>4 DEF Environment, Idle, Passes, pickerFields
<1>5. ASSUME UNCHANGED balancersVars PROVE Passes
  BY <1>5 DEF balancersVars, allVars, pickerFields, Passes
<1>6. ASSUME NEW g \in Pickers, newPicker(g) \/ CandidatesFinish(g)
      PROVE  Kinds
  BY <1>2, <1>3, <1>6
<1>7. Kinds
  BY <1>1, <1>4, <1>5, <1>6 DEF BalancersNext
<1>8. algo' = algo
  BY DEF BalancersNext, BalancerStep, balancersVars
<1> QED
  BY <1>7, <1>8

\* All but the choice of a peer are steps of RoundRobin.
LEMMA OtherSteps ==
    ASSUME \/ \E g \in Pickers : Settles(g) \/ GivesUp(g) \/ Leaves(g) \/ Enters(g)
           \/ Passes
    PROVE  [Next]_vars
<1>1. ASSUME NEW g \in Pickers, Settles(g) PROVE Next
  BY <1>1 DEF Settles, Next, Step
<1>2. ASSUME NEW g \in Pickers, GivesUp(g) PROVE UNCHANGED vars
  BY <1>2 DEF GivesUp, giveUp
<1>3. ASSUME NEW g \in Pickers, Leaves(g) PROVE Next
  BY <1>3 DEF Leaves, Next, Step
<1>4. ASSUME NEW g \in Pickers, Enters(g) PROVE Next
  BY <1>4 DEF Enters, NewPickerForKey, Next
<1>5. ASSUME Passes PROVE [Next]_vars
  BY <1>5 DEF Passes, Next
<1> QED
  BY <1>1, <1>2, <1>3, <1>4, <1>5

-------------------------------------------------------------------------------
(* The inductive invariant. *)

\* BInv of BalancersSpec has the parts of the inductive invariant of RoundRobin that do
\* not depend on reading the clock once, and the phase.
BInv == TypeOK /\ HoldInv /\ Health /\ ConnInv /\ WeightsBalanced /\ PhaseInv

\* A request that is given a peer, by whichever rule, keeps the types.
LEMMA GivesType ==
    ASSUME TypeOK, NEW g \in Pickers, NEW p \in Peers, Gives(g, p)
    PROVE  TypeOK'
<1>1. /\ conns' \in [Peers -> Int]
      /\ tried' \in [Pickers -> SUBSET Peers]
      /\ pc' \in [Pickers -> {"none", "ready", "backup", "busy"}]
      /\ peerOf' \in [Pickers -> Peers \cup {NoPeer}]
      /\ picked' \in [Pickers -> SUBSET Peers]
      /\ pickedAt' \in [Pickers -> Nat]
      /\ probing' \in [Pickers -> BOOLEAN]
  BY TakeType DEF Gives
<1>2. /\ now' \in Nat
      /\ backupPhase' \in [Pickers -> BOOLEAN]
      /\ started' \in Nat
  BY DEF Gives, TypeOK
<1>3. /\ fails' \in [Peers -> Nat]
      /\ accessed' \in [Peers -> Nat]
      /\ checked' \in [Peers -> Nat]
      /\ checkedSeq' \in [Peers -> Nat]
      /\ probeChecked' \in [Pickers -> [Peers -> Entry]]
  <2>1. CASE UNCHANGED <<healthVars, probeChecked>>
    BY <2>1 DEF TypeOK, healthVars, Entry
  <2>2. CASE commitPeer(g, p, now)
    BY <2>2, CommitType
  <2> QED
    BY <2>1, <2>2 DEF Gives
<1>4. /\ currentWeight' \in [Peers -> Int]
      /\ effectiveWeight' \in [Peers -> Nat]
      /\ \A q \in Peers : effectiveWeight'[q] <= Weight(q)
  <2>1. CASE UNCHANGED weightVars
    BY <2>1 DEF TypeOK, weightVars
  <2>2. ASSUME NEW E \in (SUBSET Primary) \cup (SUBSET Backup), p \in E, smoothWeightedPeer(E, p)
        PROVE  /\ currentWeight' \in [Peers -> Int]
               /\ effectiveWeight' \in [Peers -> Nat]
               /\ \A q \in Peers : effectiveWeight'[q] <= Weight(q)
    <3>1. E \in SUBSET Peers
      BY DEF Primary, Backup
    <3> QED BY <2>2, <3>1, SmoothType
  <2> QED
    BY <2>1, <2>2 DEF Gives
<1> QED
  BY <1>1, <1>2, <1>3, <1>4 DEF TypeOK, Entry

\* And the rest of what RoundRobin guarantees.
LEMMA GivesKeeps ==
    ASSUME TypeOK, HoldInv, Health, ConnInv, WeightsBalanced,
           NEW g \in Pickers, NEW p \in Peers, Gives(g, p)
    PROVE  HoldInv' /\ Health' /\ ConnInv' /\ WeightsBalanced'
<1>1. pc[g] # "busy" /\ take(g, p) /\ HasRoom(p) /\ now' \in Nat /\ now <= now'
  BY DEF Gives
<1>2. HoldInv'
  BY <1>1, TakeHold DEF Gives
<1>3. ConnInv'
  BY <1>1, TakeConn
<1>4. WeightsBalanced'
  <2>1. CASE UNCHANGED weightVars
    BY <2>1 DEF weightVars, WeightsBalanced
  <2>2. ASSUME NEW E \in (SUBSET Primary) \cup (SUBSET Backup), p \in E, smoothWeightedPeer(E, p)
        PROVE  WeightsBalanced'
    BY <2>2, RoundBalanced
  <2> QED
    BY <2>1, <2>2 DEF Gives
<1>5. CASE ~single
  BY <1>1, <1>2, <1>3, <1>4, <1>5, HealthCommit DEF Gives
<1>6. CASE single
  <2>1. /\ UNCHANGED <<accessed, checked, checkedSeq>>
        /\ \A h \in Pickers, q \in Peers : probeChecked'[h][q] = probeChecked[h][q]
    BY <1>6 DEF Gives, healthVars
  <2>2. Health'
    BY <1>1, <1>6, <2>1, HealthQuiet
  <2> QED
    BY <1>2, <1>3, <1>4, <2>2
<1> QED
  BY <1>5, <1>6

\* Every step keeps the phases of the requests apart.
LEMMA PhaseStep ==
    ASSUME TypeOK, HoldInv, PhaseInv, [BalancersNext]_balancersVars
    PROVE  PhaseInv'
<1>0. algo' = algo /\ MaxTries \in Nat
  BY UpstreamKinds, CandidatesAssumption
<1> USE DEF drawsPrimary, hashUsesKey, usesRing
<1>1. ASSUME NEW g \in Pickers, NEW p \in Peers, take(g, p), UNCHANGED backupPhase, spends(g)
      PROVE  PhaseInv'
  <2>1. /\ tried' = [tried EXCEPT ![g] = @ \cup {p}]
        /\ picked' = [picked EXCEPT ![g] = @ \cup {p}]
        /\ pc' = [pc EXCEPT ![g] = "busy"]
    BY <1>1 DEF take
  <2>2. key' = key /\ tries' \in [Pickers -> Nat] /\ \A h \in Pickers : tries'[h] >= tries[h]
    BY <1>1 DEF spends, PhaseInv
  <2>3. \A h \in Pickers : pc'[h] = "none" => pc[h] = "none"
    BY <2>1 DEF TypeOK
  <2>4. \A h \in Pickers : tried'[h] \subseteq picked'[h]
    BY <2>1 DEF TypeOK, PhaseInv
  <2> QED
    BY <1>0, <1>1, <2>2, <2>3, <2>4 DEF PhaseInv
<1>2. ASSUME NEW g \in Pickers, Settles(g)
      PROVE  PhaseInv'
  <2>1. CASE \E outcome \in Outcomes : Done(g, outcome)
    <3>1. pc' = [pc EXCEPT ![g] = "ready"] /\ UNCHANGED <<tried, backupPhase, picked, key, tries>>
      BY <1>2, <2>1 DEF Settles, Done
    <3>2. \A h \in Pickers : pc'[h] = "none" => pc[h] = "none"
      BY <3>1 DEF TypeOK
    <3> QED
      BY <1>0, <3>1, <3>2 DEF PhaseInv
  <2>2. CASE PickPrimary(g) \/ PickBackup(g)
    <3>1. PICK p \in Peers : take(g, p) /\ UNCHANGED backupPhase
      BY <2>2, PickCases
    <3>2. spends(g)
      BY <1>2, SpendsNothing DEF Settles
    <3> QED
      BY <1>1, <3>1, <3>2
  <2> QED
    BY <1>2, <2>1, <2>2 DEF Settles
<1>3. ASSUME NEW g \in Pickers, GivesUp(g)
      PROVE  PhaseInv'
  <2>1. UNCHANGED <<pc, tried, backupPhase, picked, key>>
    BY <1>3 DEF GivesUp, giveUp, vars, auxVars
  <2>2. tries' \in [Pickers -> Nat] /\ \A h \in Pickers : tries'[h] >= tries[h]
    BY <1>0, <1>3 DEF GivesUp, giveUp, mayTry, PhaseInv
  <2> QED
    BY <1>0, <2>1, <2>2 DEF PhaseInv
<1>4. ASSUME NEW g \in Pickers, Leaves(g)
      PROVE  PhaseInv'
  <2>1. CASE dismiss(g)
    <3>1. /\ \A h \in Pickers : backupPhase'[h] => backupPhase[h] /\ h # g
          /\ \A h \in Pickers : tried'[h] \subseteq picked'[h]
          /\ \A h \in Pickers : pc'[h] = "none" => ~backupPhase'[h]
          /\ pc'[g] = "none"
      BY <2>1 DEF dismiss, PhaseInv, TypeOK
    <3>2. /\ tries' \in [Pickers -> Nat]
          /\ key' \in [Pickers -> Keys \cup {NoKey}]
          /\ \A h \in Pickers \ {g} : tries'[h] = tries[h] /\ key'[h] = key[h]
      BY <1>4, <3>1 DEF Leaves, fieldsAfter, PhaseInv
    <3> QED
      BY <1>0, <3>1, <3>2 DEF PhaseInv
  <2>2. CASE ~dismiss(g)
    <3>1. /\ PrimaryExhausted(g) /\ Backup # {}
          /\ pc' = [pc EXCEPT ![g] = "backup"]
          /\ backupPhase' = [backupPhase EXCEPT ![g] = TRUE]
          /\ tried' = [tried EXCEPT ![g] = @ \ Backup] /\ picked' = picked
      BY <1>4, <2>2 DEF Leaves, Finish, BackupExhausted, PrimaryExhausted, auxVars
    <3>2. pc'[g] = "backup" /\ \A h \in Pickers \ {g} : pc'[h] = pc[h]
      BY <3>1 DEF TypeOK
    <3>3. UNCHANGED <<key, tries>>
      BY <1>4, <3>2 DEF Leaves, fieldsAfter
    <3>4. \A h \in Pickers : tried'[h] \subseteq picked'[h]
      BY <3>1 DEF PhaseInv, TypeOK
    <3>5. \A h \in Pickers : backupPhase'[h] <=> backupPhase[h] \/ h = g
      BY <3>1 DEF TypeOK
    <3> QED
      BY <1>0, <1>4, <3>1, <3>2, <3>3, <3>4, <3>5 DEF PhaseInv, Leaves
  <2> QED BY <2>1, <2>2
<1>5. ASSUME NEW g \in Pickers, Enters(g)
      PROVE  PhaseInv'
  <2>1. PICK k \in Keys \cup {NoKey} : NewPickerForKey(g, k)
    BY <1>5 DEF Enters
  <2>2. /\ UNCHANGED <<tried, backupPhase, picked, tries>>
        /\ pc[g] = "none" /\ pc' = [pc EXCEPT ![g] = "ready"]
        /\ key' = [key EXCEPT ![g] = k]
    BY <2>1 DEF NewPickerForKey, NewPicker, auxVars
  <2>3. /\ key' \in [Pickers -> Keys \cup {NoKey}] /\ \A h \in Pickers \ {g} : key'[h] = key[h]
        /\ \A h \in Pickers : pc'[h] = "none" => pc[h] = "none"
    BY <2>2 DEF PhaseInv, TypeOK
  <2> QED
    BY <1>0, <2>2, <2>3 DEF PhaseInv
<1>6. CASE Passes
  BY <1>0, <1>6 DEF PhaseInv, Passes, Tick, vars, auxVars
<1> QED
  BY <1>1, <1>2, <1>3, <1>4, <1>5, <1>6, UpstreamKinds DEF Gives

\* BInv holds initially and is kept by every step.
THEOREM UpstreamInvariance == BalancersSpec => []BInv
<1>1. BalancersInit => BInv
  <2> SUFFICES ASSUME BalancersInit PROVE BInv
    OBVIOUS
  <2>1. Init
    BY DEF BalancersInit, CandidatesInit
  <2>2. TypeOK /\ HoldInv /\ Health /\ ConnInv /\ WeightsBalanced
    BY <2>1, InitInv, ConnInit, CreditInit DEF Inv, Recovery
  <2>3. PhaseInv
    BY <2>1 DEF BalancersInit, CandidatesInit, Init, PhaseInv
  <2> QED
    BY <2>2, <2>3 DEF BInv
<1>2. ASSUME BInv, [BalancersNext]_balancersVars PROVE BInv'
  <2>1. PhaseInv'
    BY <1>2, PhaseStep DEF BInv
  <2>2. ASSUME NEW g \in Pickers, NEW p \in Peers, Gives(g, p)
        PROVE  TypeOK' /\ HoldInv' /\ Health' /\ ConnInv' /\ WeightsBalanced'
    BY <1>2, <2>2, GivesType, GivesKeeps DEF BInv
  <2>3. ASSUME [Next]_vars
        PROVE  TypeOK' /\ HoldInv' /\ Health' /\ ConnInv' /\ WeightsBalanced'
    BY <1>2, <2>3, TypeStep, HoldStep, HealthStep, ConnStep, CreditStep DEF BInv
  <2> QED
    BY <1>2, <2>1, <2>2, <2>3, UpstreamKinds, OtherSteps DEF BInv
<1> QED
  BY <1>1, <1>2, PTL DEF BalancersSpec

-------------------------------------------------------------------------------
(* The budget of the candidate loops. *)

\* A hash value is computed for each candidate that is rejected and for each peer the
\* request gets from the loop, and no more than MaxTries + 1 candidates are rejected.
Budget ==
    /\ hashed \in [Pickers -> Nat]
    /\ fallingBack \in [Pickers -> BOOLEAN]
    /\ \A g \in Pickers : /\ tries[g] <= MaxTries + 1
                          /\ hashed[g] <= tries[g] + Cardinality(picked[g])

\* The peers a request was given are a finite set, no larger than the pool.
LEMMA PickedBound ==
    ASSUME TypeOK, NEW g \in Pickers
    PROVE  /\ IsFiniteSet(picked[g]) /\ Cardinality(picked[g]) \in Nat
           /\ Cardinality(picked[g]) <= NPeers
<1>1. NPeers \in Nat /\ IsFiniteSet(Peers) /\ Cardinality(Peers) = NPeers
  BY ServersAssumption, FS_Interval DEF Peers
<1>2. picked[g] \subseteq Peers
  BY DEF TypeOK
<1> QED
  BY <1>1, <1>2, FS_Subset, FS_CardinalityType

\* What a step does to the counters of one request, while those of the others stay.
LEMMA BudgetOf ==
    ASSUME TypeOK, PhaseInv, PhaseInv', Budget, fallingBack' \in [Pickers -> BOOLEAN],
           NEW g \in Pickers, NEW t \in Nat, NEW h \in Nat, NEW P,
           tries' = [tries EXCEPT ![g] = t], hashed' = [hashed EXCEPT ![g] = h],
           picked' = [picked EXCEPT ![g] = P],
           t <= MaxTries + 1, h <= t + Cardinality(P)
    PROVE  Budget'
<1>1. hashed' \in [Pickers -> Nat]
  BY DEF Budget
<1>2. ASSUME NEW k \in Pickers
      PROVE  tries'[k] <= MaxTries + 1 /\ hashed'[k] <= tries'[k] + Cardinality(picked'[k])
  <2>1. CASE k = g
    BY <2>1 DEF Budget, PhaseInv, TypeOK
  <2>2. CASE k # g
    <3>1. tries'[k] = tries[k] /\ hashed'[k] = hashed[k] /\ picked'[k] = picked[k]
      BY <2>2 DEF Budget, PhaseInv, TypeOK
    <3> QED BY <3>1 DEF Budget
  <2> QED BY <2>1, <2>2
<1> QED
  BY <1>1, <1>2 DEF Budget

\* A request that is given a peer, by whichever rule.
LEMMA BudgetTake ==
    ASSUME TypeOK, HoldInv, PhaseInv, PhaseInv', Budget, fallingBack' \in [Pickers -> BOOLEAN],
           NEW g \in Pickers, NEW p \in Peers, take(g, p), spends(g),
           p \notin tried[g], p \in Backup <=> backupPhase[g]
    PROVE  Budget'
<1>1. PICK n \in Nat : /\ tries' = [tries EXCEPT ![g] = @ + n]
                       /\ n > 0 => tries[g] + n <= MaxTries
                       /\ \/ hashed' = hashed
                          \/ tries[g] <= MaxTries /\ hashed' = [hashed EXCEPT ![g] = @ + n + 1]
  BY DEF spends
<1>2. /\ tries[g] \in Nat /\ tries[g] <= MaxTries + 1 /\ MaxTries \in Nat
      /\ hashed[g] \in Nat /\ hashed[g] <= tries[g] + Cardinality(picked[g])
  BY CandidatesAssumption DEF Budget, PhaseInv
<1>3. tries[g] + n \in Nat /\ tries[g] + n <= MaxTries + 1
  BY <1>1, <1>2
<1>4. p \notin picked[g]
  BY DEF HoldInv
<1>5. /\ Cardinality(picked[g]) \in Nat
      /\ Cardinality(picked[g] \cup {p}) = Cardinality(picked[g]) + 1
  BY <1>4, PickedBound, FS_AddElement
<1>6. picked' = [picked EXCEPT ![g] = picked[g] \cup {p}]
  BY DEF take
<1>7. tries' = [tries EXCEPT ![g] = tries[g] + n]
  BY <1>1
<1>8. CASE hashed' = hashed
  <2>1. hashed' = [hashed EXCEPT ![g] = hashed[g]]
    BY <1>8 DEF Budget
  <2>2. hashed[g] <= (tries[g] + n) + Cardinality(picked[g] \cup {p})
    BY <1>2, <1>5
  <2> QED
    BY <1>2, <1>3, <1>6, <1>7, <2>1, <2>2, BudgetOf
<1>9. CASE hashed' = [hashed EXCEPT ![g] = @ + n + 1]
  <2>1. hashed' = [hashed EXCEPT ![g] = hashed[g] + n + 1]
    BY <1>9
  <2>2. /\ hashed[g] + n + 1 \in Nat
        /\ hashed[g] + n + 1 <= (tries[g] + n) + Cardinality(picked[g] \cup {p})
    BY <1>2, <1>5
  <2> QED
    BY <1>3, <1>6, <1>7, <2>1, <2>2, BudgetOf
<1> QED
  BY <1>1, <1>8, <1>9

\* The flag of a Pick whose loop gave up stays a flag.
LEMMA FallingBackType ==
    ASSUME Budget, [BalancersNext]_balancersVars
    PROVE  fallingBack' \in [Pickers -> BOOLEAN]
<1>1. ASSUME NEW g \in Pickers, fieldsAfter(g) \/ giveUp(g) PROVE fallingBack' \in [Pickers -> BOOLEAN]
  BY <1>1 DEF Budget, fieldsAfter, giveUp
<1>2. ASSUME UNCHANGED fallingBack PROVE fallingBack' \in [Pickers -> BOOLEAN]
  BY <1>2 DEF Budget
<1>3. ASSUME NEW g \in Pickers, BalancerStep(g)
      PROVE  fieldsAfter(g) \/ giveUp(g) \/ UNCHANGED fallingBack
  <2>1. CandidatesDone(g) => UNCHANGED fallingBack
    BY DEF CandidatesDone, pickerFields
  <2>2. CASE algo = "Random" /\ RandomStep(g)
    BY <2>1, <2>2 DEF RandomStep, RandomFallsBack, RRPick, pickOneGivesUp, pickOne, commitCandidate
  <2>3. CASE algo = "RandomTwo" /\ RandomTwoStep(g)
    BY <2>1, <2>3 DEF RandomTwoStep, RandomFallsBack, RRPick, pickTwoGivesUp, pickTwo, commitCandidate
  <2>4. CASE algo = "IPHash" /\ IPHashStep(g)
    BY <2>1, <2>4 DEF IPHashStep, IPHashFallsBack, RRPick, IPHashGivesUp, candidatesExhausted,
                      IPHashPick, tryCandidates, commitCandidate
  <2>5. CASE algo = "Hash" /\ HashStep(g)
    BY <2>1, <2>5 DEF HashStep, HashFallsBack, RRPick, HashGivesUp, candidatesExhausted,
                      HashPick, tryCandidates, commitCandidate
  <2>6. CASE algo = "HashConsistent" /\ ChashStep(g)
    BY <2>1, <2>6 DEF ChashStep, ChashFallsBack, RRPick, ChashGivesUp, ChashPick, commitCandidate
  <2> QED
    BY <1>3, <2>2, <2>3, <2>4, <2>5, <2>6 DEF BalancerStep
<1>4. ASSUME NEW g \in Pickers, newPicker(g) \/ CandidatesFinish(g)
      PROVE  fieldsAfter(g) \/ UNCHANGED fallingBack
  BY <1>4 DEF newPicker, NewPickerForKey, CandidatesFinish
<1>5. Environment \/ UNCHANGED balancersVars => UNCHANGED fallingBack
  BY DEF Environment, pickerFields, balancersVars, allVars
<1> QED
  BY <1>1, <1>2, <1>3, <1>4, <1>5 DEF BalancersNext

\* Every step keeps within the budget.
LEMMA BudgetStep ==
    ASSUME BInv, BInv', Budget, [BalancersNext]_balancersVars
    PROVE  Budget'
<1>0. /\ TypeOK /\ HoldInv /\ PhaseInv /\ PhaseInv' /\ MaxTries \in Nat
      /\ fallingBack' \in [Pickers -> BOOLEAN]
  BY FallingBackType, CandidatesAssumption DEF BInv
<1>1. ASSUME NEW g \in Pickers, NEW p \in Peers, Gives(g, p), spends(g) PROVE Budget'
  BY <1>0, <1>1, BudgetTake DEF Gives
<1>2. ASSUME UNCHANGED <<tries, hashed, picked>> PROVE Budget'
  BY <1>0, <1>2 DEF Budget
<1>3. ASSUME NEW g \in Pickers, Settles(g) PROVE Budget'
  <2>1. CASE \E outcome \in Outcomes : Done(g, outcome)
    BY <1>2, <1>3, <2>1 DEF Settles, Done
  <2>2. CASE PickPrimary(g) \/ PickBackup(g)
    <3>1. PICK p \in Peers : p \notin tried[g] /\ (p \in Backup <=> backupPhase[g]) /\ take(g, p)
      BY <1>0, <2>2, PickCases
    <3>2. spends(g)
      BY <1>0, <1>3, SpendsNothing DEF Settles
    <3> QED
      BY <1>0, <3>1, <3>2, BudgetTake
  <2> QED
    BY <1>3, <2>1, <2>2 DEF Settles
<1>4. ASSUME NEW g \in Pickers, GivesUp(g) PROVE Budget'
  <2>1. /\ tries[g] \in Nat /\ tries[g] <= MaxTries
        /\ hashed[g] \in Nat /\ hashed[g] <= tries[g] + Cardinality(picked[g])
        /\ Cardinality(picked[g]) \in Nat
    BY <1>0, <1>4, PickedBound DEF GivesUp, mayTry, Budget, PhaseInv
  <2>2. /\ tries' = [tries EXCEPT ![g] = MaxTries + 1]
        /\ hashed' = [hashed EXCEPT ![g] = hashed[g]]
        /\ picked' = [picked EXCEPT ![g] = picked[g]]
    BY <1>0, <1>4 DEF GivesUp, giveUp, vars, auxVars, Budget, TypeOK
  <2>3. /\ MaxTries + 1 \in Nat /\ MaxTries + 1 <= MaxTries + 1
        /\ hashed[g] <= (MaxTries + 1) + Cardinality(picked[g])
    BY <1>0, <2>1
  <2> QED
    BY <1>0, <2>1, <2>2, <2>3, BudgetOf
<1>5. ASSUME NEW g \in Pickers, Leaves(g) PROVE Budget'
  <2>1. CASE dismiss(g)
    <3>1. pc'[g] = "none" /\ picked' = [picked EXCEPT ![g] = {}]
      BY <1>0, <2>1 DEF dismiss, TypeOK
    <3>2. tries' = [tries EXCEPT ![g] = 0] /\ hashed' = [hashed EXCEPT ![g] = 0]
      BY <1>5, <3>1 DEF Leaves, fieldsAfter
    <3>3. 0 <= 0 + Cardinality({}) /\ 0 <= MaxTries + 1
      BY <1>0, FS_EmptySet
    <3> QED
      BY <1>0, <3>1, <3>2, <3>3, BudgetOf
  <2>2. CASE ~dismiss(g)
    <3>1. pc' = [pc EXCEPT ![g] = "backup"] /\ picked' = picked
      BY <1>5, <2>2 DEF Leaves, Finish, BackupExhausted, PrimaryExhausted, auxVars
    <3>2. pc'[g] = "backup"
      BY <1>0, <3>1 DEF TypeOK
    <3>3. UNCHANGED <<tries, hashed>>
      BY <1>5, <3>2 DEF Leaves, fieldsAfter
    <3> QED
      BY <1>2, <3>1, <3>3
  <2> QED BY <2>1, <2>2
<1>6. ASSUME NEW g \in Pickers, Enters(g) PROVE Budget'
  BY <1>2, <1>6 DEF Enters, NewPickerForKey, NewPicker, auxVars
<1>7. CASE Passes
  BY <1>2, <1>7 DEF Passes, Tick, vars, auxVars
<1> QED
  BY <1>0, <1>1, <1>3, <1>4, <1>5, <1>6, <1>7, UpstreamKinds

\* Whatever the algorithm, no request has more than MaxTries + 1 candidates rejected,
\* over all of its Picks, and none has more hash values computed than those and one
\* for each of the peers: the loops look up no candidate beyond the first MaxHashes
\* (the tries and the hash of the picker structs, which outlive a Pick).
THEOREM UpstreamBudget == BalancersSpec => []CandidatesTypeOK
<1>1. BalancersInit => Budget
  <2> SUFFICES ASSUME BalancersInit PROVE Budget
    OBVIOUS
  <2>1. /\ tries = [g \in Pickers |-> 0] /\ hashed = [g \in Pickers |-> 0]
        /\ picked = [g \in Pickers |-> {}] /\ fallingBack = [g \in Pickers |-> FALSE]
    BY DEF BalancersInit, CandidatesInit, Init
  <2> QED
    BY <2>1, FS_EmptySet, CandidatesAssumption DEF Budget
<1>2. BInv /\ BInv' /\ Budget /\ [BalancersNext]_balancersVars => Budget'
  BY BudgetStep
<1>3. ASSUME BInv, Budget PROVE CandidatesTypeOK
  <2>1. TypeOK /\ PhaseInv /\ MaxTries \in Nat /\ NPeers \in Nat
    BY <1>3, CandidatesAssumption, ServersAssumption DEF BInv
  <2>2. tries \in [Pickers -> 0 .. MaxTries + 1]
    <3>1. \A g \in Pickers : tries[g] \in 0 .. MaxTries + 1
      BY <1>3, <2>1 DEF Budget, PhaseInv
    <3> QED
      BY <2>1, <3>1 DEF PhaseInv
  <2>3. hashed \in [Pickers -> 0 .. MaxHashes]
    <3>1. ASSUME NEW g \in Pickers PROVE hashed[g] \in 0 .. MaxHashes
      <4>1. /\ hashed[g] \in Nat /\ tries[g] \in Nat /\ tries[g] <= MaxTries + 1
            /\ hashed[g] <= tries[g] + Cardinality(picked[g])
        BY <1>3, <2>1 DEF Budget, PhaseInv
      <4>2. Cardinality(picked[g]) \in Nat /\ Cardinality(picked[g]) <= NPeers
        BY <2>1, PickedBound
      <4> QED
        BY <2>1, <4>1, <4>2 DEF MaxHashes
    <3> QED
      BY <1>3, <3>1 DEF Budget
  <2> QED
    BY <1>3, <2>1, <2>2, <2>3 DEF CandidatesTypeOK, Budget, PhaseInv
<1> QED
  BY UpstreamInvariance, <1>1, <1>2, <1>3, PTL DEF BalancersSpec

-------------------------------------------------------------------------------
(* What every algorithm guarantees. *)

\* Whatever the algorithm, the connection count of a peer is the number of requests
\* that hold it (commitPeer, done).
THEOREM UpstreamConnsExact == BalancersSpec => []ConnsMatchHolders
<1>1. BInv => ConnsMatchHolders
  BY DEF BInv, ConnInv
<1> QED
  BY UpstreamInvariance, <1>1, PTL

\* Whatever the algorithm, no interleaving of picks takes a peer beyond max_conns
\* (peerAvailable and commitPeer in one critical section).
THEOREM UpstreamMaxConns == BalancersSpec => []MaxConnsRespected
<1>1. BInv => MaxConnsRespected
  BY DEF BInv, ConnInv, ConnsMatchHolders, MaxConnsRespected
<1> QED
  BY UpstreamInvariance, <1>1, PTL

\* Whatever the algorithm, a tie broken by smooth weighted round-robin moves credit
\* within one group only: the current weights of each group add up to zero
\* (smoothWeightedPeer, called on the tied peers or on those of one server).
THEOREM UpstreamCredit == BalancersSpec => []WeightsBalanced
<1>1. BInv => WeightsBalanced
  BY DEF BInv
<1> QED
  BY UpstreamInvariance, <1>1, PTL

\* Whatever the algorithm, and although a candidate loop reads the clock twice, a
\* suspended peer failed, or was given to a request that still holds it, at most
\* fail_timeout ago (commitPeer; done, neutral branch).
THEOREM UpstreamQuarantineExplained == BalancersSpec => []NoOrphanQuarantine
<1>1. BInv => NoOrphanQuarantine
  BY Explained DEF BInv
<1> QED
  BY UpstreamInvariance, <1>1, PTL

\* Every algorithm implements Picker: no peer twice for a request, none that is down
\* or full, and no candidate loop leads back from the backups to the primaries.
THEOREM UpstreamRefinesPicker == BalancersSpec => ImplementsPicker
<1>1. BalancersInit => Contract!PickerInit
  BY DEF BalancersInit, CandidatesInit, Init, Contract!PickerInit
<1>2. ASSUME BInv, [BalancersNext]_balancersVars
      PROVE  [Contract!PickerNext]_Contract!pickerVars
  <2>1. ASSUME NEW g \in Pickers, NEW p \in Peers, Gives(g, p)
        PROVE  Contract!PickerNext
    <3>1. pc[g] # "busy"
      BY <2>1 DEF Gives
    <3> QED
      BY <1>2, <2>1, <3>1, TakeContract DEF BInv, Gives
  <2>2. ASSUME [Next]_vars
        PROVE  [Contract!PickerNext]_Contract!pickerVars
    BY <1>2, <2>2, ContractStep DEF BInv
  <2> QED
    BY <1>2, <2>1, <2>2, UpstreamKinds, OtherSteps DEF BInv
<1> QED
  BY UpstreamInvariance, <1>1, <1>2, PTL
  DEF BalancersSpec, ImplementsPicker, Contract!PickerSpec

\* What is known of a peer that a request is given.
LEMMA UpstreamPick ==
    ASSUME BInv, [BalancersNext]_balancersVars,
           NEW g \in Pickers, NEW p \in Peers, Picks(g, p)
    PROVE  /\ p \in Backup <=> backupPhase[g]
           /\ now' \in Nat
           /\ ~single => ~Quarantined(p, now')
<1>1. ASSUME NEW h \in Pickers, NEW q \in Peers, Gives(h, q)
      PROVE  h = g /\ q = p
  BY <1>1 DEF Gives, take, Picks, BInv, TypeOK
<1>2. ASSUME [Next]_vars
      PROVE  /\ p \in Backup <=> backupPhase[g]
             /\ now' \in Nat
             /\ ~single => ~Quarantined(p, now')
  <2>1. PickPrimary(g) \/ PickBackup(g)
    BY <1>2, PicksOnly DEF BInv
  <2>2. PICK q \in Peers : /\ take(g, q) /\ now' = now /\ (q \in Backup <=> backupPhase[g])
                           /\ ~single => ~Quarantined(q, now)
    BY <2>1, PickCases DEF BInv
  <2>3. q = p /\ now \in Nat
    BY <2>2 DEF take, Picks, BInv, TypeOK
  <2> QED
    BY <2>2, <2>3
<1>3. CASE \E h \in Pickers, q \in Peers : Gives(h, q)
  BY <1>1, <1>3 DEF Gives
<1> QED
  BY <1>2, <1>3, UpstreamKinds, OtherSteps DEF BInv

\* Whatever the algorithm, no peer is used at most fail_timeout after the last of
\* max_fails failures, by the clock reading that let it in (peerAvailable).
THEOREM UpstreamSuspension == BalancersSpec => SuspensionHonoured
<1>1. ASSUME BInv, [BalancersNext]_balancersVars, NEW g \in Pickers, NEW p \in Peers,
             Picks(g, p), ~single, MaxFails(p) > 0, fails[p] >= MaxFails(p)
      PROVE  now' - accessed[p] > FailTimeout(p)
  <2>1. ~Quarantined(p, now') /\ now' \in Nat
    BY <1>1, UpstreamPick
  <2>2. /\ checked[p] \in Nat /\ accessed[p] \in Nat
        /\ FailTimeout(p) \in Nat /\ accessed[p] <= checked[p]
    BY <1>1, ConfigTypes DEF BInv, TypeOK, Health, HealthInv
  <2> QED
    BY <1>1, <2>1, <2>2 DEF Quarantined
<1>2. BInv /\ [BalancersNext]_balancersVars =>
        [\A g \in Pickers, p \in Peers :
            Picks(g, p) /\ ~single /\ MaxFails(p) > 0 /\ fails[p] >= MaxFails(p)
            => now' - accessed[p] > FailTimeout(p)]_vars
  BY <1>1
<1> QED
  BY UpstreamInvariance, <1>2, PTL DEF BalancersSpec, SuspensionHonoured

\* Whatever the algorithm, a request turns to the backups only when no primary can
\* be used, and is given a backup only then (pickWithBackup).
THEOREM UpstreamBackupsLast == BalancersSpec => BackupsLast
<1> DEFINE last(g) ==
        /\ ~backupPhase[g] /\ backupPhase'[g]
           => \A p \in Primary : \/ p \in picked[g] \/ Down(p)
                                 \/ Quarantined(p, now) \/ ~HasRoom(p)
        /\ \A p \in Backup : Picks(g, p) => backupPhase[g]
<1>1. ASSUME BInv, [BalancersNext]_balancersVars, NEW g \in Pickers PROVE last(g)
  <2>1. \A p \in Backup : Picks(g, p) => backupPhase[g]
    BY <1>1, UpstreamPick DEF Backup
  <2>2. ASSUME ~backupPhase[g], backupPhase'[g]
        PROVE  \A p \in Primary : \/ p \in picked[g] \/ Down(p)
                                  \/ Quarantined(p, now) \/ ~HasRoom(p)
    <3>1. PrimaryExhausted(g)
      <4>1. ASSUME NEW h \in Pickers, Settles(h) \/ GivesUp(h) \/ Enters(h)
            PROVE  backupPhase' = backupPhase
        BY <4>1 DEF Settles, PickPrimary, PickBackup, Done, GivesUp, giveUp, vars, Enters,
                    NewPickerForKey, NewPicker
      <4>2. Passes => backupPhase' = backupPhase
        BY DEF Passes, Tick, vars
      <4>3. ASSUME NEW h \in Pickers, NEW p \in Peers, Gives(h, p)
            PROVE  backupPhase' = backupPhase
        BY <4>3 DEF Gives
      <4>4. ASSUME NEW h \in Pickers, dismiss(h) PROVE FALSE
        BY <1>1, <2>2, <4>4 DEF dismiss, BInv, TypeOK
      <4>5. PICK h \in Pickers : Leaves(h)
        BY <1>1, <2>2, <4>1, <4>2, <4>3, UpstreamKinds DEF BInv
      <4>6. PrimaryExhausted(h) /\ backupPhase' = [backupPhase EXCEPT ![h] = TRUE]
        BY <4>4, <4>5 DEF Leaves, Finish, BackupExhausted, PrimaryExhausted
      <4>7. h = g
        BY <1>1, <2>2, <4>6 DEF BInv, TypeOK
      <4> QED
        BY <4>6, <4>7
    <3>2. Selectable(g, Primary, now) = {} /\ tried[g] \subseteq picked[g] /\ Backup # {}
      BY <1>1, <2>2, <3>1 DEF PrimaryExhausted, BInv, PhaseInv, dismiss, TypeOK
    <3>3. ~single
      BY <3>2 DEF single
    <3> QED
      BY <3>2, <3>3 DEF Selectable, peerAvailable
  <2> QED
    BY <2>1, <2>2
<1>2. BInv /\ [BalancersNext]_balancersVars => [\A g \in Pickers : last(g)]_vars
  BY <1>1
<1> QED
  BY UpstreamInvariance, <1>2, PTL DEF BalancersSpec, BackupsLast

-------------------------------------------------------------------------------
(* What an algorithm is there for. *)

\* The step in which a request is given a peer is one of its own critical sections.
LEMMA PicksOwn ==
    ASSUME BInv, [BalancersNext]_balancersVars,
           NEW g \in Pickers, NEW p \in Peers, Picks(g, p)
    PROVE  /\ BalancerStep(g)
           /\ ~CandidatesDone(g)
           /\ ~giveUp(g)
<1>1. \A h \in Pickers : CandidatesDone(h) => ~Picks(g, p)
  BY DEF CandidatesDone, Done, Picks, BInv, TypeOK
<1>2. \A h \in Pickers : giveUp(h) => ~Picks(g, p)
  BY DEF giveUp, vars, Picks
<1>3. ~\E h \in Pickers : newPicker(h) \/ CandidatesFinish(h)
  <2>1. ASSUME NEW h \in Pickers, newPicker(h) PROVE FALSE
    BY <2>1 DEF newPicker, NewPickerForKey, NewPicker, Picks, BInv, TypeOK
  <2>2. ASSUME NEW h \in Pickers, CandidatesFinish(h) PROVE FALSE
    BY <2>2 DEF CandidatesFinish, Finish, dismiss, Picks, BInv, TypeOK
  <2> QED BY <2>1, <2>2
<1>4. ~Environment /\ ~UNCHANGED balancersVars
  BY DEF Environment, Tick, Idle, balancersVars, allVars, vars, Picks
<1>5. PICK h \in Pickers : BalancerStep(h)
  BY <1>3, <1>4 DEF BalancersNext
<1>6. h = g
  <2>1. CASE \E q \in Peers : Gives(h, q)
    BY <2>1 DEF Gives, take, Picks, BInv, TypeOK
  <2>2. CASE Settles(h)
    <3>1. ~\E outcome \in Outcomes : Done(h, outcome)
      BY DEF Done, Picks, BInv, TypeOK
    <3>2. PICK q \in Peers : take(h, q)
      BY <2>2, <3>1, PickCases DEF Settles, BInv
    <3> QED
      BY <3>2 DEF take, Picks, BInv, TypeOK
  <2>3. CASE GivesUp(h)
    BY <1>2, <2>3 DEF GivesUp
  <2>4. CASE Leaves(h)
    <3>1. CASE dismiss(h)
      BY <3>1 DEF dismiss, Picks, BInv, TypeOK
    <3>2. CASE ~dismiss(h)
      BY <2>4, <3>2, DismissCases DEF Leaves, Picks, BInv, TypeOK
    <3> QED BY <3>1, <3>2
  <2> QED
    BY <1>5, <2>1, <2>2, <2>3, <2>4, BalancerKinds DEF BInv
<1> QED
  BY <1>1, <1>2, <1>5, <1>6

\* As long as the random-two picker draws, a request is never given the one peer with
\* the most connections per weight of those it could have got: two different peers
\* were let in, and the more loaded one was dropped (pickTwo).
THEOREM TwoChoices == BalancersSpec => NeverTheBusiest
<1> DEFINE spared(g, p) == \E q \in Selectable(g, Primary, now') \ {p} :
                              conns[p] * Weight(q) <= conns[q] * Weight(p)
<1>1. ASSUME BInv, [BalancersNext]_balancersVars, NEW g \in Pickers, NEW p \in Primary,
             algo = "RandomTwo", mayDraw(g), Picks(g, p)
      PROVE  spared(g, p)
  <2>0. p \in Peers /\ TypeOK /\ Primary \in SUBSET Peers
    BY <1>1 DEF Primary, BInv
  <2>1. pickTwo(g)
    <3>1. BalancerStep(g) /\ ~CandidatesDone(g) /\ ~giveUp(g)
      BY <1>1, <2>0, PicksOwn
    <3>2. RandomTwoStep(g)
      BY <1>1, <3>1 DEF BalancerStep
    <3> QED
      BY <1>1, <3>1, <3>2 DEF RandomTwoStep, RandomFallsBack, pickTwoGivesUp
  <2>2. PICK s \in Readings, t \in Readings, n \in 1 .. MaxTries - tries[g],
             previous \in drawn, peer \in drawn :
            /\ s <= t /\ peer # previous
            /\ previous \in Selectable(g, Primary, s)
            /\ peer \in Selectable(g, Primary, t)
            /\ commitCandidate(g, selected(peer, previous), t, n)
    BY <2>1 DEF pickTwo
  <2>3. s \in Nat /\ t \in Nat
    BY <2>0, ReadingsType
  <2>4. previous \in Selectable(g, Primary, t)
    BY <2>0, <2>2, <2>3, SelectableLater
  <2>5. previous \in Peers /\ peer \in Peers
    BY <2>0, <2>2, <2>4 DEF Selectable
  <2>6. take(g, selected(peer, previous)) /\ now' = t
    BY <2>2 DEF commitCandidate, commitPeer
  <2>7. p = selected(peer, previous)
    BY <1>1, <2>0, <2>6 DEF take, Picks, TypeOK
  <2>8. /\ conns[peer] * Weight(previous) \in Int
        /\ conns[previous] * Weight(peer) \in Int
    <3>1. /\ conns[peer] \in Int /\ conns[previous] \in Int
          /\ Weight(peer) \in Int /\ Weight(previous) \in Int
      BY <2>0, <2>5, ConfigTypes DEF TypeOK
    <3> QED BY <3>1
  <2>9. CASE conns[peer] * Weight(previous) > conns[previous] * Weight(peer)
    <3>1. p = previous
      BY <2>7, <2>9 DEF selected
    <3>2. conns[p] * Weight(peer) <= conns[peer] * Weight(p)
      BY <2>8, <2>9, <3>1
    <3> QED
      BY <2>2, <2>6, <3>1, <3>2
  <2>10. CASE ~(conns[peer] * Weight(previous) > conns[previous] * Weight(peer))
    <3>1. p = peer
      BY <2>7, <2>10 DEF selected
    <3>2. conns[p] * Weight(previous) <= conns[previous] * Weight(p)
      BY <2>8, <2>10, <3>1
    <3> QED
      BY <2>2, <2>4, <2>6, <3>1, <3>2
  <2> QED BY <2>9, <2>10
<1>2. BInv /\ [BalancersNext]_balancersVars =>
        [\A g \in Pickers, p \in Primary :
            algo = "RandomTwo" /\ mayDraw(g) /\ Picks(g, p) => spared(g, p)]_balancersVars
  BY <1>1
<1> QED
  BY UpstreamInvariance, <1>2, PTL DEF BalancersSpec, NeverTheBusiest

\* While a request lasts it gets none of its tries back.
LEMMA NeverBack ==
    ASSUME BInv, [BalancersNext]_balancersVars, NEW g \in Pickers, pc'[g] # "none"
    PROVE  tries'[g] >= tries[g]
<1>0. tries \in [Pickers -> Nat] /\ MaxTries \in Nat
  BY CandidatesAssumption DEF BInv, PhaseInv
<1>1. ASSUME NEW h \in Pickers, spends(h) PROVE tries'[g] >= tries[g]
  BY <1>0, <1>1 DEF spends
<1>2. ASSUME NEW h \in Pickers, GivesUp(h) PROVE tries'[g] >= tries[g]
  BY <1>0, <1>2 DEF GivesUp, giveUp, mayTry
<1>3. ASSUME NEW h \in Pickers, Leaves(h) PROVE tries'[g] >= tries[g]
  <2>1. tries' = tries \/ (pc'[h] = "none" /\ tries' = [tries EXCEPT ![h] = 0])
    BY <1>3 DEF Leaves, fieldsAfter
  <2> QED BY <1>0, <2>1
<1>4. ASSUME UNCHANGED tries PROVE tries'[g] >= tries[g]
  BY <1>0, <1>4
<1>5. ASSUME NEW h \in Pickers, Settles(h) \/ Enters(h) PROVE UNCHANGED tries
  BY <1>5 DEF Settles, Enters, NewPickerForKey
<1>6. Passes => UNCHANGED tries
  BY DEF Passes
<1> QED
  BY <1>1, <1>2, <1>3, <1>4, <1>5, <1>6, UpstreamKinds DEF BInv

\* A walk along the ring is given up in one place.
LEMMA RingGivenUp ==
    ASSUME BInv, CandidatesTypeOK, [BalancersNext]_balancersVars, NEW g \in Pickers,
           algo = "HashConsistent", ~fallingBack[g], fallingBack'[g]
    PROVE  ChashGivesUp(g)
<1>0. fallingBack \in [Pickers -> BOOLEAN]
  BY DEF CandidatesTypeOK
<1>1. ASSUME NEW h \in Pickers, fieldsAfter(h) PROVE ~fallingBack'[g]
  BY <1>0, <1>1 DEF fieldsAfter
<1>2. ~UNCHANGED fallingBack
  OBVIOUS
<1>3. ~Environment /\ ~UNCHANGED balancersVars
  BY <1>2 DEF Environment, pickerFields, balancersVars, allVars
<1>4. ~\E h \in Pickers : newPicker(h) \/ CandidatesFinish(h)
  BY <1>1, <1>2 DEF newPicker, NewPickerForKey, CandidatesFinish
<1>5. PICK h \in Pickers : ChashStep(h)
  BY <1>3, <1>4 DEF BalancersNext, BalancerStep
<1>6. ChashGivesUp(h)
  BY <1>1, <1>2, <1>5
  DEF ChashStep, ChashFallsBack, RRPick, ChashPick, commitCandidate, CandidatesDone, pickerFields
<1>7. h = g
  BY <1>0, <1>6 DEF ChashGivesUp, giveUp
<1> QED BY <1>6, <1>7

\* The consistent-hash picker walks along the ring from the point of the key: each
\* peer it gives to a request is at the first server, from where the request's last
\* Pick stopped, of which a peer is left for it; the walk is given up only when none
\* of the points within the budget is of use, and never goes back, on every ring and
\* whatever the other peers do (chashPicker.Pick).
THEOREM KeyStays == BalancersSpec => KeyStaysWithServer
<1> DEFINE along(g, n) == Points[1 + ((Start[key[g]] + n) % Len(Points))]
           passed(g, n) == \A q \in Primary :
               Addr[q] = along(g, n) => \/ q \in picked[g] \/ Down(q)
                                        \/ Quarantined(q, now) \/ ~HasRoom(q)
           walks(g, p) == \E n \in tries[g] .. MaxTries :
               /\ tries'[g] = n /\ Addr[p] = along(g, n)
               /\ \A m \in tries[g] .. n - 1 : passed(g, m)
           WalkInv == BInv /\ CandidatesTypeOK
<1>1. ASSUME WalkInv, NEW g \in Pickers, NEW m \in Nat, ofServer(g, serverAt(g, m), now) = {}
      PROVE  passed(g, m)
  <2> SUFFICES ASSUME NEW q \in Primary, Addr[q] = along(g, m)
               PROVE  \/ q \in picked[g] \/ Down(q)
                      \/ Quarantined(q, now) \/ ~HasRoom(q)
    OBVIOUS
  <2>1. q \notin Selectable(g, Primary, now)
    BY <1>1 DEF ofServer, serverAt
  <2>2. tried[g] \subseteq picked[g]
    BY <1>1 DEF BInv, PhaseInv
  <2> QED
    BY <2>1, <2>2 DEF Selectable, peerAvailable
<1>2. ASSUME WalkInv, [BalancersNext]_balancersVars, NEW g \in Pickers, NEW p \in Peers,
             algo = "HashConsistent", usesRing(g), Picks(g, p), mayTry(g)
      PROVE  walks(g, p)
  <2>0. TypeOK /\ tries \in [Pickers -> Nat] /\ tries[g] \in Nat /\ MaxTries \in Nat
    BY <1>2, CandidatesAssumption DEF BInv, PhaseInv
  <2>1. ChashPick(g)
    <3>1. BalancerStep(g) /\ ~CandidatesDone(g) /\ ~giveUp(g)
      BY <1>2, PicksOwn
    <3> QED
      BY <1>2, <3>1 DEF BalancerStep, ChashStep, ChashFallsBack, ChashGivesUp
  <2>2. PICK t \in Readings, n \in 0 .. MaxTries - tries[g] :
            /\ \A i \in 0 .. n - 1 : ofServer(g, serverAt(g, tries[g] + i), now) = {}
            /\ \E E \in eligible(g, serverAt(g, tries[g] + n), t) : \E best \in E :
                  commitCandidate(g, best, t, n)
    BY <2>1 DEF ChashPick
  <2>3. PICK E \in eligible(g, serverAt(g, tries[g] + n), t) : \E best \in E :
            commitCandidate(g, best, t, n)
    BY <2>2
  <2>4. PICK best \in E : commitCandidate(g, best, t, n)
    BY <2>3
  <2>5. best = p /\ tries'[g] = tries[g] + n
    BY <1>2, <2>0, <2>4 DEF commitCandidate, commitPeer, take, Picks, TypeOK
  <2>6. Addr[p] = along(g, tries[g] + n)
    BY <2>3, <2>4, <2>5 DEF eligible, ofServer, serverAt
  <2>7. ASSUME NEW m \in tries[g] .. tries[g] + n - 1 PROVE passed(g, m)
    <3>1. m - tries[g] \in 0 .. n - 1 /\ tries[g] + (m - tries[g]) = m /\ m \in Nat
      BY <2>0, <2>2
    <3>2. ofServer(g, serverAt(g, m), now) = {}
      BY <2>2, <3>1
    <3> QED
      BY <1>1, <1>2, <3>1, <3>2
  <2>8. tries[g] + n \in tries[g] .. MaxTries
    BY <2>0, <2>2
  <2> HIDE DEF along, passed
  <2> QED
    BY <2>0, <2>5, <2>6, <2>7, <2>8
<1>3. ASSUME WalkInv, [BalancersNext]_balancersVars, NEW g \in Pickers,
             algo = "HashConsistent", ~fallingBack[g], fallingBack'[g],
             NEW n \in tries[g] .. MaxTries
      PROVE  passed(g, n)
  <2>1. ofServer(g, serverAt(g, n), now) = {}
    BY <1>3, RingGivenUp DEF ChashGivesUp
  <2>2. n \in Nat
    BY <1>3 DEF BInv, PhaseInv
  <2> QED
    BY <1>1, <1>3, <2>1, <2>2
<1>4. WalkInv /\ [BalancersNext]_balancersVars =>
        [\A g \in Pickers :
            algo = "HashConsistent" /\ usesRing(g)
            => /\ \A p \in Peers : Picks(g, p) /\ mayTry(g) => walks(g, p)
               /\ ~fallingBack[g] /\ fallingBack'[g] => \A n \in tries[g] .. MaxTries : passed(g, n)
               /\ pc'[g] # "none" => tries'[g] >= tries[g]]_balancersVars
  <2> HIDE DEF walks, passed
  <2> QED BY <1>2, <1>3, NeverBack
<1> QED
  BY UpstreamInvariance, UpstreamBudget, <1>4, PTL DEF BalancersSpec, KeyStaysWithServer

\* Comparing loads crosswise is transitive.
LEMMA LoadTransitive ==
    ASSUME NEW a \in Int, NEW b \in Int, NEW c \in Int,
           NEW u \in Nat, NEW v \in Nat, NEW w \in Nat, v > 0,
           a * v <= b * u, b * w <= c * v
    PROVE  a * w <= c * u
<1>1. (a * v) * w <= (b * u) * w
  <2>1. \A x, y \in Int : \A z \in Nat : x <= y => x * z <= y * z
    OBVIOUS
  <2> QED BY <2>1
<1>2. (b * w) * u <= (c * v) * u
  <2>1. \A x, y \in Int : \A z \in Nat : x <= y => x * z <= y * z
    OBVIOUS
  <2> QED BY <2>1
<1>3. (b * u) * w = (b * w) * u /\ (a * v) * w = (a * w) * v /\ (c * v) * u = (c * u) * v
  OBVIOUS
<1>4. (a * w) * v <= (c * u) * v
  BY <1>1, <1>2, <1>3
<1>5. \A x, y \in Int : \A z \in Nat : z > 0 /\ x * z <= y * z => x <= y
  OBVIOUS
<1> QED
  BY <1>4, <1>5

\* What the scan may have found, and the states it goes through.
Found == [best : Peers \cup {NoPeer}, many : BOOLEAN]
scans(E) == CHOOSE scan : scan = [i \in 0 .. NPeers |->
                IF i = 0 THEN [best |-> NoPeer, many |-> FALSE] ELSE visit(E, scan[i - 1], i)]

\* p has no more connections per weight than q.
atMost(p, q) == conns[p] * Weight(q) <= conns[q] * Weight(p)

\* One peer is visited.
LEMMA VisitType ==
    ASSUME NEW E, NEW s \in Found, NEW p \in Peers
    PROVE  visit(E, s, p) \in Found
  BY DEF visit, Found

\* The scan goes from peer to peer.
LEMMA Scans ==
    ASSUME NEW E
    PROVE  /\ \A i \in 0 .. NPeers : scans(E)[i] \in Found
           /\ scans(E)[0] = [best |-> NoPeer, many |-> FALSE]
           /\ \A i \in Peers : scans(E)[i] = visit(E, scans(E)[i - 1], i)
           /\ leastScan(E) = scans(E)[NPeers]
<1> DEFINE first == [best |-> NoPeer, many |-> FALSE]
           V == [i \in Nat |-> [s \in Found |-> IF i \in Peers THEN visit(E, s, i) ELSE s]]
           Def(scan) == [i \in 0 .. NPeers |-> IF i = 0 THEN first ELSE visit(E, scan[i - 1], i)]
<1>0. NPeers \in Nat /\ Peers = 1 .. NPeers
  BY ServersAssumption DEF Peers
<1>1. first \in Found
  BY DEF Found
<1>2. V \in [Nat -> [Found -> Found]]
  BY VisitType
<1>3. PICK h \in [Nat -> Found] : course(h, NPeers, first, V)
  <2> HIDE DEF V, first
  <2> QED BY <1>0, <1>1, <1>2, Loop
<1>4. ASSUME NEW i \in 1 .. NPeers PROVE h[i] = visit(E, h[i - 1], i)
  <2>1. i \in Peers /\ i \in Nat /\ h[i - 1] \in Found
    BY <1>0
  <2>2. h[i] = V[i][h[i - 1]]
    <3> HIDE DEF V
    <3> QED BY <1>3 DEF course
  <2> QED BY <2>1, <2>2
<1> DEFINE r == [i \in 0 .. NPeers |-> h[i]]
<1>5. r = Def(r)
  <2> HIDE DEF first
  <2> QED BY <1>0, <1>3, <1>4 DEF course
<1>6. scans(E) = Def(scans(E))
  BY <1>5, Zenon DEF scans
<1>7. leastScan(E) = scans(E)[NPeers]
  BY Zenon DEF leastScan, scans
<1>8. ASSUME NEW s, s = Def(s)
      PROVE  /\ \A i \in 0 .. NPeers : s[i] \in Found
             /\ s[0] = first
             /\ \A i \in Peers : s[i] = visit(E, s[i - 1], i)
  <2> HIDE DEF first
  <2>1. s[0] = first
    BY <1>0, <1>8
  <2>2. \A i \in Peers : s[i] = visit(E, s[i - 1], i)
    BY <1>0, <1>8
  <2> DEFINE T == {i \in 0 .. NPeers : s[i] \in Found}
  <2>3. 0 \in T
    BY <1>0, <1>1, <2>1
  <2>4. ASSUME NEW i \in 1 .. NPeers, i - 1 \in T PROVE i \in T
    BY <1>0, <2>2, <2>4, VisitType
  <2>5. 0 .. NPeers \subseteq T
    <3> HIDE DEF T
    <3> QED BY <1>0, <2>3, <2>4, UpTo
  <2> QED BY <2>1, <2>2, <2>5
<1> HIDE DEF Def
<1> QED
  BY <1>6, <1>7, <1>8

\* The scan ends with a peer that no eligible one undercuts, although it compares
\* each one only with the best so far.
LEMMA LeastFound ==
    ASSUME TypeOK, NEW E \in SUBSET Peers, NEW q \in E
    PROVE  leastScan(E).best \in E /\ atMost(leastScan(E).best, q)
<1> DEFINE s == scans(E)
           upTo(i) == {p \in E : p <= i}
           T == {i \in 0 .. NPeers :
                   \/ s[i].best = NoPeer /\ upTo(i) = {}
                   \/ s[i].best \in upTo(i) /\ \A p \in upTo(i) : atMost(s[i].best, p)}
<1>0. /\ NPeers \in Nat /\ Peers = 1 .. NPeers /\ NoPeer \notin E
      /\ \A p \in E : p \in Int /\ 1 <= p /\ p <= NPeers
  <2>1. NPeers \in Nat /\ Peers = 1 .. NPeers
    BY ServersAssumption DEF Peers
  <2>2. NoPeer \notin E
    BY PeersNat
  <2>3. \A p \in Peers : p \in Int /\ 1 <= p /\ p <= NPeers
    BY <2>1
  <2> QED BY <2>1, <2>2, <2>3
<1>1. /\ \A i \in 0 .. NPeers : s[i] \in Found
      /\ s[0] = [best |-> NoPeer, many |-> FALSE]
      /\ \A i \in Peers : s[i] = visit(E, s[i - 1], i)
      /\ leastScan(E) = s[NPeers]
  BY Scans
<1> HIDE DEF s
<1>2. \A p \in Peers : conns[p] \in Int /\ Weight(p) \in Nat /\ Weight(p) > 0
  BY ConfigTypes DEF TypeOK
<1>3. \A p, b, r \in Peers : atMost(p, b) /\ atMost(b, r) => atMost(p, r)
  <2> TAKE p, b, r \in Peers
  <2> QED BY <1>2, LoadTransitive DEF atMost
<1>4. \A p, b \in Peers : fewer(p, b) => atMost(p, b)
  BY <1>2 DEF fewer, atMost
<1>5. \A p, b \in Peers : ~fewer(p, b) => atMost(b, p)
  <2> TAKE p, b \in Peers
  <2>1. conns[p] * Weight(b) \in Int /\ conns[b] * Weight(p) \in Int
    BY <1>2
  <2> QED BY <2>1 DEF fewer, atMost
<1>6. \A p \in Peers : atMost(p, p)
  <2> TAKE p \in Peers
  <2>1. conns[p] * Weight(p) \in Int
    BY <1>2
  <2> QED BY <2>1 DEF atMost
<1>7. 0 \in T
  <2>1. s[0].best = NoPeer
    BY <1>1
  <2>2. \A p \in E : ~(p <= 0)
    BY <1>0
  <2>3. upTo(0) = {}
    BY <2>2
  <2> QED BY <1>0, <2>1, <2>3
<1>8. ASSUME NEW i \in 1 .. NPeers, i - 1 \in T PROVE i \in T
  <2> DEFINE b == s[i - 1].best
  <2>1. i \in Peers /\ s[i] = visit(E, s[i - 1], i) /\ s[i - 1] \in Found /\ i \in 0 .. NPeers
    BY <1>0, <1>1
  <2>2. \/ b = NoPeer /\ upTo(i - 1) = {}
        \/ b \in upTo(i - 1) /\ \A p \in upTo(i - 1) : atMost(b, p)
    BY <1>8
  <2>3. b \in Peers \cup {NoPeer}
    BY <2>1 DEF Found
  <2> HIDE DEF T
  <2>4. CASE i \notin E
    <3>1. s[i].best = b
      BY <2>1, <2>4 DEF visit
    <3>2. upTo(i) = upTo(i - 1)
      <4>1. \A p \in E : p <= i <=> p <= i - 1
        BY <1>0, <2>4
      <4> QED BY <4>1
    <3> QED BY <2>1, <2>2, <3>1, <3>2 DEF T
  <2>5. CASE i \in E
    <3>1. upTo(i) = upTo(i - 1) \cup {i}
      <4>1. \A p \in E : p <= i <=> p <= i - 1 \/ p = i
        BY <1>0
      <4> QED BY <2>5, <4>1
    <3>2. CASE b = NoPeer
      <4>1. s[i].best = i
        BY <2>1, <2>5, <3>2 DEF visit
      <4>2. upTo(i) = {i}
        BY <1>0, <2>2, <3>1, <3>2
      <4> QED BY <1>6, <2>1, <4>1, <4>2 DEF T
    <3>3. CASE b # NoPeer /\ fewer(i, b)
      <4>1. s[i].best = i
        BY <2>1, <2>5, <3>3 DEF visit
      <4>2. ASSUME NEW p \in upTo(i) PROVE atMost(i, p)
        BY <1>3, <1>4, <1>6, <2>1, <2>2, <2>3, <3>1, <3>3, <4>2
      <4> QED BY <2>1, <3>1, <4>1, <4>2 DEF T
    <3>4. CASE b # NoPeer /\ ~fewer(i, b)
      <4>1. s[i].best = b
        BY <2>1, <2>5, <3>4 DEF visit, Found
      <4>2. b \in upTo(i) /\ \A p \in upTo(i) : atMost(b, p)
        BY <1>5, <2>1, <2>2, <2>3, <3>1, <3>4
      <4> QED BY <2>1, <4>1, <4>2 DEF T
    <3> QED BY <3>2, <3>3, <3>4
  <2> QED BY <2>4, <2>5
<1>9. 0 .. NPeers \subseteq T
  <2> HIDE DEF T
  <2> QED BY <1>0, <1>7, <1>8, UpTo
<1>10. upTo(NPeers) = E
  <2>1. \A p \in E : p <= NPeers
    BY <1>0
  <2> QED BY <2>1
<1>11. NPeers \in T
  BY <1>0, <1>9
<1> QED
  BY <1>1, <1>10, <1>11

\* The least-connections picker gives a request a peer that has the fewest connections
\* per weight of all that it could have got, on a pool of any size and with any
\* weights, by one pass over the slice (pickFromGroup, leastconn.go).
THEOREM LeastLoaded == BalancersSpec => LeastLoadedPicked
<1>1. ASSUME BInv, [BalancersNext]_balancersVars, NEW g \in Pickers,
             NEW G \in {Primary, Backup}, NEW p \in G,
             algo = "LeastConn", Picks(g, p), ~single,
             NEW q \in Selectable(g, G, now)
      PROVE  conns[p] * Weight(q) <= conns[q] * Weight(p)
  <2>0. p \in Peers /\ TypeOK /\ pc \in [Pickers -> {"none", "ready", "backup", "busy"}]
    BY <1>1 DEF Primary, Backup, BInv, TypeOK
  <2>1. LeastStep(g)
    BY <1>1, <2>0, PicksOwn DEF BalancerStep
  <2>2. ~\E outcome \in Outcomes : Done(g, outcome)
    BY <1>1, <2>0 DEF Done, Picks
  <2>3. ~PrimaryExhausted(g) /\ ~BackupExhausted(g)
    BY <1>1, <2>0 DEF PrimaryExhausted, BackupExhausted, dismiss, Picks
  <2>4. PICK H \in {Primary, Backup} : pickLeastFromGroup(g, H)
    BY <1>1, <2>1, <2>2, <2>3
    DEF LeastStep, LeastPickPrimary, LeastPickBackup, pickFromCurrentGroup
  <2> DEFINE E == Selectable(g, H, now)
             b == leastScan(E).best
  <2>5. PICK best \in E : /\ equallyLoaded(best, b) \/ best = b
                          /\ commitPeer(g, best, now)
    BY <2>4 DEF pickLeastFromGroup
  <2>6. best = p
    BY <1>1, <2>0, <2>5 DEF commitPeer, take, Picks, TypeOK
  <2>7. H = G /\ E \in SUBSET Peers
    BY <1>1, <2>5, <2>6 DEF Selectable, Primary, Backup
  <2> HIDE DEF b
  <2>8. b \in E /\ atMost(b, q)
    <3>1. q \in E
      BY <1>1, <2>7
    <3> HIDE DEF E
    <3> QED BY <2>0, <2>7, <3>1, LeastFound DEF b
  <2>9. b \in Peers /\ q \in Peers
    BY <1>1, <2>7, <2>8
  <2>10. /\ conns[p] \in Int /\ conns[b] \in Int /\ conns[q] \in Int
         /\ Weight(p) \in Nat /\ Weight(b) \in Nat /\ Weight(q) \in Nat /\ Weight(b) > 0
    BY <2>0, <2>9, ConfigTypes DEF TypeOK
  <2>11. conns[p] * Weight(b) <= conns[b] * Weight(p)
    BY <2>5, <2>6, <2>10 DEF equallyLoaded
  <2>12. conns[b] * Weight(q) <= conns[q] * Weight(b)
    BY <2>8 DEF atMost
  <2> QED
    BY <2>10, <2>11, <2>12, LoadTransitive
<1>2. BInv /\ [BalancersNext]_balancersVars =>
        [\A g \in Pickers, G \in {Primary, Backup} : \A p \in G :
            algo = "LeastConn" /\ Picks(g, p) /\ ~single
            => \A q \in Selectable(g, G, now) :
                  conns[p] * Weight(q) <= conns[q] * Weight(p)]_balancersVars
  BY <1>1
<1> QED
  BY UpstreamInvariance, <1>2, PTL DEF BalancersSpec, LeastLoadedPicked

=============================================================================
