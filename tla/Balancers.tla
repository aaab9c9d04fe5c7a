------------------------------ MODULE Balancers ------------------------------
(***************************************************************************)
(* The balancers of cslb side by side: an upstream has one of them, which  *)
(* its configuration names, and all of them work on the same groups and    *)
(* leave what they do not decide themselves to RRPicker.  The properties   *)
(* here and in RoundRobin hold whichever it is, or say what the upstream's *)
(* algorithm is there for.                                                 *)
(***************************************************************************)
EXTENDS LeastConn, Hash, IPHash, Random, ConsistentHash

CONSTANT Algos      \* the algorithms to consider

AllAlgos == {"RoundRobin", "LeastConn", "Random", "RandomTwo", "IPHash", "Hash", "HashConsistent"}

ASSUME AlgosAssumption == Algos \subseteq AllAlgos

VARIABLE algo       \* the algorithm of this upstream; never changes

balancersVars == <<allVars, algo>>

BalancersInit == CandidatesInit /\ algo \in Algos

\* Transport.newPicker: the balancers that hash are given the key of the request.
newPicker(g) ==
    \E k \in IF algo \in {"IPHash", "Hash", "HashConsistent"} THEN Keys ELSE {NoKey} :
        NewPickerForKey(g, k)

\* One critical section of a Pick, or a Done.
BalancerStep(g) ==
    /\ \/ algo = "RoundRobin"     /\ Step(g) /\ fieldsAfter(g)
       \/ algo = "LeastConn"      /\ LeastStep(g) /\ fieldsAfter(g)
       \/ algo = "Random"         /\ RandomStep(g)
       \/ algo = "RandomTwo"      /\ RandomTwoStep(g)
       \/ algo = "IPHash"         /\ IPHashStep(g)
       \/ algo = "Hash"           /\ HashStep(g)
       \/ algo = "HashConsistent" /\ ChashStep(g)
    /\ UNCHANGED algo

BalancersNext ==
    \/ \E g \in Pickers : BalancerStep(g)
    \/ (\E g \in Pickers : newPicker(g) \/ CandidatesFinish(g)) /\ UNCHANGED algo
    \/ Environment /\ UNCHANGED algo

BalancersSpec == BalancersInit /\ [][BalancersNext]_balancersVars

\* A request that is in progress keeps going: Pick never blocks for longer than
\* a critical section, a round trip ends (with an error at the latest when its
\* deadline passes), and the retry loop has no other exit than nil or a result.
BalancersFairSpec == BalancersSpec /\ \A g \in Pickers : WF_balancersVars(BalancerStep(g))

-------------------------------------------------------------------------------
(* Properties. *)

\* The peer a request gets has the fewest connections per weight among all the
\* peers of the group that it could have got at that moment, although the scan
\* only compares each peer with the best one so far (pickFromGroup, leastconn.go).
LeastLoadedPicked ==
    [][\A g \in Pickers, G \in {Primary, Backup} : \A p \in G :
          algo = "LeastConn" /\ Picks(g, p) /\ ~single
          => \A q \in Selectable(g, G, now) :
                conns[p] * Weight(q) <= conns[q] * Weight(p)]_balancersVars

\* What two choices are for: as long as it draws, a request never gets the one
\* peer that has more connections per weight than all the others it could have
\* got, and never gets one without having had the choice (pickTwo, random.go).
NeverTheBusiest ==
    [][\A g \in Pickers, p \in Primary :
          algo = "RandomTwo" /\ mayDraw(g) /\ Picks(g, p)
          => \E q \in Selectable(g, Primary, now') \ {p} :
                conns[p] * Weight(q) <= conns[q] * Weight(p)]_balancersVars

\* A key stays with its server: as long as the budget lasts, a request gets a peer
\* of the first server along the ring, from the point its key was looked up to or at
\* which its last Pick stopped, of which it can use a peer it did not have yet;
\* whatever happens to the other peers of the group does not matter.  It leaves the
\* ring only when none of the points it has left is of any use, and never goes back
\* (chashPicker.Pick).
KeyStaysWithServer ==
    [][\A g \in Pickers :
          LET along(n) == Points[1 + ((Start[key[g]] + n) % Len(Points))]
              passed(n) == \A q \in Primary :
                  Addr[q] = along(n) => \/ q \in picked[g] \/ Down(q)
                                        \/ Quarantined(q, now) \/ ~HasRoom(q)
          IN
          algo = "HashConsistent" /\ usesRing(g)
          => /\ \A p \in Peers :
                   Picks(g, p) /\ mayTry(g)
                   => \E n \in tries[g] .. MaxTries :
                         /\ tries'[g] = n /\ Addr[p] = along(n)
                         /\ \A m \in tries[g] .. n - 1 : passed(m)
             /\ ~fallingBack[g] /\ fallingBack'[g] => \A n \in tries[g] .. MaxTries : passed(n)
             /\ pc'[g] # "none" => tries'[g] >= tries[g]]_balancersVars
==============================================================================
