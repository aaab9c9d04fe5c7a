---------------------------- MODULE ConsistentHash ----------------------------
(***************************************************************************)
(* The consistent-hash picker (chash.go).  It walks along the ring from    *)
(* the point its key is looked up to (ChashRing), and chooses among the    *)
(* peers of the server it comes to by smooth weighted round-robin.  The    *)
(* budget counts points of the ring, of which a server has many.           *)
(***************************************************************************)
EXTENDS Candidates, Sequences

CONSTANTS
    Addr,       \* the addresses of the peers
    Points,     \* the ring: the address each point belongs to
    Start       \* the point, from 0, that findChashStart yields for each key

ASSUME RingAssumption ==
    /\ DOMAIN Addr = Peers
    /\ Points \in Seq({Addr[p] : p \in Primary})
    /\ Points # <<>> => Start \in [Keys \ {NoKey} -> 0 .. Len(Points) - 1]

usesRing(g) == key[g] # NoKey /\ Points # <<>> /\ ~single

\* Mutant of serverAt: the walk never leaves the point the key was looked up to.
serverStuck(g, n) == Points[1 + Start[key[g]]]

\* The server at the n-th point from the one the key was looked up to.
serverAt(g, n) == Points[1 + ((Start[key[g]] + n) % Len(Points))]

\* The peers of a server that may be used at time t.
ofServer(g, a, t) == {p \in Selectable(g, Primary, t) : Addr[p] = a}

\* The scan over the peers reads the clock for each of them: those before some
\* peer s are judged at now, the others at t.
eligible(g, a, t) ==
    {ofServer(g, a, now) \cup {p \in ofServer(g, a, t) : s <= p} : s \in Peers}

ChashPick(g) ==
    /\ mayTry(g) /\ usesRing(g)
    /\ \E t \in Readings, n \in 0 .. MaxTries - tries[g] :
          /\ \A i \in 0 .. n - 1 : ofServer(g, serverAt(g, tries[g] + i), now) = {}
          /\ \E E \in eligible(g, serverAt(g, tries[g] + n), t) : \E best \in E :
                /\ smoothWeightedPeer(E, best)
                /\ commitCandidate(g, best, t, n)
    /\ UNCHANGED hashed

ChashGivesUp(g) ==
    /\ mayTry(g) /\ usesRing(g)
    /\ \A i \in tries[g] .. MaxTries : ofServer(g, serverAt(g, i), now) = {}
    /\ giveUp(g)
    /\ UNCHANGED hashed

ChashFallsBack(g) == ~(mayTry(g) /\ usesRing(g)) /\ RRPick(g)

ChashStep(g) ==
    \/ ChashPick(g)
    \/ ChashGivesUp(g)
    \/ ChashFallsBack(g)
    \/ CandidatesDone(g)
===============================================================================
