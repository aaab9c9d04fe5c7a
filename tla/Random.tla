-------------------------------- MODULE Random --------------------------------
(***************************************************************************)
(* The random and the random-two picker (random.go).  A draw is a number   *)
(* below the total weight; the search for the peer it belongs to is the    *)
(* subject of RandomSelect.  Any sequence of draws may happen.             *)
(***************************************************************************)
EXTENDS Candidates

randomSelect(x) == owner(Primary, x)

\* The peers that a draw may yield.
drawn == {randomSelect(x) : x \in 0 .. TotalWeight(Primary) - 1}

\* Draws are made at all: there are two primaries and the budget is not used up.
mayDraw(g) == mayTry(g) /\ Cardinality(Primary) >= 2

\* A draw may hit a peer that the request cannot use.
mayReject(g) == ~(drawn \subseteq Selectable(g, Primary, now))

\* pickOne, with n rejected draws before the last one.
pickOne(g) ==
    /\ mayDraw(g)
    /\ \E t \in Readings, n \in 0 .. MaxTries - tries[g], peer \in drawn :
          /\ n > 0 => mayReject(g)
          /\ peer \in Selectable(g, Primary, t)
          /\ commitCandidate(g, peer, t, n)
    /\ UNCHANGED <<weightVars, hashed>>

pickOneGivesUp(g) ==
    /\ mayDraw(g)
    /\ mayReject(g)
    /\ giveUp(g)
    /\ UNCHANGED hashed

\* Mutant of selected: the comparison is turned around.
selectedSwapped(peer, previous) ==
    IF conns[peer] * Weight(previous) > conns[previous] * Weight(peer) THEN peer ELSE previous

\* The less loaded of two peers, the later drawn one if there is a tie.
selected(peer, previous) ==
    IF conns[peer] * Weight(previous) > conns[previous] * Weight(peer) THEN previous ELSE peer

\* pickTwo.  The draw that yields previous uses up a try, and so does each draw
\* that hits previous again, which is always possible.
pickTwo(g) ==
    /\ mayDraw(g)
    /\ \E s, t \in Readings, n \in 1 .. MaxTries - tries[g],
          previous, peer \in drawn :
          /\ s <= t /\ peer # previous
          /\ previous \in Selectable(g, Primary, s)
          /\ peer \in Selectable(g, Primary, t)
          /\ commitCandidate(g, selected(peer, previous), t, n)
    /\ UNCHANGED <<weightVars, hashed>>

pickTwoGivesUp(g) == mayDraw(g) /\ giveUp(g) /\ UNCHANGED hashed

RandomFallsBack(g) == ~mayDraw(g) /\ RRPick(g)

RandomStep(g) ==
    \/ pickOne(g)
    \/ pickOneGivesUp(g)
    \/ RandomFallsBack(g)
    \/ CandidatesDone(g)

RandomTwoStep(g) ==
    \/ pickTwo(g)
    \/ pickTwoGivesUp(g)
    \/ RandomFallsBack(g)
    \/ CandidatesDone(g)
===============================================================================
