----------------------------- MODULE RandomSelect -----------------------------
(***************************************************************************)
(* The weighted draw of the random pickers (random.go): newRandom builds a *)
(* table of cumulative weights, randomSelect finds the peer a random       *)
(* number belongs to by binary search in it.                               *)
(***************************************************************************)
EXTENDS Integers, Sequences

CONSTANTS
    MaxPeers,   \* bound: primary peers of the group
    MaxWeight   \* bound: their weights

ASSUME SelectAssumption == MaxPeers \in Nat \ {0} /\ MaxWeight \in Nat \ {0}

VARIABLES
    pc,         \* "build", "search" or "done"
    weights,    \* the weights of the peers, at least one each
    ranges,     \* their upper bounds, exclusive
    x,          \* the number drawn
    lo, hi      \* the bounds of the search, counted from zero as in the code

vars == <<pc, weights, ranges, x, lo, hi>>

TypeOK ==
    /\ pc \in {"build", "search", "done"}
    /\ weights \in Seq(1 .. MaxWeight)
    /\ ranges \in Seq(Nat)
    /\ Len(ranges) = Len(weights)
    /\ x \in Nat /\ lo \in Nat /\ hi \in Nat

\* The sum of the weights so far; PeerGroup.TotalWeight at the end.
cumulative == IF ranges = <<>> THEN 0 ELSE ranges[Len(ranges)]

Init ==
    /\ pc = "build"
    /\ weights = <<>> /\ ranges = <<>>
    /\ x = 0 /\ lo = 0 /\ hi = 0

\* One iteration of the loop in newRandom.
AddPeer(w) ==
    /\ pc = "build" /\ Len(weights) < MaxPeers
    /\ weights' = Append(weights, w)
    /\ ranges' = Append(ranges, cumulative + w)
    /\ UNCHANGED <<pc, x, lo, hi>>

\* randomSelect draws a number below the total weight.
Draw ==
    /\ pc = "build" /\ cumulative > 0
    /\ x' \in 0 .. cumulative - 1
    /\ lo' = 0 /\ hi' = Len(ranges) - 1
    /\ pc' = "search"
    /\ UNCHANGED <<weights, ranges>>

\* Mutant of Halve: an upper bound is taken for part of its range.
HalveInclusive ==
    LET mid == (lo + hi) \div 2 IN
    /\ pc = "search" /\ lo < hi
    /\ IF ranges[mid + 1] < x
       THEN lo' = mid + 1 /\ UNCHANGED hi
       ELSE hi' = mid /\ UNCHANGED lo
    /\ UNCHANGED <<pc, weights, ranges, x>>

\* Mutant of Halve: the middle stays within the bounds.
HalveSlowly ==
    LET mid == (lo + hi) \div 2 IN
    /\ pc = "search" /\ lo < hi
    /\ IF ranges[mid + 1] <= x
       THEN lo' = mid /\ UNCHANGED hi
       ELSE hi' = mid /\ UNCHANGED lo
    /\ UNCHANGED <<pc, weights, ranges, x>>

\* One iteration of the search.
Halve ==
    LET mid == (lo + hi) \div 2 IN
    /\ pc = "search" /\ lo < hi
    /\ IF ranges[mid + 1] <= x
       THEN lo' = mid + 1 /\ UNCHANGED hi
       ELSE hi' = mid /\ UNCHANGED lo
    /\ UNCHANGED <<pc, weights, ranges, x>>

Return ==
    /\ pc = "search" /\ lo >= hi
    /\ pc' = "done"
    /\ UNCHANGED <<weights, ranges, x, lo, hi>>

\* The result was returned.
Returned == pc = "done" /\ UNCHANGED vars

Next ==
    \/ \E w \in 1 .. MaxWeight : AddPeer(w)
    \/ Draw \/ Halve \/ Return
    \/ Returned

Spec == Init /\ [][Next]_vars

-------------------------------------------------------------------------------
(* Properties. *)

\* The peer that is returned owns the number drawn: its range of as many numbers
\* as its weight says, right after the ranges of the peers before it, holds x.
\* As each number is as likely, each peer is chosen in proportion to its weight
\* (randomSelect).
DrawsByWeight ==
    pc = "done" => /\ lo + 1 \in DOMAIN ranges
                   /\ ranges[lo + 1] - weights[lo + 1] <= x
                   /\ x < ranges[lo + 1]

\* Each iteration at least halves what is left to search, down to one peer: the
\* search cannot go on for ever and takes a logarithmic number of steps ("binary
\* search", randomSelect).
SearchHalves ==
    [][pc = "search" => \/ pc' = "done" /\ lo = hi
                        \/ 2 * (hi' - lo') <= hi - lo]_vars

-------------------------------------------------------------------------------
(* The inductive invariant. *)

\* The ranges are adjacent and not empty.
RangesAdjacent ==
    \A i \in DOMAIN ranges :
        ranges[i] - weights[i] = IF i = 1 THEN 0 ELSE ranges[i - 1]

\* What is left of the range holds the answer.
Bracketed ==
    pc # "build" => /\ lo <= hi /\ hi < Len(ranges)
                    /\ lo > 0 => ranges[lo] <= x
                    /\ x < ranges[hi + 1]

SelectInv == TypeOK /\ RangesAdjacent /\ Bracketed /\ (pc = "done" => lo = hi)
===============================================================================
