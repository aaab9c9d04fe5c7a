----------------------------- MODULE MCSelection -----------------------------
(***************************************************************************)
(* Model checking of the two searches that pickers rely on, each by        *)
(* itself: the weighted draw (RandomSelect), beside an empty ring, and the *)
(* ring (ChashRing).                                                       *)
(***************************************************************************)
EXTENDS RandomSelect, ChashRing, TLC

noRing == peers = <<>> /\ chain = [a \in Addrs |-> [j \in 1 .. MaxRingWeight * Replicas |-> 0]]

SelectionInit == Init /\ (RingInit \/ noRing)

SelectionNext ==
    \/ peers = <<>> /\ Next /\ UNCHANGED ringVars
    \/ peers # <<>> /\ RingNext /\ UNCHANGED vars

SelectionSpec == SelectionInit /\ [][SelectionNext]_<<vars, ringVars>>

\* The addresses are interchangeable.
Symmetry == Permutations(Addrs)
==============================================================================
