------------------------------- MODULE Picker -------------------------------
(***************************************************************************)
(* What the balancers of cslb promise to a request: the contract of the    *)
(* Balancer and Picker interfaces (balancer.go), whatever the algorithm.   *)
(*                                                                         *)
(* A request asks for peers one after the other, holding at most one.  It  *)
(* never gets the same peer twice, never one that is marked down, never    *)
(* one that already serves max_conns requests, and once it got a backup it *)
(* only gets backups.  The contract says nothing about which of the other  *)
(* peers it gets, or when Pick returns nil: that is the algorithm's part.  *)
(*                                                                         *)
(* All the balancers (Balancers) implement this specification, Transport   *)
(* is written on top of it.                                                *)
(***************************************************************************)
EXTENDS Integers, FiniteSets

CONSTANTS
    Peers,
    NoPeer,        \* nil
    Pickers,       \* the requests in progress
    MaxConns(_),   \* 0: no limit
    Down(_),
    Backup         \* the peers of the backup group

VARIABLES
    holding,       \* the peer a request got and has not released, or NoPeer
    given          \* the peers a request got so far

pickerVars == <<holding, given>>

PickerTypeOK ==
    /\ holding \in [Pickers -> Peers \cup {NoPeer}]
    /\ given \in [Pickers -> SUBSET Peers]

HoldersOf(p) == {g \in Pickers : holding[g] = p}

PickerInit ==
    /\ holding = [g \in Pickers |-> NoPeer]
    /\ given = [g \in Pickers |-> {}]

\* Mutant of Pick: a peer may be given to the same request again.
PickAgain(g, p) ==
    /\ holding[g] = NoPeer
    /\ ~Down(p)
    /\ holding' = [holding EXCEPT ![g] = p]
    /\ given' = [given EXCEPT ![g] = @ \cup {p}]

Pick(g, p) ==
    /\ holding[g] = NoPeer
    /\ p \notin given[g]
    /\ ~Down(p)
    /\ MaxConns(p) > 0 => Cardinality(HoldersOf(p)) < MaxConns(p)
    /\ given[g] \cap Backup # {} => p \in Backup
    /\ holding' = [holding EXCEPT ![g] = p]
    /\ given' = [given EXCEPT ![g] = @ \cup {p}]

Release(g) ==
    /\ holding[g] # NoPeer
    /\ holding' = [holding EXCEPT ![g] = NoPeer]
    /\ UNCHANGED given

\* The request is over; its slot may be used for another one.
Discard(g) ==
    /\ holding[g] = NoPeer
    /\ given' = [given EXCEPT ![g] = {}]
    /\ UNCHANGED holding

PickerNext ==
    \E g \in Pickers :
        \/ \E p \in Peers : Pick(g, p)
        \/ Release(g)
        \/ Discard(g)

PickerSpec == PickerInit /\ [][PickerNext]_pickerVars
=============================================================================
