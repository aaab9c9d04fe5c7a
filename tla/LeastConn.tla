------------------------------ MODULE LeastConn ------------------------------
(***************************************************************************)
(* The least-connections picker (leastconn.go).  It embeds RRPicker and    *)
(* replaces the choice of a peer: the one with the fewest connections per  *)
(* weight, smooth weighted round-robin among several such peers.           *)
(***************************************************************************)
EXTENDS RoundRobin

\* Mutant of fewer: the weights are not considered.
fewerUnweighted(p, q) == conns[p] < conns[q]

\* conns/weight of p is less than that of q, compared crosswise.
fewer(p, q) == conns[p] * Weight(q) < conns[q] * Weight(p)

equallyLoaded(p, q) == conns[p] * Weight(q) = conns[q] * Weight(p)

\* The scan comes to peer p of the slice; s is the best one so far, and whether it
\* has been equalled.
visit(E, s, p) ==
    IF p \notin E THEN s
    ELSE IF s.best = NoPeer THEN [best |-> p, many |-> FALSE]
    ELSE IF fewer(p, s.best) THEN [best |-> p, many |-> FALSE]
    ELSE IF equallyLoaded(p, s.best) THEN [s EXCEPT !.many = TRUE]
    ELSE s

leastScan(E) ==
    LET scan[i \in 0 .. NPeers] ==
            IF i = 0 THEN [best |-> NoPeer, many |-> FALSE] ELSE visit(E, scan[i - 1], i)
    IN  scan[NPeers]

\* leastConnPicker.pickFromGroup, when it returns a peer.
pickLeastFromGroup(g, G) ==
    LET E     == Selectable(g, G, now)
        least == leastScan(E)
        tied  == {p \in E : equallyLoaded(p, least.best)}
    IN  \E best \in E :
          /\ \/ least.many /\ best \in tied /\ smoothWeightedPeer(tied, best)
             \/ ~least.many /\ best = least.best /\ UNCHANGED weightVars
          /\ commitPeer(g, best, now)

\* pickFromCurrentGroup: a single peer is left to the round-robin picker.
pickFromCurrentGroup(g, G) ==
    IF single THEN pickFromGroup(g, G) ELSE pickLeastFromGroup(g, G)

LeastPickPrimary(g) ==
    /\ pc[g] = "ready" /\ ~backupPhase[g]
    /\ pickFromCurrentGroup(g, Primary)
    /\ UNCHANGED <<now, backupPhase, started>>

LeastPickBackup(g) ==
    /\ inBackupPhase(g)
    /\ pickFromCurrentGroup(g, Backup)
    /\ UNCHANGED <<now, backupPhase, started>>

LeastStep(g) ==
    \/ LeastPickPrimary(g)
    \/ PrimaryExhausted(g)
    \/ LeastPickBackup(g)
    \/ BackupExhausted(g)
    \/ \E outcome \in Outcomes : Done(g, outcome)
===============================================================================
