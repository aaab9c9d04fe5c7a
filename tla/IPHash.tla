-------------------------------- MODULE IPHash --------------------------------
(***************************************************************************)
(* The IP-hash picker (iphash.go).  The client's address is folded into a  *)
(* rolling hash, which selects a peer by weight.  Unlike the other hash    *)
(* pickers it also hashes over the backup group, once the request is there *)
(* and as far as its budget of tries goes.                                 *)
(***************************************************************************)
EXTENDS Candidates, SequencesExt

\* A key is the client's address, four or sixteen bytes, or <<>>.
ASSUME AddressesAssumption ==
    /\ NoKey = <<>>
    /\ \A k \in Keys \ {NoKey} : Len(k) \in {4, 16} /\ k \in Seq(0 .. 255)

\* Of an IPv4 address the first three bytes count.
prefix(k) == IF Len(k) = 4 THEN SubSeq(k, 1, 3) ELSE k

fold(h, k) == FoldLeft(LAMBDA x, byte : (x * 113 + byte) % 6271, h, prefix(k))

\* The n-th value of the field hash.
rollingHash(k, n) ==
    LET value[i \in 0 .. MaxHashes] == IF i = 0 THEN 89 ELSE fold(value[i - 1], k)
    IN  value[n]

\* As in Hash, TotalWeight is assumed to be less than 2^32.
ipCandidates ==
    [k \in Keys \ {NoKey} |-> [G \in {H \in {Primary, Backup} : Cardinality(H) >= 2} |->
        [n \in 1 .. MaxHashes |-> owner(G, rollingHash(k, n) % TotalWeight(G))]]]

\* Mutant of group: the phase of the request is not considered.
groupAnyPhase(g) == IF Backup # {} THEN Backup ELSE Primary

\* The group that Pick hashes over.
group(g) == IF backupPhase[g] /\ Backup # {} THEN Backup ELSE Primary

ipUsesKey(g) == key[g] # NoKey /\ Cardinality(group(g)) >= 2

IPHashPick(g) == ipUsesKey(g) /\ tryCandidates(g, group(g), ipCandidates[key[g]][group(g)])

IPHashGivesUp(g) == ipUsesKey(g) /\ candidatesExhausted(g, group(g), ipCandidates[key[g]][group(g)])

IPHashFallsBack(g) == ~(ipUsesKey(g) /\ mayTry(g)) /\ RRPick(g)

IPHashStep(g) ==
    \/ IPHashPick(g)
    \/ IPHashGivesUp(g)
    \/ IPHashFallsBack(g)
    \/ CandidatesDone(g)
===============================================================================
