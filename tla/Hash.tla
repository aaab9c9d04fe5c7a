--------------------------------- MODULE Hash ---------------------------------
(***************************************************************************)
(* The hash picker (hash.go).  The n-th hash value of a request is the sum *)
(* of n checksums of its key, and selects a peer by weight.                *)
(***************************************************************************)
EXTENDS Candidates

\* External: Checksum[k][i] is (crc32 of the rehash count i and the key k >> 16)
\* & 0x7fff.
CONSTANT Checksum

ASSUME ChecksumAssumption == Checksum \in [Keys \ {NoKey} -> [1 .. MaxHashes -> 0 .. 32767]]

\* The n-th value of the field hash.  With the few values a request computes the
\* sum does not leave 32 bits.
hashValue(k, n) ==
    LET sum[i \in 0 .. MaxHashes] == IF i = 0 THEN 0 ELSE sum[i - 1] + Checksum[k][i]
    IN  sum[n]

hashUsesKey(g) == key[g] # NoKey /\ Cardinality(Primary) >= 2

\* The code reduces TotalWeight to 32 bits first; weights are assumed to add up to
\* less than 2^32, as those of any real group do.
hashCandidates ==
    [k \in Keys \ {NoKey} |-> [n \in 1 .. MaxHashes |-> owner(Primary, hashValue(k, n) % TotalWeight(Primary))]]

HashPick(g) == hashUsesKey(g) /\ tryCandidates(g, Primary, hashCandidates[key[g]])

HashGivesUp(g) == hashUsesKey(g) /\ candidatesExhausted(g, Primary, hashCandidates[key[g]])

HashFallsBack(g) == ~(hashUsesKey(g) /\ mayTry(g)) /\ RRPick(g)

HashStep(g) ==
    \/ HashPick(g)
    \/ HashGivesUp(g)
    \/ HashFallsBack(g)
    \/ CandidatesDone(g)
===============================================================================
