----------------------------- MODULE MCBalancers -----------------------------
(***************************************************************************)
(* Pools, keys and a ring for the model checking of Balancers.             *)
(***************************************************************************)
EXTENDS Balancers, TLC

Srv(weight, maxFails, failTimeout, maxConns) ==
    [Weight |-> weight, MaxFails |-> maxFails, FailTimeout |-> failTimeout,
     MaxConns |-> maxConns, Down |-> FALSE, Backup |-> FALSE,
     explicit |-> {"MaxFails", "FailTimeout"}]

AsBackup(s) == [s EXCEPT !.Backup = TRUE]

\* Two primaries of different weight, the lighter one first, never suspended and
\* limited to two connections, the heavier one losing half of its weight before it
\* is suspended.
PoolLoad == <<Srv(1, 0, 0, 2), Srv(2, 2, 0, 0)>>

\* Two primaries, the first suspended by its first failure and the second limited
\* to one connection, and a backup.
PoolFallback == <<Srv(1, 1, 0, 0), Srv(1, 0, 0, 1), AsBackup(Srv(1, 0, 0, 0))>>

\* One primary and two backups: the one case in which the IP-hash picker hashes
\* over the backup group.
PoolBackups == <<Srv(1, 1, 0, 0), AsBackup(Srv(1, 1, 0, 0)), AsBackup(Srv(2, 0, 0, 1))>>

\* A ring with two servers, one of which has several points in a row, and one whose
\* peers all have the same address.  From the second point of the first one a walk
\* passes two points of "b", comes to "a" and then to "b" again.
TwoAddresses == [p \in Peers |-> IF p = 1 THEN "a" ELSE "b"]
TwoServers == <<"a", "b", "b">>
OneAddress == [p \in Peers |-> "a"]
OneServer == <<"a">>

\* The second point of a ring that has one.
Starts == [k \in Keys \ {NoKey} |-> Len(Points) \div 3]

NoAddress == <<>>
Client == {<<10, 1, 2, 7>>}
ClientOrNone == Client \cup {NoAddress}

\* The first hash value is the last one below 2^15, the others follow one by one.
Checksums ==
    [k \in Keys \ {NoKey} |-> [n \in 1 .. MaxHashes |-> IF n = 1 THEN 32767 ELSE 1]]

Symmetry == Permutations(Pickers)
==============================================================================
