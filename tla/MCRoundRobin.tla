----------------------------- MODULE MCRoundRobin -----------------------------
(***************************************************************************)
(* A small pool for the model checking of RoundRobin.                      *)
(***************************************************************************)
EXTENDS RoundRobin, TLC

Srv == [Weight |-> 1, MaxFails |-> 0, FailTimeout |-> 1, MaxConns |-> 0,
        Down |-> FALSE, Backup |-> FALSE, explicit |-> {"FailTimeout"}]

\* A primary that a failure suspends for a short time, and a backup with room for one
\* request that a failure suspends for good.
PoolOnePrimary ==
    <<Srv, [Srv EXCEPT !.Backup = TRUE, !.MaxConns = 1, !.FailTimeout = 5]>>

Symmetry == Permutations(Pickers)
===============================================================================
