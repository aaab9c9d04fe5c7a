------------------------- MODULE MCBalancedTransport -------------------------
(***************************************************************************)
(* A small upstream for the model checking of BalancedTransport.           *)
(***************************************************************************)
EXTENDS BalancedTransport, TLC

Srv == [Weight |-> 1, MaxFails |-> 1, FailTimeout |-> 0, MaxConns |-> 0,
        Down |-> FALSE, Backup |-> FALSE, explicit |-> {"FailTimeout"}]

\* A primary and a backup, which are suspended by their first failure until the
\* next reading of the clock; the backup takes one request at a time.
Pool == <<Srv, [Srv EXCEPT !.Backup = TRUE, !.MaxConns = 1]>>

\* Retries of errors, of a 5xx and of 404, by an *http.Transport.
Retrying ==
    {[standard |-> TRUE, timeout |-> FALSE, retryNonIdempotent |-> FALSE,
      nextUpstream |-> {"error", "both", "neither", "nobody", "bad", "denied"}]}

Req(target, idempotent, body) == [target |-> target, idempotent |-> idempotent, body |-> body]

Kinds == {Req("upstream", TRUE, "GetBody"), Req("upstream", FALSE, "none"),
          Req("other", TRUE, "none")}

Symmetry == Permutations(Pickers)
===============================================================================
