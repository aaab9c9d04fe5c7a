----------------------------- MODULE MCTransport -----------------------------
(***************************************************************************)
(* Small upstreams and the options of the Transport for the model checking *)
(* of Transport.                                                           *)
(***************************************************************************)
EXTENDS Transport, TLC

CONSTANTS LimitedPeers, DownPeers

MCMaxConns(p) == IF p \in LimitedPeers THEN 1 ELSE 0
MCDown(p) == p \in DownPeers

Errors == {"error", "both", "neither", "nobody"}

\* The default condition (errors only), WithNextUpstreamCodes with a 5xx and 404,
\* and a custom condition that retries bad statuses but not errors.
Conditions == {Errors, Errors \cup {"bad", "denied"}, {"bad"}}

AllConfigs == [standard : BOOLEAN, timeout : BOOLEAN, retryNonIdempotent : BOOLEAN,
               nextUpstream : Conditions]

\* A Transport for the run in which several calls compete for peers.
SharedConfigs ==
    {[standard |-> TRUE, timeout |-> TRUE, retryNonIdempotent |-> FALSE,
      nextUpstream |-> Errors \cup {"bad"}]}

Req(idempotent, body) == [target |-> "upstream", idempotent |-> idempotent, body |-> body]

FewRequests == {Req(TRUE, "none"), Req(FALSE, "stream")}
===============================================================================
