---------------------------- MODULE MCRegistration ----------------------------
(***************************************************************************)
(* Upstream blocks for the model checking of Registration.                 *)
(***************************************************************************)
EXTENDS Registration

Srv == [addr |-> "url", Weight |-> 1, MaxConns |-> 0, MaxFails |-> 1, FailTimeout |-> 1,
        Down |-> FALSE, explicitWeight |-> FALSE, nilOption |-> FALSE]
Bare    == [Srv EXCEPT !.addr = "bare"]
DownSrv == [Srv EXCEPT !.Down = TRUE]

\* Servers that are to be refused, each for one reason, and two that are not.
OddServers ==
    {[Srv EXCEPT !.addr = "empty"], [Srv EXCEPT !.addr = "invalid"], [Srv EXCEPT !.Weight = -1],
     [Srv EXCEPT !.Weight = 0, !.explicitWeight = TRUE], [Srv EXCEPT !.MaxConns = -1],
     [Srv EXCEPT !.MaxFails = -1], [Srv EXCEPT !.FailTimeout = -1], [Srv EXCEPT !.nilOption = TRUE],
     [Srv EXCEPT !.Weight = 0], DownSrv}

Block(pattern, servers, algo, hashFunc, sslName) ==
    [pattern |-> pattern, servers |-> servers, algo |-> algo, hashFunc |-> hashFunc,
     sslName |-> sslName]

UpstreamBlocks ==
    {Block("h1", <<Srv, Bare>>, a, f, FALSE) : a \in Algorithms \cup {"other"}, f \in BOOLEAN}
    \cup {Block("h2", <<Bare, s>>, "LeastConn", FALSE, FALSE) : s \in OddServers}
    \cup {Block("h2", <<DownSrv>>, "RoundRobin", FALSE, TRUE), Block("h2", <<>>, "Random", FALSE, FALSE),
          Block("h2", <<Bare, Srv>>, "IPHash", FALSE, TRUE),
          Block("invalid", <<Srv>>, "RoundRobin", FALSE, FALSE)}

HostNames == {"h1", "h2", "h3"}
Schemes == [k \in HostNames |-> IF k = "h2" THEN "https" ELSE "http"]
===============================================================================
