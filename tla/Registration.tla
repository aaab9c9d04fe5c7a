----------------------------- MODULE Registration -----------------------------
(***************************************************************************)
(* The construction of a Transport (transport.go): NewTransportE applies   *)
(* the options one after the other, WithUpstreams validates and registers  *)
(* upstream blocks, and what is wrong is collected in initErr, which       *)
(* RoundTrip returns for every request.  Then the way a request takes up   *)
(* to its picker.                                                          *)
(***************************************************************************)
EXTENDS Integers, Sequences, FiniteSets, Functions

CONSTANTS
    Hosts,        \* (scheme, host) pairs of URLs, Scheme giving their scheme
    Scheme,
    Blocks,       \* the UpstreamConfigs that are considered
    MaxOptions    \* bound: options passed to NewTransportE

\* An address has a scheme of its own ("url"), or not ("bare"), or is no address.
ServerConfig ==
    [addr : {"url", "bare", "empty", "invalid"}, Weight : Int, MaxConns : Int, MaxFails : Int,
     FailTimeout : Int, Down : BOOLEAN, explicitWeight : BOOLEAN, nilOption : BOOLEAN]

Algorithms == {"RoundRobin", "LeastConn", "IPHash", "Hash", "Random", "RandomTwo", "HashConsistent"}
KeyedAlgorithms == {"Hash", "HashConsistent"}

\* pattern: the URL of the block, or "invalid".
ASSUME BlocksAssumption ==
    /\ MaxOptions \in Nat
    /\ DOMAIN Scheme = Hosts /\ \A k \in Hosts : Scheme[k] # ""
    /\ \A b \in Blocks : /\ b.pattern \in Hosts \cup {"invalid"}
                         /\ b.servers \in Seq(ServerConfig)
                         /\ b.hashFunc \in BOOLEAN /\ b.sslName \in BOOLEAN

VARIABLES
    pc,           \* "options", "built"
    transport,    \* the underlying RoundTripper: "nil", "standard", "custom"
    settings,     \* timeouts, buffer size, retry condition and gate; 0 is the default
    upstreams,    \* the registered upstreams, a function on some of Hosts
    initErr,      \* the errors that were joined, {} for nil
    served,       \* the host of the last request and what its picker was made from
    options,      \* how many options were applied
    given,        \* auxiliary: the blocks passed so far
    rejected      \* auxiliary: an option with a value that is not allowed

vars == <<pc, transport, settings, upstreams, initErr, served, options, given, rejected>>

Settings == {"timeout", "connectTimeout", "maxBodyBuffer", "nextUpstream", "retryNonIdempotent"}

TypeOK ==
    /\ pc \in {"options", "built"}
    /\ transport \in {"nil", "standard", "custom"}
    /\ settings \in [Settings -> Nat]
    /\ DOMAIN upstreams \subseteq Hosts
    /\ rejected \in BOOLEAN

Init ==
    /\ pc = "options"
    /\ transport = "nil"
    /\ settings = [s \in Settings |-> 0]
    /\ upstreams = <<>>
    /\ initErr = {}
    /\ served = [host |-> "none", via |-> "refused"]
    /\ options = 0
    /\ given = <<>>
    /\ rejected = FALSE

-------------------------------------------------------------------------------
(* One upstream block. *)

validate(s) ==
    {e \in {"nil server option", "weight", "max_conns", "max_fails", "fail_timeout"} :
        CASE e = "nil server option" -> s.nilOption
          [] e = "weight"            -> s.Weight < 0 \/ (s.explicitWeight /\ s.Weight = 0)
          [] e = "max_conns"         -> s.MaxConns < 0
          [] e = "max_fails"         -> s.MaxFails < 0
          [] e = "fail_timeout"      -> s.FailTimeout < 0}

\* Mutant of addressErrors: an address that does not parse is skipped.
addressErrorsSilent(s) == IF s.addr = "empty" THEN {"empty address"} ELSE {}

addressErrors(s) ==
    CASE s.addr = "empty"   -> {"empty address"}
      [] s.addr = "invalid" -> {"invalid address"}
      [] OTHER              -> {}

\* registerExplicitUpstream validates each server and passes the valid ones to
\* addPeer, which leaves out those without an address.
serverErrors(b) ==
    UNION {IF validate(s) # {} THEN validate(s) ELSE addressErrors(s) : s \in Range(b.servers)}

accepted(s) == validate(s) = {} /\ s.addr \in {"url", "bare"}

\* The peers the loop over the servers leaves, in their order.
peers(b) ==
    LET loop[i \in 0 .. Len(b.servers)] ==
            IF i = 0 THEN <<>>
            ELSE IF accepted(b.servers[i]) THEN Append(loop[i - 1], b.servers[i])
            ELSE loop[i - 1]
    IN loop[Len(b.servers)]

\* Mutant of schemes: an address without a scheme stays without.
schemesAsParsed(b) == [i \in DOMAIN peers(b) |-> IF peers(b)[i].addr = "url" THEN "own" ELSE ""]

\* The scheme requests to a peer are rewritten to: addPeer knows no default yet,
\* registerUpstream fills in that of the pattern.
schemes(b) ==
    [i \in DOMAIN peers(b) |-> IF peers(b)[i].addr = "url" THEN "own" ELSE Scheme[b.pattern]]

\* normalize.
algorithm(b) == IF b.hashFunc /\ b.algo = "RoundRobin" THEN "Hash" ELSE b.algo

normalizeErrors(b) ==
    IF algorithm(b) \notin Algorithms THEN {"unsupported algorithm"}
    ELSE IF b.hashFunc /\ algorithm(b) \notin KeyedAlgorithms THEN {"hash function not used"}
    ELSE IF ~b.hashFunc /\ algorithm(b) \in KeyedAlgorithms THEN {"no hash function"}
    ELSE {}

usable(b) == {i \in DOMAIN peers(b) : ~peers(b)[i].Down}

\* The checks of registerUpstream, in their order; the first that fails decides.
registerErrors(b) ==
    IF b.pattern = "invalid" THEN {"invalid pattern"}
    ELSE IF serverErrors(b) \cup normalizeErrors(b) # {}
         THEN serverErrors(b) \cup normalizeErrors(b)
    ELSE IF peers(b) = <<>> THEN {"no backends"}
    ELSE IF usable(b) = {} THEN {"all servers are down"}
    ELSE IF b.pattern \in DOMAIN upstreams THEN {"duplicate upstream"}
    ELSE {}

newBalancer(algo) == IF algo \in Algorithms THEN algo ELSE "RoundRobin"

upstreamOf(b) ==
    [algo |-> algorithm(b), balancer |-> newBalancer(algorithm(b)), hashFunc |-> b.hashFunc,
     peers |-> peers(b), schemes |-> schemes(b),
     multipleUsablePeers |-> Cardinality(usable(b)) > 1,
     sslName |-> b.sslName, transport |-> "nil"]

-------------------------------------------------------------------------------
(* Options. *)

option == pc = "options" /\ options < MaxOptions /\ options' = options + 1

\* WithUpstreams with one block.
WithUpstream(b) ==
    /\ option
    /\ given' = Append(given, b)
    /\ initErr' = initErr \cup registerErrors(b)
    /\ upstreams' = IF registerErrors(b) # {} THEN upstreams
                    ELSE [k \in DOMAIN upstreams \cup {b.pattern} |->
                             IF k = b.pattern THEN upstreamOf(b) ELSE upstreams[k]]
    /\ UNCHANGED <<pc, transport, settings, served, rejected>>

WithRoundTripper(rt) ==
    /\ option
    /\ transport' = IF rt = "nil" THEN transport ELSE rt
    /\ initErr' = IF rt = "nil" THEN initErr \cup {"nil RoundTripper"} ELSE initErr
    /\ rejected' = (rejected \/ rt = "nil")
    /\ UNCHANGED <<pc, settings, upstreams, served, given>>

\* WithTimeout, WithConnectTimeout, WithMaxBodyBuffer, WithNextUpstream (-1 is nil)
\* and WithNextUpstreamCodes.
WithSetting(s, v) ==
    /\ option
    /\ settings' = IF v < 0 THEN settings ELSE [settings EXCEPT ![s] = v]
    /\ initErr' = IF v < 0 THEN initErr \cup {s} ELSE initErr
    /\ rejected' = (rejected \/ v < 0)
    /\ UNCHANGED <<pc, transport, upstreams, served, given>>

WithNonIdempotentRetries ==
    /\ option
    /\ settings' = [settings EXCEPT !["retryNonIdempotent"] = 1]
    /\ UNCHANGED <<pc, transport, upstreams, initErr, served, given, rejected>>

\* A nil option is an error and the next one is applied.
NilOption ==
    /\ option
    /\ initErr' = initErr \cup {"nil transport option"}
    /\ rejected' = TRUE
    /\ UNCHANGED <<pc, transport, settings, upstreams, served, given>>

\* Mutant of cloneForSSL: a RoundTripper that cannot be cloned is used as it is.
cloneAnyForSSL(rt) ==
    /\ upstreams' = [k \in DOMAIN upstreams |->
           IF upstreams[k].sslName /\ rt = "standard"
           THEN [upstreams[k] EXCEPT !.transport = "cloned"] ELSE upstreams[k]]
    /\ UNCHANGED initErr

\* Each upstream with a TLS server name gets a RoundTripper of its own.
cloneForSSL(rt) ==
    /\ upstreams' = [k \in DOMAIN upstreams |->
           IF upstreams[k].sslName /\ rt = "standard"
           THEN [upstreams[k] EXCEPT !.transport = "cloned"] ELSE upstreams[k]]
    /\ initErr' = IF rt # "standard" /\ \E k \in DOMAIN upstreams : upstreams[k].sslName
                  THEN initErr \cup {"ProxySSLName"} ELSE initErr

\* The end of NewTransportE.
Build ==
    /\ pc = "options"
    /\ pc' = "built"
    /\ transport' = IF transport = "nil" THEN "standard" ELSE transport
    /\ cloneForSSL(transport')
    /\ UNCHANGED <<settings, served, options, given, rejected>>

-------------------------------------------------------------------------------
(* A request. *)

\* Mutant of newPicker: the key is only computed for the plain hash.
newPickerPlainHash(ups) ==
    CASE ups.algo = "IPHash" /\ ups.balancer = "IPHash"                -> "address"
      [] ups.algo = "Hash" /\ ups.balancer = ups.algo /\ ups.hashFunc -> "key"
      [] OTHER                                                         -> "nothing"

\* newPicker: what it is made from.
newPicker(ups) ==
    CASE ups.algo = "IPHash" /\ ups.balancer = "IPHash"                           -> "address"
      [] ups.algo \in KeyedAlgorithms /\ ups.balancer = ups.algo /\ ups.hashFunc -> "key"
      [] OTHER                                                                    -> "nothing"

\* Mutant of Request: a request is only refused if it needs an upstream.
RequestChecksUpstream(k) ==
    /\ pc = "built"
    /\ served' = IF k \notin DOMAIN upstreams THEN [host |-> k, via |-> "passed through"]
                 ELSE IF initErr # {} THEN [host |-> k, via |-> "refused"]
                 ELSE [host |-> k, via |-> newPicker(upstreams[k])]
    /\ UNCHANGED <<pc, transport, settings, upstreams, initErr, options, given, rejected>>

\* RoundTrip up to the picker.
Request(k) ==
    /\ pc = "built"
    /\ served' = IF initErr # {} THEN [host |-> k, via |-> "refused"]
                 ELSE IF k \notin DOMAIN upstreams THEN [host |-> k, via |-> "passed through"]
                 ELSE [host |-> k, via |-> newPicker(upstreams[k])]
    /\ UNCHANGED <<pc, transport, settings, upstreams, initErr, options, given, rejected>>

Next ==
    \/ \E b \in Blocks : WithUpstream(b)
    \/ \E rt \in {"nil", "standard", "custom"} : WithRoundTripper(rt)
    \/ \E s \in Settings \ {"retryNonIdempotent"}, v \in {-1, 1} : WithSetting(s, v)
    \/ WithNonIdempotentRetries
    \/ NilOption
    \/ Build
    \/ \E k \in Hosts : Request(k)

Spec == Init /\ [][Next]_vars

-------------------------------------------------------------------------------
(* Properties. *)

blocksGiven == Range(given)

\* Nothing that was configured is lost without an error: when construction
\* succeeds each block is registered under its own host with all of its servers,
\* none replaced another one, and no option was refused (NewTransportE).
NothingLostSilently ==
    initErr = {} =>
        /\ ~rejected
        /\ \A b \in blocksGiven :
              /\ b.pattern \in DOMAIN upstreams
              /\ upstreams[b.pattern].peers = b.servers
        /\ \A i, j \in DOMAIN given :
              i # j => given[i].pattern # given[j].pattern

\* What is registered can be worked with: some server is not down, the settings
\* of each are in the range the balancers assume, each has a scheme to be reached
\* by, and the balancer is the supported one its picker is made for (registerUpstream).
RegisteredUsable ==
    \A k \in DOMAIN upstreams :
        LET u == upstreams[k] IN
        /\ \E s \in Range(u.peers) : ~s.Down
        /\ \A s \in Range(u.peers) : s.Weight >= 0 /\ s.MaxConns >= 0 /\ s.MaxFails >= 0
                                     /\ s.FailTimeout >= 0
        /\ \A i \in DOMAIN u.peers : u.schemes[i] # ""
        /\ u.algo \in Algorithms /\ u.balancer = u.algo

\* A hash function is never ignored: once requests are served, those of a block
\* that has one are balanced by their key, however the algorithm was chosen
\* (normalize, newPicker).
HashFunctionUsed ==
    \A b \in blocksGiven :
        /\ served.via # "refused"
        /\ b.hashFunc /\ served.host = b.pattern
        => served.via = "key"

\* A TLS server name is never ignored either, whatever the order of the options:
\* the upstream has its own RoundTripper or no request is served (NewTransportE).
ServerNameUsed ==
    served.via # "refused"
    => \A k \in DOMAIN upstreams : upstreams[k].sslName => upstreams[k].transport = "cloned"

\* A Transport with a rejected option, an invalid pattern or a server that is in
\* error serves no request, not even one that would not need what is wrong ("Invalid configuration is ... surfaced through
\* Err() / RoundTrip()", transport.go).
BrokenServesNothing ==
    served.via # "refused"
    => ~rejected /\ \A b \in blocksGiven : b.pattern # "invalid" /\ serverErrors(b) = {}
===============================================================================
