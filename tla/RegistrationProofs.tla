-------------------------- MODULE RegistrationProofs --------------------------
(***************************************************************************)
(* Proofs about the construction of a Transport (Registration), for any    *)
(* hosts, any blocks with any number of servers and any number of options  *)
(* in any order.                                                           *)
(***************************************************************************)
EXTENDS Registration, Loops

-------------------------------------------------------------------------------
(* One block. *)

\* The peers after each server.
kept(b) == CHOOSE loop : loop = [i \in 0 .. Len(b.servers) |->
              IF i = 0 THEN <<>>
              ELSE IF accepted(b.servers[i]) THEN Append(loop[i - 1], b.servers[i])
              ELSE loop[i - 1]]

\* Without an error every server is accepted.
LEMMA AllAccepted ==
    ASSUME NEW b \in Blocks, serverErrors(b) = {}, NEW i \in 1 .. Len(b.servers)
    PROVE  accepted(b.servers[i])
  <1> DEFINE s == b.servers[i]
  <1>1. b.servers \in Seq(ServerConfig)  BY BlocksAssumption
  <1>2. s \in Range(b.servers) /\ s \in ServerConfig  BY <1>1 DEF Range
  <1>3. (IF validate(s) # {} THEN validate(s) ELSE addressErrors(s)) = {}
    <2> HIDE DEF s
    <2>1. (IF validate(s) # {} THEN validate(s) ELSE addressErrors(s)) \subseteq serverErrors(b)
      BY <1>2 DEF serverErrors
    <2> QED  BY <2>1
  <1>4. validate(s) = {} /\ addressErrors(s) = {}  BY <1>3
  <1>5. s.addr \in {"url", "bare", "empty", "invalid"}  BY <1>2 DEF ServerConfig
  <1> QED  BY <1>4, <1>5 DEF accepted, addressErrors

\* Beginnings of a sequence.
LEMMA Beginnings ==
    ASSUME NEW S, NEW s \in Seq(S)
    PROVE  /\ Len(s) \in Nat
           /\ SubSeq(s, 1, 0) = <<>> /\ SubSeq(s, 1, Len(s)) = s
           /\ \A i \in 1 .. Len(s) : SubSeq(s, 1, i) = Append(SubSeq(s, 1, i - 1), s[i])
  OBVIOUS

\* Then the loop keeps all of them.
LEMMA AllKept ==
    ASSUME NEW b \in Blocks, serverErrors(b) = {}
    PROVE  peers(b) = b.servers
  <1> DEFINE s == b.servers
             N == Len(s)
             Def(l) == [i \in 0 .. N |-> IF i = 0 THEN <<>>
                                         ELSE IF accepted(s[i]) THEN Append(l[i - 1], s[i])
                                         ELSE l[i - 1]]
             r == [i \in 0 .. N |-> SubSeq(s, 1, i)]
  <1>1. s \in Seq(ServerConfig)  BY BlocksAssumption
  <1>2. \A i \in 1 .. N : accepted(s[i])  BY AllAccepted
  <1>3. peers(b) = kept(b)[N]  BY Zenon DEF peers, kept
  <1>4. N \in Nat /\ SubSeq(s, 1, 0) = <<>> /\ SubSeq(s, 1, N) = s  BY <1>1, Beginnings
  <1>5. \A i \in 1 .. N : SubSeq(s, 1, i) = Append(SubSeq(s, 1, i - 1), s[i])
    BY <1>1, Beginnings
  <1>6. kept(b) = Def(kept(b))
    <2>1. r = Def(r)
      <3> HIDE DEF s, N
      <3>1. ASSUME NEW i \in 1 .. N PROVE r[i] = Append(r[i - 1], s[i])
        <4>1. i \in 0 .. N /\ i - 1 \in 0 .. N  BY <1>4
        <4> QED  BY <1>5, <4>1
      <3>2. r[0] = <<>>  BY <1>4
      <3>3. \A i \in 0 .. N : r[i] = Def(r)[i]
        <4> TAKE i \in 0 .. N
        <4>1. i = 0 \/ i \in 1 .. N  BY <1>4
        <4> HIDE DEF r
        <4> QED  BY <1>2, <3>1, <3>2, <4>1
      <3> QED  BY <3>3
    <2> QED  BY <2>1, Zenon DEF kept
  <1> DEFINE k == kept(b)
  <1>7. k = Def(k) /\ k[0] = <<>>
    <2>1. k = Def(k)  BY <1>6
    <2>2. 0 \in 0 .. N  BY <1>4
    <2> HIDE DEF k, s, N
    <2>3. k[0] = Def(k)[0]  BY <2>1
    <2> QED  BY <2>1, <2>2, <2>3
  <1>8. ASSUME NEW i \in 1 .. N PROVE k[i] = Append(k[i - 1], s[i])
    <2>1. i \in 0 .. N /\ i # 0  BY <1>4
    <2> HIDE DEF s, N, k
    <2> QED  BY <1>2, <1>7, <2>1
  <1> DEFINE T == {i \in 0 .. N : k[i] = SubSeq(s, 1, i)}
  <1> HIDE DEF s, N, k
  <1>9. 0 \in T
    <2>1. 0 \in 0 .. N  BY <1>4
    <2>2. k[0] = SubSeq(s, 1, 0)  BY <1>4, <1>7, Zenon
    <2> QED  BY <2>1, <2>2
  <1>10. ASSUME NEW i \in 1 .. N, i - 1 \in T PROVE i \in T
    <2>1. i \in 0 .. N /\ k[i - 1] = SubSeq(s, 1, i - 1)  BY <1>4, <1>10
    <2>2. k[i] = SubSeq(s, 1, i)  BY <1>5, <1>8, <2>1
    <2> QED  BY <2>1, <2>2
  <1>11. 0 .. N \subseteq T
    <2> HIDE DEF T
    <2> QED  BY <1>4, <1>9, <1>10, UpTo
  <1>12. N \in T  BY <1>4, <1>11
  <1> QED  BY <1>3, <1>4, <1>12 DEF s, N, k

-------------------------------------------------------------------------------
(* The inductive invariant. *)

\* The block passed every check of registerUpstream but that for duplicates.
sound(b) ==
    /\ b.pattern \in Hosts /\ b.pattern # "invalid"
    /\ serverErrors(b) = {} /\ normalizeErrors(b) = {}
    /\ usable(b) # {}

\* What is registered for it, before (t = "nil") or after it got a RoundTripper of
\* its own (t = "cloned").
entry(b, t) ==
    [algo |-> algorithm(b), balancer |-> newBalancer(algorithm(b)), hashFunc |-> b.hashFunc,
     peers |-> peers(b), schemes |-> schemes(b),
     multipleUsablePeers |-> Cardinality(usable(b)) > 1,
     sslName |-> b.sslName, transport |-> t]

registered(ups, b) == \E t \in {"nil", "cloned"} : ups[b.pattern] = entry(b, t)

\* Each upstream is that of a sound block.
Entries ==
    \A k \in DOMAIN upstreams : \E b \in Blocks : b.pattern = k /\ sound(b) /\ registered(upstreams, b)

\* Unless there is an error each block is sound and registered, and no two are
\* for one host.
Complete ==
    /\ given \in Seq(Blocks)
    /\ initErr = {} =>
          /\ ~rejected
          /\ \A i \in 1 .. Len(given) :
                given[i].pattern \in DOMAIN upstreams /\ sound(given[i]) /\ registered(upstreams, given[i])
          /\ \A i, j \in 1 .. Len(given) : i # j => given[i].pattern # given[j].pattern

\* A request is only served by a Transport that is complete and without an
\* error, and by the picker of its upstream.
Serving ==
    /\ pc = "built" /\ initErr = {} =>
          \A k \in DOMAIN upstreams : upstreams[k].sslName => upstreams[k].transport = "cloned"
    /\ served.via # "refused" =>
          /\ pc = "built" /\ initErr = {}
          /\ served.host \in DOMAIN upstreams => served.via = newPicker(upstreams[served.host])

RegInv == Entries /\ Complete /\ Serving

\* The invariant holds before the first option.
LEMMA RegInit == Init => RegInv
  BY DEF Init, RegInv, Entries, Complete, Serving

\* A block without an error is sound.
LEMMA NoErrors ==
    ASSUME NEW b \in Blocks, registerErrors(b) = {}
    PROVE  sound(b) /\ b.pattern \notin DOMAIN upstreams /\ upstreamOf(b) = entry(b, "nil")
  <1>1. b.pattern # "invalid" /\ serverErrors(b) \cup normalizeErrors(b) = {}
    BY DEF registerErrors
  <1>2. usable(b) # {} /\ b.pattern \notin DOMAIN upstreams  BY <1>1 DEF registerErrors
  <1>3. b.pattern \in Hosts  BY <1>1, BlocksAssumption
  <1> QED  BY <1>1, <1>2, <1>3 DEF sound, upstreamOf, entry

\* WithUpstream keeps the invariant, whether the block is accepted or refused.
LEMMA UpstreamStep == ASSUME RegInv, NEW b \in Blocks, WithUpstream(b) PROVE RegInv'
  <1> DEFINE n == Len(given) + 1
  <1>1. /\ pc = "options" /\ given' = Append(given, b) /\ initErr' = initErr \cup registerErrors(b)
        /\ UNCHANGED <<pc, served, rejected>>
    BY DEF WithUpstream, option
  <1>2. served.via = "refused"  BY <1>1 DEF RegInv, Serving
  <1>3. Serving'  BY <1>1, <1>2 DEF Serving
  <1>4. given' \in Seq(Blocks) /\ Len(given') = n /\ given'[n] = b
        /\ \A i \in 1 .. Len(given) : given'[i] = given[i]
    BY <1>1 DEF RegInv, Complete
  <1>5. CASE registerErrors(b) # {}
    <2>1. upstreams' = upstreams /\ initErr' # {}  BY <1>1, <1>5 DEF WithUpstream
    <2>2. Entries'
      BY <2>1 DEF RegInv, Entries, registered
    <2> QED  BY <1>3, <1>4, <2>1, <2>2 DEF RegInv, Complete
  <1>6. CASE registerErrors(b) = {}
    <2>1. sound(b) /\ b.pattern \notin DOMAIN upstreams /\ upstreamOf(b) = entry(b, "nil")
      BY <1>6, NoErrors
    <2>2. upstreams' = [k \in DOMAIN upstreams \cup {b.pattern} |->
                           IF k = b.pattern THEN entry(b, "nil") ELSE upstreams[k]]
      BY <1>6, <2>1 DEF WithUpstream
    <2>3. /\ DOMAIN upstreams' = DOMAIN upstreams \cup {b.pattern}
          /\ upstreams'[b.pattern] = entry(b, "nil")
          /\ \A k \in DOMAIN upstreams : upstreams'[k] = upstreams[k]
      BY <2>1, <2>2
    <2>4. ASSUME NEW c, c.pattern \in DOMAIN upstreams, registered(upstreams, c) PROVE registered(upstreams', c)
      BY <2>3, <2>4 DEF registered
    <2>5. registered(upstreams', b)  BY <2>3 DEF registered
    <2>6. Entries'
      <3> SUFFICES ASSUME NEW k \in DOMAIN upstreams'
                   PROVE  \E c \in Blocks : c.pattern = k /\ sound(c) /\ registered(upstreams', c)
        BY DEF Entries, sound
      <3>1. CASE k = b.pattern  BY <2>1, <2>5, <3>1
      <3>2. CASE k \in DOMAIN upstreams  BY <2>4, <3>2 DEF RegInv, Entries
      <3> QED  BY <2>3, <3>1, <3>2
    <2>7. Complete'
      <3> SUFFICES ASSUME initErr = {}
                   PROVE  /\ ~rejected
                          /\ \A i \in 1 .. n : /\ given'[i].pattern \in DOMAIN upstreams'
                                               /\ sound(given'[i]) /\ registered(upstreams', given'[i])
                          /\ \A i, j \in 1 .. n : i # j => given'[i].pattern # given'[j].pattern
        BY <1>1, <1>4 DEF Complete
      <3>1. \A i \in 1 .. n : i = n \/ i \in 1 .. Len(given)  BY DEF RegInv, Complete
      <3>2. ASSUME NEW i \in 1 .. Len(given)
            PROVE  /\ given'[i].pattern \in DOMAIN upstreams
                   /\ sound(given'[i]) /\ registered(upstreams', given'[i])
        BY <1>4, <2>4 DEF RegInv, Complete
      <3>3. \A i \in 1 .. n : /\ given'[i].pattern \in DOMAIN upstreams'
                              /\ sound(given'[i]) /\ registered(upstreams', given'[i])
        BY <1>4, <2>1, <2>3, <2>5, <3>1, <3>2
      <3>4. ASSUME NEW i \in 1 .. n, NEW j \in 1 .. n, i # j
            PROVE  given'[i].pattern # given'[j].pattern
        BY <1>4, <2>1, <3>1, <3>2, <3>4 DEF RegInv, Complete
      <3> QED  BY <3>3, <3>4 DEF RegInv, Complete
    <2> QED  BY <1>3, <2>6, <2>7 DEF RegInv
  <1> QED  BY <1>5, <1>6

\* The other options only add errors.
LEMMA OptionStep ==
    ASSUME RegInv, pc = "options",
           UNCHANGED <<pc, upstreams, served, given>>, initErr \subseteq initErr',
           rejected' /\ ~rejected => initErr' # {}
    PROVE  RegInv'
  <1>1. served.via = "refused"  BY DEF RegInv, Serving
  <1>2. Serving'  BY <1>1 DEF Serving
  <1>3. Entries'  BY DEF RegInv, Entries, registered
  <1>4. initErr' = {} => initErr = {} /\ ~rejected'  BY DEF RegInv, Complete
  <1>5. Complete'  BY <1>4 DEF RegInv, Complete
  <1> QED  BY <1>2, <1>3, <1>5 DEF RegInv

\* So does the end of NewTransportE.
LEMMA BuildStep == ASSUME RegInv, Build PROVE RegInv'
  <1>1. /\ pc = "options" /\ UNCHANGED <<served, given, rejected>>
        /\ cloneForSSL(transport')
    BY DEF Build
  <1>2. served.via = "refused"  BY <1>1 DEF RegInv, Serving
  <1>3. /\ DOMAIN upstreams' = DOMAIN upstreams
        /\ \A k \in DOMAIN upstreams :
              upstreams'[k] = IF upstreams[k].sslName /\ transport' = "standard"
                              THEN [upstreams[k] EXCEPT !.transport = "cloned"] ELSE upstreams[k]
    BY <1>1 DEF cloneForSSL
  <1>4. /\ initErr \subseteq initErr'
        /\ (transport' # "standard" /\ \E k \in DOMAIN upstreams : upstreams[k].sslName) => initErr' # {}
    BY <1>1 DEF cloneForSSL
  <1>5. ASSUME NEW b, NEW t \in {"nil", "cloned"}
        PROVE  /\ [entry(b, t) EXCEPT !.transport = "cloned"] = entry(b, "cloned")
               /\ entry(b, t).sslName = b.sslName /\ entry(b, t).transport = t
    BY DEF entry
  <1>6. ASSUME NEW b, b.pattern \in DOMAIN upstreams, registered(upstreams, b)
        PROVE  /\ registered(upstreams', b)
               /\ initErr' = {} /\ upstreams'[b.pattern].sslName
                  => upstreams'[b.pattern].transport = "cloned"
    <2>1. PICK t \in {"nil", "cloned"} : upstreams[b.pattern] = entry(b, t)  BY <1>6 DEF registered
    <2>2. CASE upstreams[b.pattern].sslName /\ transport' = "standard"
      <3>1. upstreams'[b.pattern] = entry(b, "cloned")  BY <1>3, <1>5, <1>6, <2>1, <2>2
      <3> QED  BY <1>5, <3>1 DEF registered
    <2>3. CASE ~(upstreams[b.pattern].sslName /\ transport' = "standard")
      <3>1. upstreams'[b.pattern] = entry(b, t)  BY <1>3, <1>6, <2>1, <2>3
      <3> QED  BY <1>4, <1>6, <2>1, <2>3, <3>1 DEF registered
    <2> QED  BY <2>2, <2>3
  <1>7. Entries'
    <2> SUFFICES ASSUME NEW k \in DOMAIN upstreams
                 PROVE  \E b \in Blocks : b.pattern = k /\ sound(b) /\ registered(upstreams', b)
      BY <1>3 DEF Entries, sound
    <2> QED  BY <1>6 DEF RegInv, Entries
  <1>8. Complete'  BY <1>1, <1>3, <1>4, <1>6 DEF RegInv, Complete
  <1>9. Serving'
    <2>1. ASSUME NEW k \in DOMAIN upstreams, initErr' = {}
          PROVE  upstreams'[k].sslName => upstreams'[k].transport = "cloned"
      BY <1>6, <2>1 DEF RegInv, Entries
    <2> QED  BY <1>1, <1>2, <1>3, <2>1 DEF Serving
  <1> QED  BY <1>7, <1>8, <1>9 DEF RegInv

\* So does a request.
LEMMA RequestStep == ASSUME RegInv, NEW k \in Hosts, Request(k) PROVE RegInv'
  <1>1. /\ pc = "built" /\ UNCHANGED <<pc, upstreams, initErr, given, rejected>>
        /\ served' = IF initErr # {} THEN [host |-> k, via |-> "refused"]
                     ELSE IF k \notin DOMAIN upstreams THEN [host |-> k, via |-> "passed through"]
                     ELSE [host |-> k, via |-> newPicker(upstreams[k])]
    BY DEF Request
  <1>2. Entries' /\ Complete'
    <2>1. Entries'  BY <1>1 DEF RegInv, Entries
    <2>2. Complete'  BY <1>1 DEF RegInv, Complete
    <2> QED  BY <2>1, <2>2
  <1>3. served'.host = k
        /\ (served'.via # "refused" =>
               initErr = {} /\ (k \in DOMAIN upstreams => served'.via = newPicker(upstreams[k])))
    BY <1>1
  <1>4. Serving'  BY <1>1, <1>3 DEF RegInv, Serving
  <1> QED  BY <1>2, <1>4 DEF RegInv

\* Every step keeps the invariant.
LEMMA RegNext == ASSUME RegInv, [Next]_vars PROVE RegInv'
  <1>1. ASSUME NEW b \in Blocks, WithUpstream(b) PROVE RegInv'  BY <1>1, UpstreamStep
  <1>2. ASSUME NEW rt, WithRoundTripper(rt) PROVE RegInv'
    <2>1. CASE rt = "nil"
      <3>1. "nil RoundTripper" \in initErr'  BY <1>2, <2>1 DEF WithRoundTripper
      <3> QED  BY <1>2, <2>1, <3>1, OptionStep DEF WithRoundTripper, option
    <2>2. CASE rt # "nil"
      <3>1. rejected' <=> rejected  BY <1>2, <2>2 DEF WithRoundTripper
      <3> QED  BY <1>2, <2>2, <3>1, OptionStep DEF WithRoundTripper, option
    <2> QED  BY <2>1, <2>2
  <1>3. ASSUME NEW s, NEW v, WithSetting(s, v) PROVE RegInv'
    <2>1. CASE v < 0
      <3>1. s \in initErr'  BY <1>3, <2>1 DEF WithSetting
      <3> QED  BY <1>3, <2>1, <3>1, OptionStep DEF WithSetting, option
    <2>2. CASE ~(v < 0)
      <3>1. rejected' <=> rejected  BY <1>3, <2>2 DEF WithSetting
      <3> QED  BY <1>3, <2>2, <3>1, OptionStep DEF WithSetting, option
    <2> QED  BY <2>1, <2>2
  <1>4. CASE WithNonIdempotentRetries  BY <1>4, OptionStep DEF WithNonIdempotentRetries, option
  <1>5. CASE NilOption  BY <1>5, OptionStep DEF NilOption, option
  <1>6. CASE Build  BY <1>6, BuildStep
  <1>7. ASSUME NEW k \in Hosts, Request(k) PROVE RegInv'  BY <1>7, RequestStep
  <1>8. CASE UNCHANGED vars
    BY <1>8 DEF vars, RegInv, Entries, Complete, Serving, registered
  <1> QED  BY <1>1, <1>2, <1>3, <1>4, <1>5, <1>6, <1>7, <1>8 DEF Next

\* Spec keeps RegInv.
THEOREM RegInvariance == Spec => []RegInv
  <1>1. RegInv /\ [Next]_vars => RegInv'  BY RegNext
  <1> QED  BY <1>1, RegInit, PTL DEF Spec

-------------------------------------------------------------------------------
(* The properties. *)

\* A server validate has nothing against has its settings in range.
LEMMA InRange ==
    ASSUME NEW s \in ServerConfig, validate(s) = {}
    PROVE  s.Weight >= 0 /\ s.MaxConns >= 0 /\ s.MaxFails >= 0 /\ s.FailTimeout >= 0
  <1>1. s.Weight \in Int /\ s.MaxConns \in Int /\ s.MaxFails \in Int /\ s.FailTimeout \in Int
    BY DEF ServerConfig
  <1>2. ~(s.Weight < 0) /\ ~(s.MaxConns < 0)
    <2>1. "weight" \notin validate(s) /\ "max_conns" \notin validate(s)  OBVIOUS
    <2> QED  BY <2>1 DEF validate
  <1>3. ~(s.MaxFails < 0) /\ ~(s.FailTimeout < 0)
    <2>1. "max_fails" \notin validate(s) /\ "fail_timeout" \notin validate(s)  OBVIOUS
    <2> QED  BY <2>1 DEF validate
  <1> QED  BY <1>1, <1>2, <1>3

\* Nothing that was configured is lost without an error (NewTransportE,
\* registerUpstream).
THEOREM NothingLost == Spec => []NothingLostSilently
  <1>1. RegInv => NothingLostSilently
    <2> SUFFICES ASSUME RegInv, initErr = {}
                 PROVE  /\ ~rejected
                        /\ \A b \in blocksGiven : /\ b.pattern \in DOMAIN upstreams
                                                  /\ upstreams[b.pattern].peers = b.servers
                        /\ \A i, j \in DOMAIN given : i # j => given[i].pattern # given[j].pattern
      BY DEF NothingLostSilently
    <2>1. DOMAIN given = 1 .. Len(given)  BY DEF RegInv, Complete
    <2>2. ASSUME NEW b \in blocksGiven
          PROVE  b.pattern \in DOMAIN upstreams /\ upstreams[b.pattern].peers = b.servers
      <3>1. PICK i \in 1 .. Len(given) : b = given[i]  BY <2>1 DEF blocksGiven, Range
      <3>2. b.pattern \in DOMAIN upstreams /\ sound(b) /\ registered(upstreams, b) /\ b \in Blocks
        BY <3>1 DEF RegInv, Complete
      <3>3. upstreams[b.pattern].peers = peers(b)  BY <3>2 DEF registered, entry
      <3> QED  BY <3>2, <3>3, AllKept DEF sound
    <2> QED  BY <2>1, <2>2 DEF RegInv, Complete
  <1> QED  BY <1>1, RegInvariance, PTL

\* What is registered can be worked with (registerUpstream, validate, normalize).
THEOREM UpstreamsUsable == Spec => []RegisteredUsable
  <1>1. RegInv => RegisteredUsable
    <2> SUFFICES ASSUME RegInv, NEW k \in DOMAIN upstreams
                 PROVE  LET u == upstreams[k] IN
                        /\ \E s \in Range(u.peers) : ~s.Down
                        /\ \A s \in Range(u.peers) : s.Weight >= 0 /\ s.MaxConns >= 0
                                                     /\ s.MaxFails >= 0 /\ s.FailTimeout >= 0
                        /\ \A i \in DOMAIN u.peers : u.schemes[i] # ""
                        /\ u.algo \in Algorithms /\ u.balancer = u.algo
      BY DEF RegisteredUsable
    <2>1. PICK b \in Blocks : b.pattern = k /\ sound(b) /\ registered(upstreams, b)
      BY DEF RegInv, Entries
    <2>2. /\ upstreams[k].peers = peers(b) /\ upstreams[k].schemes = schemes(b)
          /\ upstreams[k].algo = algorithm(b) /\ upstreams[k].balancer = newBalancer(algorithm(b))
      BY <2>1 DEF registered, entry
    <2>3. peers(b) = b.servers /\ b.servers \in Seq(ServerConfig)
      BY <2>1, AllKept, BlocksAssumption DEF sound
    <2>4. \E s \in Range(peers(b)) : ~s.Down  BY <2>1 DEF sound, usable, Range
    <2>5. ASSUME NEW s \in Range(peers(b))
          PROVE  s.Weight >= 0 /\ s.MaxConns >= 0 /\ s.MaxFails >= 0 /\ s.FailTimeout >= 0
      <3>1. PICK i \in 1 .. Len(b.servers) : s = b.servers[i]  BY <2>3 DEF Range
      <3>2. s \in ServerConfig /\ validate(s) = {}
        <4>1. s \in ServerConfig  BY <2>3, <3>1
        <4>2. serverErrors(b) = {}  BY <2>1 DEF sound
        <4>3. accepted(b.servers[i])  BY <4>2, AllAccepted
        <4> QED  BY <3>1, <4>1, <4>3 DEF accepted
      <3> QED  BY <3>2, InRange
    <2>6. \A i \in DOMAIN peers(b) : schemes(b)[i] # ""
      BY <2>1, BlocksAssumption DEF schemes, sound
    <2>7. algorithm(b) \in Algorithms  BY <2>1 DEF sound, normalizeErrors
    <2> QED  BY <2>2, <2>4, <2>5, <2>6, <2>7 DEF newBalancer
  <1> QED  BY <1>1, RegInvariance, PTL

\* A hash function is never ignored (normalize, newPicker).
THEOREM HashUsed == Spec => []HashFunctionUsed
  <1>1. RegInv => HashFunctionUsed
    <2> SUFFICES ASSUME RegInv, NEW b \in blocksGiven, served.via # "refused",
                        b.hashFunc, served.host = b.pattern
                 PROVE  served.via = "key"
      BY DEF HashFunctionUsed
    <2>1. initErr = {} /\ DOMAIN given = 1 .. Len(given)  BY DEF RegInv, Serving, Complete
    <2>2. PICK i \in 1 .. Len(given) : b = given[i]  BY <2>1 DEF blocksGiven, Range
    <2>3. b.pattern \in DOMAIN upstreams /\ sound(b) /\ registered(upstreams, b)
      BY <2>1, <2>2 DEF RegInv, Complete
    <2>4. algorithm(b) \in Algorithms /\ algorithm(b) \in KeyedAlgorithms
      BY <2>3 DEF sound, normalizeErrors
    <2> DEFINE u == upstreams[b.pattern]
    <2>5. u.algo = algorithm(b) /\ u.balancer = algorithm(b) /\ u.hashFunc = b.hashFunc
      BY <2>3, <2>4 DEF registered, entry, newBalancer
    <2>6. newPicker(u) = "key"
      <3> HIDE DEF u
      <3> QED  BY <2>4, <2>5 DEF newPicker, KeyedAlgorithms
    <2> QED  BY <2>3, <2>6 DEF RegInv, Serving
  <1> QED  BY <1>1, RegInvariance, PTL

\* A TLS server name is never ignored (NewTransportE).
THEOREM ServerNamesUsed == Spec => []ServerNameUsed
  <1>1. RegInv => ServerNameUsed  BY DEF RegInv, Serving, ServerNameUsed
  <1> QED  BY <1>1, RegInvariance, PTL

\* A Transport with any configuration error serves no request (RoundTrip).
THEOREM BrokenRefuses == Spec => []BrokenServesNothing
  <1>1. RegInv => BrokenServesNothing
    <2> SUFFICES ASSUME RegInv, served.via # "refused"
                 PROVE  /\ ~rejected
                        /\ \A b \in blocksGiven : b.pattern # "invalid" /\ serverErrors(b) = {}
      BY DEF BrokenServesNothing
    <2>1. initErr = {} /\ DOMAIN given = 1 .. Len(given)  BY DEF RegInv, Serving, Complete
    <2>2. ASSUME NEW b \in blocksGiven PROVE b.pattern # "invalid" /\ serverErrors(b) = {}
      <3>1. PICK i \in 1 .. Len(given) : b = given[i]  BY <2>1 DEF blocksGiven, Range
      <3> QED  BY <2>1, <3>1 DEF RegInv, Complete, sound
    <2> QED  BY <2>1, <2>2 DEF RegInv, Complete
  <1> QED  BY <1>1, RegInvariance, PTL

===============================================================================
